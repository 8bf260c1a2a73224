---------------------------- MODULE SearchProofs -----------------------------
(* Proofs about the searches that take more than one step, on every backend    *)
(* (Queries), and about what icv-search learns and reports of the searches and *)
(* clicks it counts (Intelligence).                                            *)
EXTENDS Queries, Intelligence, FiniteSetTheorems, FunctionTheorems, SequenceTheorems, TLAPS

(* --------------------------- lists in an order --------------------------- *)

(* The lists of a finite set hold each member once.                            *)
LEMMA ListOfSet ==
  ASSUME NEW S, IsFiniteSet(S), NEW s \in SetToSeqs(S)
  PROVE  /\ Cardinality(S) \in Nat
         /\ s \in [1..Cardinality(S) -> S] /\ s \in Seq(S) /\ Len(s) = Cardinality(S)
         /\ \A i, j \in 1..Cardinality(S) : s[i] = s[j] => i = j
         /\ \A d \in S : \E i \in 1..Cardinality(S) : s[i] = d
<1> DEFINE n == Cardinality(S)
<1>1. n \in Nat
  BY FS_CardinalityType
<1>2. s \in [1..n -> S] /\ \A i, j \in 1..n : i # j => s[i] # s[j]
  BY DEF SetToSeqs
<1> HIDE DEF n
<1>3. s \in Seq(S) /\ Len(s) = n
  BY <1>1, <1>2
<1>4. \A i, j \in 1..n : s[i] = s[j] => i = j
  BY <1>2
<1>5. s \in Injection(1..n, S)
  BY <1>2, <1>4, Fun_IsInj
<1>6. Cardinality(1..n) = n /\ IsFiniteSet(1..n)
  BY <1>1, FS_Interval
<1>7. s \in Surjection(1..n, S)
  BY <1>5, <1>6, FS_Injection DEF n
<1>8. \A d \in S : \E i \in 1..n : s[i] = d
  BY <1>7 DEF Surjection
<1> QED
  BY <1>1, <1>2, <1>3, <1>4, <1>8 DEF n

(* Of two members the later one has more members before it.                    *)
LEMMA FewerBefore ==
  ASSUME NEW S, IsFiniteSet(S), NEW R, Orders(R, S), NEW d \in S, NEW e \in S, <<d, e>> \in R
  PROVE  Cardinality({g \in S : <<g, d>> \in R}) < Cardinality({g \in S : <<g, e>> \in R})
<1> DEFINE A == {g \in S : <<g, d>> \in R}
           B == {g \in S : <<g, e>> \in R}
<1>1. A \subseteq B /\ d \in B /\ d \notin A /\ B \subseteq S
  BY DEF Orders
<1> HIDE DEF A, B
<1>2. IsFiniteSet(B) /\ IsFiniteSet(A)
  BY <1>1, FS_Subset
<1>3. A # B
  BY <1>1
<1>4. Cardinality(A) <= Cardinality(B) /\ Cardinality(A) # Cardinality(B)
  BY <1>1, <1>2, <1>3, FS_Subset
<1>5. Cardinality(A) \in Nat /\ Cardinality(B) \in Nat
  BY <1>2, FS_CardinalityType
<1> QED
  BY <1>4, <1>5 DEF A, B

(* Each number below the size is the number of members before one of them.     *)
LEMMA Ranks ==
  ASSUME NEW S, IsFiniteSet(S), NEW R, Orders(R, S)
  PROVE  LET rank == [d \in S |-> Cardinality({e \in S : <<e, d>> \in R}) + 1]
         IN /\ rank \in [S -> 1..Cardinality(S)]
            /\ \A d, e \in S : rank[d] = rank[e] => d = e
            /\ \A i \in 1..Cardinality(S) : \E d \in S : rank[d] = i
<1> DEFINE pred(d) == {e \in S : <<e, d>> \in R}
           rank == [d \in S |-> Cardinality(pred(d)) + 1]
           n == Cardinality(S)
<1>1. n \in Nat
  BY FS_CardinalityType
<1>2. ASSUME NEW d \in S PROVE Cardinality(pred(d)) + 1 \in 1..n /\ Cardinality(pred(d)) \in Nat
 <2>1. pred(d) \subseteq S /\ d \notin pred(d)
   BY DEF Orders
 <2>2. pred(d) # S
   BY <2>1
 <2> HIDE DEF pred
 <2>3. IsFiniteSet(pred(d)) /\ Cardinality(pred(d)) <= n /\ Cardinality(pred(d)) # n
   BY <2>1, <2>2, FS_Subset
 <2>4. Cardinality(pred(d)) \in Nat
   BY <2>3, FS_CardinalityType
 <2> HIDE DEF n
 <2> QED
   BY <1>1, <2>3, <2>4
<1>3. rank \in [S -> 1..n]
  BY <1>2
<1>4. ASSUME NEW d \in S, NEW e \in S, rank[d] = rank[e] PROVE d = e
 <2>1. Cardinality(pred(d)) = Cardinality(pred(e))
  <3>1. Cardinality(pred(d)) + 1 = Cardinality(pred(e)) + 1
    BY <1>4
  <3> HIDE DEF pred
  <3> QED
    BY <1>2, <3>1
 <2>2. ~(<<d, e>> \in R) /\ ~(<<e, d>> \in R)
  <3>1. <<d, e>> \in R => Cardinality(pred(d)) < Cardinality(pred(e))
    BY FewerBefore
  <3>2. <<e, d>> \in R => Cardinality(pred(e)) < Cardinality(pred(d))
    BY FewerBefore
  <3> HIDE DEF pred
  <3> QED
    BY <1>2, <2>1, <3>1, <3>2
 <2> QED
   BY <2>2 DEF Orders
<1> HIDE DEF rank
<1>5. rank \in Injection(S, 1..n)
  BY <1>3, <1>4, Fun_IsInj
<1>6. Cardinality(1..n) = n /\ IsFiniteSet(1..n)
  BY <1>1, FS_Interval
<1>7. rank \in Surjection(S, 1..n)
  BY <1>5, <1>6, FS_Injection
<1>8. \A i \in 1..n : \E d \in S : rank[d] = i
  BY <1>7 DEF Surjection
<1> QED
  BY <1>3, <1>4, <1>8 DEF rank

(* SortedBy lists the members in the order of R.                               *)
LEMMA Sorted ==
  ASSUME NEW S, IsFiniteSet(S), NEW R, Orders(R, S)
  PROVE  /\ SortedBy(S, R) \in SetToSeqs(S)
         /\ \A i, j \in 1..Cardinality(S) : i < j => <<SortedBy(S, R)[i], SortedBy(S, R)[j]>> \in R
<1> DEFINE s == SortedBy(S, R)
           n == Cardinality(S)
           before(d) == Cardinality({e \in S : <<e, d>> \in R})
           rank == [d \in S |-> before(d) + 1]
<1>1. n \in Nat
  BY FS_CardinalityType
<1>2. /\ rank \in [S -> 1..n]
      /\ \A i \in 1..n : \E d \in S : rank[d] = i
 <2>1. n = Cardinality(S)
   OBVIOUS
 <2> HIDE DEF n
 <2> QED
   BY <2>1, Ranks
<1>3. ASSUME NEW d \in S PROVE before(d) \in Nat
 <2>1. {e \in S : <<e, d>> \in R} \subseteq S
   OBVIOUS
 <2>2. IsFiniteSet({e \in S : <<e, d>> \in R})
   BY <2>1, FS_Subset
 <2> QED
   BY <2>2, FS_CardinalityType
<1>4. ASSUME NEW i \in 1..n PROVE s[i] \in S /\ before(s[i]) = i - 1
 <2>1. PICK d \in S : rank[d] = i
   BY <1>2
 <2>2. before(d) = i - 1
  <3>1. before(d) + 1 = i
    BY <2>1
  <3> HIDE DEF before
  <3> QED
    BY <1>3, <3>1
 <2>3. s[i] = CHOOSE e \in S : before(e) = i - 1
   BY DEF SortedBy
 <2> HIDE DEF before, s
 <2> QED
   BY <2>2, <2>3
<1>5. ASSUME NEW i \in 1..n, NEW j \in 1..n, i < j PROVE <<s[i], s[j]>> \in R
 <2>1. s[i] \in S /\ s[j] \in S /\ before(s[i]) = i - 1 /\ before(s[j]) = j - 1
   BY <1>4
 <2>2. before(s[i]) < before(s[j])
  <3> HIDE DEF before, s
  <3> QED
    BY <1>1, <1>5, <2>1
 <2>3. ~(<<s[j], s[i]>> \in R)
  <3>1. <<s[j], s[i]>> \in R => before(s[j]) < before(s[i])
   <4>1. \A d, e \in S : <<d, e>> \in R => before(d) < before(e)
     BY FewerBefore
   <4> HIDE DEF s, before
   <4> QED
     BY <2>1, <4>1
  <3>2. before(s[i]) \in Nat /\ before(s[j]) \in Nat
    BY <1>3, <2>1
  <3> HIDE DEF before
  <3> QED
    BY <2>2, <3>1, <3>2
 <2>4. s[i] # s[j]
  <3>1. before(s[i]) # before(s[j])
   <4>1. before(s[i]) \in Nat /\ before(s[j]) \in Nat
     BY <1>3, <2>1
   <4> HIDE DEF before
   <4> QED
     BY <2>2, <4>1
  <3> HIDE DEF s
  <3> QED
    BY <3>1
 <2> HIDE DEF s
 <2> QED
   BY <2>1, <2>3, <2>4 DEF Orders
<1>6. s \in [1..n -> S]
 <2> DEFINE c(i) == CHOOSE d \in S : before(d) = i - 1
 <2>1. s = [i \in 1..n |-> c(i)]
   BY DEF SortedBy
 <2> HIDE DEF s, c
 <2>2. \A i \in 1..n : c(i) = s[i]
   BY <2>1
 <2>3. \A i \in 1..n : c(i) \in S
   BY <1>4, <2>2
 <2> QED
   BY <2>1, <2>3
<1>7. \A i, j \in 1..n : i # j => s[i] # s[j]
 <2> SUFFICES ASSUME NEW i \in 1..n, NEW j \in 1..n, i # j PROVE s[i] # s[j]
   OBVIOUS
 <2>1. i < j \/ j < i
  <3> HIDE DEF n
  <3> QED
    BY <1>1
 <2>2. s[i] \in S /\ s[j] \in S
   BY <1>4
 <2> HIDE DEF s
 <2> QED
   BY <1>5, <2>1, <2>2 DEF Orders
<1> HIDE DEF s
<1>8. s \in SetToSeqs(S)
  BY <1>6, <1>7 DEF SetToSeqs
<1> QED
  BY <1>5, <1>8 DEF s

LEMMA SameFunction ==
  ASSUME NEW D, NEW T, NEW f \in [D -> T], NEW g \in [D -> T], \A i \in D : f[i] = g[i]
  PROVE  f = g
  OBVIOUS

(* There is one list of a set in the order of R.                               *)
LEMMA SortedOnce ==
  ASSUME NEW S, IsFiniteSet(S), NEW R, Orders(R, S), NEW r \in SetToSeqs(S), NEW s \in SetToSeqs(S),
         \A i, j \in 1..Cardinality(S) : i < j => <<r[i], r[j]>> \in R,
         \A i, j \in 1..Cardinality(S) : i < j => <<s[i], s[j]>> \in R
  PROVE  r = s
<1> DEFINE n == Cardinality(S)
           before(d) == Cardinality({e \in S : <<e, d>> \in R})
<1>1. n \in Nat
  BY FS_CardinalityType
<1>2. ASSUME NEW t \in SetToSeqs(S), \A i, j \in 1..n : i < j => <<t[i], t[j]>> \in R, NEW k \in 1..n
      PROVE  before(t[k]) = k - 1
 <2>1. /\ t \in [1..n -> S] /\ \A i, j \in 1..n : t[i] = t[j] => i = j
       /\ \A d \in S : \E i \in 1..n : t[i] = d
   BY <1>2, ListOfSet
 <2> DEFINE B == {e \in S : <<e, t[k]>> \in R}
            m == k - 1
 <2> HIDE DEF n
 <2>2. \A i \in 1..n : t[i] \in B <=> i < k
  <3> SUFFICES ASSUME NEW i \in 1..n PROVE t[i] \in B <=> i < k
    OBVIOUS
  <3>1. t[i] \in S /\ t[k] \in S
    BY <2>1
  <3>2. i < k => <<t[i], t[k]>> \in R
    BY <1>2
  <3>3. i = k => ~(<<t[i], t[k]>> \in R)
    BY <3>1 DEF Orders
  <3>4. k < i => ~(<<t[i], t[k]>> \in R)
   <4> SUFFICES ASSUME k < i, <<t[i], t[k]>> \in R PROVE FALSE
     OBVIOUS
   <4>1. <<t[k], t[i]>> \in R
     BY <1>2
   <4>2. <<t[k], t[k]>> \in R
     BY <3>1, <4>1 DEF Orders
   <4> QED
     BY <3>1, <4>2 DEF Orders
  <3>5. i < k \/ i = k \/ k < i
    BY <1>1
  <3>6. t[i] \in B <=> <<t[i], t[k]>> \in R
    BY <3>1
  <3>7. i < k => ~(i = k)
    BY <1>1
  <3> QED
    BY <3>2, <3>3, <3>4, <3>5, <3>6
 <2>3. m \in Nat /\ \A i \in 1..m : i \in 1..n /\ i < k
   BY <1>1
 <2>4. \A i \in 1..n : i < k => i \in 1..m
   BY <1>1
 <2> DEFINE f == [i \in 1..m |-> t[i]]
 <2>5. B \subseteq S
   OBVIOUS
 <2> HIDE DEF B, m
 <2>6. f \in [1..m -> B] /\ \A i, j \in 1..m : f[i] = f[j] => i = j
   BY <2>1, <2>2, <2>3
 <2>7. \A d \in B : \E i \in 1..m : f[i] = d
  <3> SUFFICES ASSUME NEW d \in B PROVE \E i \in 1..m : f[i] = d
    OBVIOUS
  <3>1. PICK i \in 1..n : t[i] = d
    BY <2>1, <2>5
  <3>2. i \in 1..m
    BY <2>2, <2>4, <3>1
  <3> QED
    BY <3>1, <3>2
 <2> HIDE DEF f
 <2>8. f \in Injection(1..m, B) /\ f \in Surjection(1..m, B)
   BY <2>6, <2>7, Fun_IsInj, Fun_IsSurj
 <2>9. Cardinality(1..m) = m /\ IsFiniteSet(1..m) /\ IsFiniteSet(B)
   BY <2>3, <2>5, FS_Interval, FS_Subset
 <2>10. Cardinality(B) = m
   BY <2>8, <2>9, FS_Injection
 <2> QED
   BY <2>10 DEF B, m
<1>3. ASSUME NEW i \in 1..n PROVE r[i] = s[i]
 <2>1. before(r[i]) = i - 1
   BY <1>2
 <2>2. before(s[i]) = i - 1
   BY <1>2
 <2>3. r[i] \in S /\ s[i] \in S
   BY DEF SetToSeqs
 <2>4. \A d, e \in S : <<d, e>> \in R => before(d) < before(e)
   BY FewerBefore
 <2> HIDE DEF before, n
 <2>5. ~(before(r[i]) < before(s[i])) /\ ~(before(s[i]) < before(r[i]))
   BY <1>1, <2>1, <2>2
 <2> QED
   BY <2>3, <2>4, <2>5 DEF Orders
<1>4. r \in [1..n -> S] /\ s \in [1..n -> S]
  BY DEF SetToSeqs
<1> HIDE DEF n
<1>6. \A i \in 1..n : r[i] = s[i]
  BY <1>3
<1> DEFINE D == 1..n
<1>7. r \in [D -> S] /\ s \in [D -> S] /\ \A i \in D : r[i] = s[i]
  BY <1>4, <1>6
<1> HIDE DEF D
<1> QED
  BY <1>7, SameFunction

(* -------------------------- what a filter finds -------------------------- *)

Present(field) == Values(field) \cup {Null, Absent}

LEMMA ConditionType ==
  ASSUME NEW field \in Field, NEW c \in Cond(field)
  PROVE  /\ c.op \in {"is", "in", "__in", "__ne", "gte", "gt", "lte", "lt"} /\ c.x \in Values(field) \cup {Null}
         /\ c.none \in BOOLEAN
         /\ c.op \in Range_op => c.x # Null /\ ~c.none
         /\ c.op = "is" => ~c.none
         /\ c.op = "in" => c.x # Null
  BY DEF Cond, Range_op

LEMMA ValueType ==
  ASSUME NEW field \in Field
  PROVE  /\ Null \notin Values(field) /\ Absent \notin Values(field) /\ Gone \notin Present(field) /\ Null # Absent
         /\ \A v \in Present(field) : v.n \in Nat
  BY DEF Present, Field, Kind, Values, Null, Absent, Gone, Of

(* A dict that a backend neither refuses nor reads differently finds what it   *)
(* says.                                                                       *)
LEMMA DictFinds ==
  ASSUME NEW b \in {"dummy", "meilisearch", "opensearch", "typesense", "postgres", "solr", "vespa"},
         NEW field \in Field, NEW c \in Cond(field), NEW v \in Present(field), NEW f,
         f.form = "dict", f.c = c, Strays(b, field, f) = {}, ~dict_refused(b, field, c)
  PROVE  dict_finds(b, field, c, v) <=> Means(c, v)
<1>1. /\ c.op \in {"is", "in", "__in", "__ne", "gte", "gt", "lte", "lt"} /\ c.none \in BOOLEAN
      /\ c.op \in Range_op => c.x # Null /\ ~c.none
      /\ c.op = "is" => ~c.none
      /\ c.op = "in" => c.x # Null
  BY ConditionType
<1>2. Null # Absent
  BY ValueType
<1>3. /\ "skipped" \notin Strays(b, field, f) /\ "suffix" \notin Strays(b, field, f) /\ "none" \notin Strays(b, field, f)
      /\ "analysed" \notin Strays(b, field, f) /\ "list of booleans" \notin Strays(b, field, f)
      /\ "False is None" \notin Strays(b, field, f) /\ "as text" \notin Strays(b, field, f)
  OBVIOUS
<1>4. Skipped(c) => b \notin {"dummy", "postgres", "meilisearch", "vespa"}
  BY <1>3 DEF Strays
<1>5. ~Unknown(c)
  BY <1>3 DEF Strays
<1>6. c.none \/ c.x = Null => b = "dummy" \/ (~c.none /\ b \in {"solr", "opensearch"})
  BY <1>3 DEF Strays
<1>7. ~(b = "opensearch" /\ field = "dual" /\ c.op \in {"in", "is"} /\ c.x # Null)
  BY <1>3 DEF Strays
<1>8. ~(b = "postgres" /\ c.op = "in" /\ c.x.kind = "bool")
  BY <1>3 DEF Strays
<1>9. ~(b = "dummy" /\ c.op = "is" /\ c.x = Of("bool", 1))
  BY <1>3 DEF Strays
<1>10. c.op \in Range_op \/ c.op = "in" \/ c.op = "is"
  BY <1>1, <1>5 DEF Unknown, Range_op
<1>11. Seen(c, v) = v
  BY <1>5 DEF Seen
<1> DEFINE found == CASE b = "dummy" -> _matches_filters(c, v)
                      [] b = "postgres" -> postgres_where(c, v)
                      [] b = "meilisearch" -> translate_filter_to_meilisearch(c, v)
                      [] b = "vespa" -> translate_filter_to_yql(c, v)
                      [] b = "typesense" -> translate_filter_to_typesense(c, v)
                      [] b = "solr" -> translate_filter_to_solr(c, v)
                      [] b = "opensearch" -> translate_filter_to_opensearch(c, v, field)
<1>12. dict_finds(b, field, c, v) = found
  BY <1>5, <1>11 DEF dict_finds
<1>13. CASE c.op \in Range_op
 <2>1. Means(c, v) <=> Compares(c.op, v, c.x)
  <3>1. c.op \in {"gte", "gt", "lte", "lt"}
    BY <1>13 DEF Range_op
  <3>2. c.op # "in" /\ c.op # "is" /\ c.op # "__ne"
    BY <3>1
  <3> QED
    BY <1>13, <3>2, Zenon DEF Means
 <2>2. c.op # "in" /\ c.op # "is"
   BY <1>13 DEF Range_op
 <2>3. found <=> Compares(c.op, v, c.x)
  <3>1. b \in {"dummy", "postgres", "meilisearch", "vespa"} => ~Skipped(c)
    BY <1>4
  <3> HIDE DEF found
  <3>2. CASE b = "dummy"
    BY <1>13, <2>2, <3>1, <3>2 DEF found, _matches_filters
  <3>3. CASE b = "postgres"
    BY <1>13, <2>2, <3>1, <3>3 DEF found, postgres_where
  <3>4. CASE b = "meilisearch"
    BY <1>13, <2>2, <3>1, <3>4 DEF found, translate_filter_to_meilisearch
  <3>5. CASE b = "vespa"
    BY <1>13, <2>2, <3>1, <3>5 DEF found, translate_filter_to_yql
  <3>6. CASE b = "typesense"
    BY <1>13, <2>2, <3>6 DEF found, translate_filter_to_typesense
  <3>7. CASE b = "solr"
    BY <1>13, <2>2, <3>7 DEF found, translate_filter_to_solr
  <3>8. CASE b = "opensearch"
   <4>1. ~ByText(b, c.x)
     BY <1>3, <1>13 DEF Strays
   <4>2. keyword(c.x) = c.x /\ keyword(v).kind = v.kind /\ (v.kind = c.x.kind => keyword(v) = v)
     BY <3>8, <4>1 DEF ByText, keyword, Of
   <4>3. Compares(c.op, keyword(v), keyword(c.x)) <=> Compares(c.op, v, c.x)
     BY <4>2 DEF Compares
   <4> QED
     BY <1>13, <2>2, <3>8, <4>3 DEF found, translate_filter_to_opensearch
  <3> QED
    BY <3>2, <3>3, <3>4, <3>5, <3>6, <3>7, <3>8
 <2> QED
   BY <1>12, <2>1, <2>3
<1>14. CASE c.op \in {"in", "is"}
 <2>0. c.op \notin Range_op /\ ~Skipped(c)
   BY <1>14 DEF Range_op, Skipped
 <2>1. CASE c.op = "in"
  <3>1. Means(c, v) <=> v = c.x \/ (c.none /\ (v = Null \/ v = Absent))
    BY <2>0, <2>1, <1>1 DEF Means, ListOf, Missing
  <3>2. found <=> v = c.x \/ (c.none /\ (v = Null \/ v = Absent))
   <4>1. b # "dummy" => ~c.none
     BY <1>1, <1>6, <2>1
   <4>2. CASE b = "dummy"
     BY <1>1, <2>0, <2>1, <4>2 DEF _matches_filters, ListOf
   <4>3. CASE b # "dummy"
     BY <1>7, <1>8, <1>1, <2>0, <2>1, <4>1, <4>3
        DEF postgres_where, translate_filter_to_meilisearch, translate_filter_to_yql,
            translate_filter_to_typesense, translate_filter_to_solr, translate_filter_to_opensearch
   <4> QED
     BY <4>2, <4>3
  <3> QED
    BY <1>12, <3>1, <3>2
 <2>2. CASE c.op = "is" /\ c.x = Null
  <3>1. Means(c, v) <=> v = Null \/ v = Absent
    BY <2>0, <2>2 DEF Means, Missing
  <3>2. found <=> v = Null \/ v = Absent
   <4>1. b \in {"dummy", "solr", "opensearch"}
     BY <1>6, <2>2
   <4> QED
     BY <2>0, <2>2, <4>1 DEF _matches_filters, translate_filter_to_solr, translate_filter_to_opensearch, Missing
  <3> QED
    BY <1>12, <3>1, <3>2
 <2>3. CASE c.op = "is" /\ c.x # Null
  <3>1. Means(c, v) <=> v = c.x
    BY <2>0, <2>3 DEF Means
  <3>2. found <=> v = c.x
    BY <1>7, <1>9, <2>0, <2>3
       DEF _matches_filters, postgres_where, translate_filter_to_meilisearch, translate_filter_to_yql,
           translate_filter_to_typesense, translate_filter_to_solr, translate_filter_to_opensearch
  <3> QED
    BY <1>12, <3>1, <3>2
 <2> QED
   BY <1>14, <2>1, <2>2, <2>3
<1> QED
  BY <1>10, <1>13, <1>14

FilterOf(field) == {NoFilter} \cup [form : {"dict", "list", "native"}, c : Cond(field)]

(* So does any filter.                                                         *)
LEMMA FindsAsked ==
  ASSUME NEW b \in {"dummy", "meilisearch", "opensearch", "typesense", "postgres", "solr", "vespa"},
         NEW field \in Field, NEW f \in FilterOf(field), NEW v \in Present(field),
         Strays(b, field, f) = {}, ~refused(b, field, f)
  PROVE  finds(b, field, f, v) <=> Asked(f, v)
<1>1. CASE f.form = "none"
  BY <1>1 DEF finds, Asked
<1>2. CASE f.form # "none"
 <2>1. f.form \in {"dict", "list", "native"} /\ f.c \in Cond(field)
  <3>1. NoFilter.form = "none"
    BY DEF NoFilter
  <3> QED
    BY <1>2, <3>1 DEF FilterOf
 <2>2. Asked(f, v) <=> Means(f.c, v)
   BY <1>2 DEF Asked
 <2>3. CASE f.form = "dict"
  <3>1. ~dict_refused(b, field, f.c) /\ finds(b, field, f, v) = dict_finds(b, field, f.c, v)
    BY <2>3 DEF refused, finds
  <3> QED
    BY <2>1, <2>2, <2>3, <3>1, DictFinds
 <2>4. CASE f.form = "list"
  <3> DEFINE c == f.c
  <3>1. ~list_refused(b, c) /\ finds(b, field, f, v) = list_finds(b, c, v)
    BY <2>4 DEF refused, finds
  <3>2. "builder" \notin Strays(b, field, f) /\ "none" \notin Strays(b, field, f)
    OBVIOUS
  <3>3. b = "meilisearch"
    BY <2>4, <3>1, <3>2 DEF Strays, list_refused
  <3>4. ~(c.none \/ c.x = Null)
    BY <2>4, <3>2, <3>3 DEF Strays
  <3>5. /\ c.op \in {"is", "in", "__in", "__ne", "gte", "gt", "lte", "lt"} /\ c.op # "in"
    BY <2>1, <3>1, <3>3, ConditionType DEF list_refused
  <3> HIDE DEF c
  <3>6. finds(b, field, f, v) <=> _build_filter_expression(c, v)
    BY <3>1, <3>3 DEF list_finds
  <3>7. _build_filter_expression(c, v) <=> Means(c, v)
    BY <3>4, <3>5 DEF _build_filter_expression, Means, Range_op
  <3> QED
    BY <2>2, <3>6, <3>7 DEF c
 <2>5. CASE f.form = "native"
  <3>1. finds(b, field, f, v) = native_finds(b, f.c, v)
    BY <2>5 DEF finds
  <3>2. "raw" \notin Strays(b, field, f)
    OBVIOUS
  <3>3. b \notin {"dummy", "opensearch"}
    BY <2>5, <3>2 DEF Strays
  <3> QED
    BY <2>2, <3>1, <3>3 DEF native_finds
 <2> QED
   BY <2>1, <2>3, <2>4, <2>5
<1> QED
  BY <1>1, <1>2

QueriesType ==
  /\ index \in [engine : Backend, field : Field]
  /\ docs \in [Doc -> Present(index.field) \cup {Gone}]

LEMMA PlaceType ==
  ASSUME NEW b \in Backend \cup {"asked"}, NEW field \in Field, NEW dir, NEW v \in Present(field)
  PROVE  Place(b, dir, v) \in Int
<1>1. v.n \in Nat /\ keyword(v).n \in Int
  BY ValueType DEF keyword, Of
<1>2. \A w, m : w.n \in Int /\ m \in Int => Placed(dir, w, m) \in Int
  BY DEF Placed, Up
<1>3. Up(dir, 0) \in Int /\ Up(dir, 3) \in Int /\ Up(dir, v.n) \in Int
  BY <1>1 DEF Up
<1> QED
  BY <1>1, <1>2, <1>3, BackendAssumption
     DEF Place, apply_sort_to_documents, postgres_order, translate_sort_to_opensearch, translate_sort_to_meilisearch,
         translate_sort_to_solr, translate_sort_to_typesense, translate_sort_to_yql

(* A sort is a total preorder of the values.                                   *)
LEMMA InOrderOf ==
  ASSUME NEW b \in Backend \cup {"asked"}, NEW field \in Field, NEW sort
  PROVE  /\ \A v, w \in Present(field) : InOrder(b, sort, v, w) \/ InOrder(b, sort, w, v)
         /\ \A v, w, x \in Present(field) : InOrder(b, sort, v, w) /\ InOrder(b, sort, w, x) => InOrder(b, sort, v, x)
<1>1. \A v \in Present(field) : Place(b, sort, v) \in Int
  BY PlaceType
<1> QED
  BY <1>1 DEF InOrder

(* A backend keeps the order that was asked for where it puts no missing value *)
(* first and compares no numbers as texts.                                     *)
LEMMA PlacesAgree ==
  ASSUME NEW b \in Backend, NEW field \in Field, NEW dir \in {"asc", "desc"}, NEW v \in Present(field), NEW w \in Present(field),
         ~MissingFirst(b, dir, v), ~MissingFirst(b, dir, w), ~ByText(b, v), ~ByText(b, w), InOrder(b, dir, v, w)
  PROVE  InOrder("asked", dir, v, w)
<1>1. \A x \in Present(field) : Missing(x) \/ (x.n \in 1..2 /\ x # Absent)
  BY DEF Present, Values, Missing, Of, Null, Absent
<1>2. ASSUME NEW x \in Present(field), ~MissingFirst(b, dir, x), ~ByText(b, x)
      PROVE  IF Missing(x) THEN Place(b, dir, x) \in {3, 4} ELSE Place(b, dir, x) = Up(dir, x.n)
 <2>1. b = "opensearch" => keyword(x) = x
   BY <1>2 DEF ByText, keyword
 <2>2. CASE Missing(x)
  <3>1. Place(b, dir, x) # 0 /\ x.n = 0
    BY <1>2, <2>2 DEF MissingFirst, Missing, Null, Absent, Of
  <3> QED
    BY <2>1, <2>2, <3>1, BackendAssumption
       DEF Place, Placed, Up, apply_sort_to_documents, postgres_order, translate_sort_to_opensearch,
           translate_sort_to_meilisearch, translate_sort_to_solr, translate_sort_to_typesense, translate_sort_to_yql
 <2>3. CASE ~Missing(x)
   BY <1>1, <2>1, <2>3, BackendAssumption
      DEF Place, Placed, apply_sort_to_documents, postgres_order, translate_sort_to_opensearch,
          translate_sort_to_meilisearch, translate_sort_to_solr, translate_sort_to_typesense, translate_sort_to_yql
 <2> QED
   BY <2>2, <2>3
<1>3. \A x \in Present(field) : ~Missing(x) => Up(dir, x.n) \in 1..2
  BY <1>1 DEF Up
<1>4. \A x : Place("asked", dir, x) = IF Missing(x) THEN 3 ELSE Up(dir, x.n)
  BY DEF Place, Placed
<1>5. Place(b, dir, v) <= Place(b, dir, w)
  BY DEF InOrder
<1> QED
  BY <1>2, <1>3, <1>4, <1>5 DEF InOrder

(* The engine's order leaves nothing open.                                     *)
LEMMA PrecedesOrders ==
  ASSUME QueriesType, NEW S \in SUBSET There, NEW sort \in {"none", "asc", "desc"}, NEW text \in BOOLEAN
  PROVE  Orders({p \in S \X S : Precedes(p[1], p[2], sort, text)}, S)
<1> DEFINE R == {p \in S \X S : Precedes(p[1], p[2], sort, text)}
           le(d, e) == InOrder(index.engine, sort, docs[d], docs[e])
<1>1. \A d, e \in S : <<d, e>> \in R <=> Precedes(d, e, sort, text)
  OBVIOUS
<1>2. /\ \A d \in S : d \in Nat /\ docs[d] \in Present(index.field)
      /\ index.field \in Field /\ index.engine \in Backend
  BY DocAssumption DEF QueriesType, There
<1>3. CASE sort = "none"
 <2>1. \A d, e \in S : Precedes(d, e, sort, text) <=> IF text /\ index.engine # "dummy" THEN d > e ELSE d < e
   BY <1>3 DEF Precedes
 <2> HIDE DEF R
 <2> DEFINE down == text /\ index.engine # "dummy"
 <2>2. CASE down
  <3>1. \A d, e \in S : <<d, e>> \in R <=> d > e
    BY <1>1, <2>1, <2>2
  <3>2. \A d \in S : d \in Nat
    BY <1>2
  <3> QED
    BY <3>1, <3>2 DEF Orders, R
 <2>3. CASE ~down
  <3>1. \A d, e \in S : <<d, e>> \in R <=> d < e
    BY <1>1, <2>1, <2>3
  <3>2. \A d \in S : d \in Nat
    BY <1>2
  <3> QED
    BY <3>1, <3>2 DEF Orders, R
 <2> QED
   BY <2>2, <2>3
<1>4. CASE sort # "none"
 <2>1. \A d, e \in S : Precedes(d, e, sort, text) <=> (le(d, e) /\ ~le(e, d)) \/ (~(le(e, d) /\ ~le(d, e)) /\ d < e)
   BY <1>4 DEF Precedes, Before
 <2>3. /\ \A d, e \in S : le(d, e) \/ le(e, d)
       /\ \A d, e, g \in S : le(d, e) /\ le(e, g) => le(d, g)
   BY <1>2, InOrderOf
 <2> HIDE DEF le, R
 <2>4. \A d, e \in S : <<d, e>> \in R <=> (le(d, e) /\ ~le(e, d)) \/ (~(le(e, d) /\ ~le(d, e)) /\ d < e)
   BY <1>1, <2>1
 <2>5. \A d \in S : d \in Nat
   BY <1>2
 <2>6. \A d \in S : <<d, d>> \notin R
   BY <2>4, <2>5
 <2>7. ASSUME NEW d \in S, NEW e \in S
       PROVE  d = e \/ <<d, e>> \in R \/ <<e, d>> \in R
  <3>1. le(d, e) \/ le(e, d)
    BY <2>3
  <3>2. d = e \/ d < e \/ e < d
    BY <2>5
  <3>3. /\ <<d, e>> \in R <=> (le(d, e) /\ ~le(e, d)) \/ (~(le(e, d) /\ ~le(d, e)) /\ d < e)
        /\ <<e, d>> \in R <=> (le(e, d) /\ ~le(d, e)) \/ (~(le(d, e) /\ ~le(e, d)) /\ e < d)
    BY <2>4
  <3> QED
    BY <3>1, <3>2, <3>3
 <2>8. ASSUME NEW d \in S, NEW e \in S, NEW g \in S, <<d, e>> \in R, <<e, g>> \in R
       PROVE  <<d, g>> \in R
  <3>1. le(d, e) /\ le(e, g) /\ le(d, g)
    BY <2>3, <2>4, <2>8
  <3>2. le(g, d) => le(e, d) /\ le(g, e)
    BY <2>3, <3>1
  <3>3. (le(e, d) => d < e) /\ (le(g, e) => e < g)
    BY <2>4, <2>8
  <3>4. d \in Nat /\ e \in Nat /\ g \in Nat
    BY <2>5
  <3>5. le(g, d) => d < g
    BY <3>2, <3>3, <3>4
  <3> QED
    BY <2>4, <3>1, <3>5
 <2> QED
   BY <2>6, <2>7, <2>8 DEF Orders, R
<1> QED
  BY <1>3, <1>4

(* --------------------- the invariant of the searches --------------------- *)

Stray == {"skipped", "suffix", "builder", "raw", "none", "analysed", "as text", "list of booleans", "False is None"}
Cause == Stray \cup {"unordered", "shifted", "stale", "kept", "same page", "few", "page rounded", "missing first",
                    "scored before", "highlights stay"}

ScoreType == [of : Nat, value : Nat]
CallType ==
  [op : {"none", "delete", "read", "search"},
   step : {"idle", "page", "remove", "done", "failed", "search", "pin", "boost"},
   filter : FilterOf(index.field), sort : {"none", "asc", "desc"}, mode : {"none", "offset", "page", "paginate"},
   start : Nat, offset : Nat, number : Nat, ids : SUBSET Doc, shown : Seq(Doc), removed : SUBSET Doc,
   always : SUBSET Doc, changed : BOOLEAN, why : SUBSET Cause, text : BOOLEAN, marked : BOOLEAN,
   pins : Seq(Pin), boost : BOOLEAN, scores : Seq(ScoreType), formatted : Seq(Doc), stubs : SUBSET Doc]

(* A deletion: what it has collected is what was asked for unless a document   *)
(* was written, and without writes and with an order of its own the engine has *)
(* given it the documents before the offset.                                   *)
GivenSoFar ==
  LET found == Found(call.filter)
  IN /\ call.offset <= Cardinality(found)
     /\ \A d \in Doc : d \in call.ids <=> \E i \in 1..call.offset : EngineOrder(found, "none", FALSE)[i] = d

Collected ==
  (call.op = "delete" /\ call.step \in {"page", "remove"}) =>
    /\ Strays(index.engine, index.field, call.filter) \subseteq call.why
    /\ call.always \subseteq Wanted(call.filter) /\ call.removed = {} /\ "kept" \notin call.why
    /\ call.why \subseteq {"shifted"} => call.ids \subseteq Wanted(call.filter)
    /\ call.step = "remove" /\ call.why \subseteq {"stale"} => call.always \subseteq call.ids
    /\ call.step = "page" =>
         /\ \E k \in 0..call.offset : call.offset = k * Limit
         /\ call.offset = 0 => call.ids = {}
         /\ (call.offset > 0 /\ ~call.changed /\ index.engine # "postgres") => GivenSoFar

(* A reader that goes on where it stopped has seen one ranking up to there.    *)
Goes_on == call.mode = "offset" \/ (call.mode = "page" /\ index.engine = "meilisearch")
Shows(shown, ranking, start, end) ==
  /\ Len(shown) = (IF end < Len(ranking) THEN end ELSE Len(ranking)) - start
  /\ \A i \in 1..Len(shown) : shown[i] = ranking[start + i]

ReadSome ==
  /\ call.offset <= Cardinality(Found(call.filter))
  /\ \E ranking \in Rankings(Found(call.filter), call.sort, FALSE) :
       Shows(call.shown, ranking, call.start, call.offset)
ReadAll ==
  IF call.start > Cardinality(Found(call.filter)) THEN call.shown = <<>>
  ELSE \E ranking \in Rankings(Found(call.filter), call.sort, FALSE) :
         Shows(call.shown, ranking, call.start, Cardinality(Found(call.filter)))
AsSorted(d, sort) == ~MissingFirst(index.engine, sort, docs[d]) /\ ~ByText(index.engine, docs[d])
ValuesLast == call.sort = "none" \/ \A d \in Found(call.filter) : AsSorted(d, call.sort)
Paged ==
  /\ call.number >= 1 /\ call.number - 1 <= call.offset
  /\ call.offset = call.start + (call.number - 1) * Limit
  /\ call.number = 1 => call.shown = <<>>

ReadSoFar ==
  (call.op = "read" /\ call.step \in {"page", "done"}) =>
    /\ Strays(index.engine, index.field, call.filter) \subseteq call.why
    /\ call.mode # "none" /\ (call.start > 0 => call.mode = "offset")
    /\ call.step = "page" => Paged /\ ((call.number > 1 /\ call.why = {} /\ Goes_on) => ReadSome)
    /\ (call.step = "done" /\ call.why = {}) => ~Refuses(call.filter, call.sort) /\ ValuesLast /\ ReadAll

(* Hits and scores that pins and boosts keep side by side.                     *)
Once(s) == \A i, j \in 1..Len(s) : s[i] = s[j] => i = j
Aligned(scores, hits) ==
  Len(scores) = Len(hits) /\ \A i \in 1..Len(hits) : scores[i].of = 0 \/ scores[i].of = hits[i]
SideBySide ==
  (call.op = "search" /\ call.step \notin {"search", "failed"}) =>
    /\ Once(call.shown)
    /\ call.scores = <<>> \/ Len(call.scores) >= Len(call.shown)
    /\ "scored before" \notin call.why => call.scores = <<>> \/ Aligned(call.scores, call.shown)
    /\ "highlights stay" \notin call.why => call.formatted \in {<<>>, call.shown}

QueriesInv == QueriesType /\ call \in CallType /\ Collected /\ ReadSoFar /\ SideBySide

(* -------------------------- rankings and pages --------------------------- *)

LEMMA ThereFinite ==
  ASSUME QueriesType
  PROVE  /\ IsFiniteSet(There) /\ There \subseteq Doc
         /\ \A d \in There : docs[d] \in Present(index.field)
         /\ \A S \in SUBSET There : IsFiniteSet(S) /\ Cardinality(S) \in Nat /\ S \in SUBSET Doc /\ Cardinality(S) <= Cardinality(Doc)
<1>1. There \subseteq Doc
  BY DEF There
<1>2. IsFiniteSet(Doc)
  BY DocAssumption
<1>3. IsFiniteSet(There)
  BY <1>1, <1>2, FS_Subset
<1>4. \A d \in There : docs[d] \in Present(index.field)
  BY DEF There, QueriesType
<1>5. ASSUME NEW S \in SUBSET There
      PROVE  IsFiniteSet(S) /\ Cardinality(S) \in Nat /\ S \in SUBSET Doc /\ Cardinality(S) <= Cardinality(Doc)
 <2>1. S \in SUBSET Doc
   BY <1>1
 <2>2. IsFiniteSet(S) /\ Cardinality(S) <= Cardinality(Doc)
   BY <1>2, <2>1, FS_Subset
 <2> QED
   BY <2>1, <2>2, FS_CardinalityType
<1> QED
  BY <1>1, <1>3, <1>4, <1>5

(* A slice of a list: limit elements after the first offset.                   *)
LEMMA SliceIs ==
  ASSUME NEW T, NEW s \in Seq(T), NEW limit \in Nat \ {0}, NEW offset \in Nat
  PROVE  /\ Slice(s, limit, offset) \in Seq(T)
         /\ Len(Slice(s, limit, offset)) =
              IF offset + limit < Len(s) THEN limit ELSE IF offset < Len(s) THEN Len(s) - offset ELSE 0
         /\ \A i \in 1..Len(Slice(s, limit, offset)) : offset + i \in 1..Len(s) /\ Slice(s, limit, offset)[i] = s[offset + i]
<1> DEFINE m == offset + 1
           n == IF offset + limit < Len(s) THEN offset + limit ELSE Len(s)
           t == SubSeq(s, m, n)
<1>1. Slice(s, limit, offset) = t
  BY DEF Slice
<1>2. Len(s) \in Nat /\ \A i \in 1..Len(s) : s[i] \in T
  BY LenProperties
<1>3. m \in Int /\ n \in Int /\ m >= 1 /\ n <= Len(s)
  BY <1>2
<1>4. n - m + 1 = IF offset + limit < Len(s) THEN limit ELSE Len(s) - offset
  BY <1>2
<1>5. m <= n <=> offset < Len(s)
  BY <1>2
<1> HIDE DEF n, t
<1>6. \A i \in m..n : s[i] \in T
  BY <1>2, <1>3
<1>7. m \in Int
  OBVIOUS
<1> HIDE DEF m
<1>8. /\ t \in Seq(T) /\ Len(t) = IF m <= n THEN n - m + 1 ELSE 0
      /\ \A i \in 1..n - m + 1 : t[i] = s[m + i - 1]
  BY <1>3, <1>6, <1>7, SubSeqProperties DEF t
<1>9. Len(t) = IF offset + limit < Len(s) THEN limit ELSE IF offset < Len(s) THEN Len(s) - offset ELSE 0
  BY <1>2, <1>4, <1>5, <1>8
<1>10. ASSUME NEW i \in 1..Len(t) PROVE offset + i \in 1..Len(s) /\ t[i] = s[offset + i]
 <2>1. i \in 1..n - m + 1
   BY <1>3, <1>7, <1>8
 <2>2. m + i - 1 = offset + i /\ offset + i \in 1..Len(s)
   BY <1>2, <1>3, <2>1 DEF m
 <2> QED
   BY <1>8, <2>1, <2>2
<1> QED
  BY <1>1, <1>8, <1>9, <1>10

LEMMA Multiple == ASSUME NEW k \in Nat, NEW n \in Nat \ {0} PROVE (k * n) \div n = k
  OBVIOUS

(* What every backend answers, and Typesense to an offset that is a multiple   *)
(* of the limit, is the page that was asked for.                               *)
LEMMA PageIs ==
  ASSUME QueriesType, NEW ranking \in Seq(Doc), NEW limit \in Nat \ {0}, NEW offset \in Nat,
         index.engine # "typesense" \/ (offset \div limit) * limit = offset
  PROVE  Page(ranking, limit, offset) = Slice(ranking, limit, offset)
<1>1. index.engine \in {"dummy", "meilisearch", "opensearch", "typesense", "postgres", "solr", "vespa"}
  BY BackendAssumption DEF QueriesType
<1> DEFINE q == [ranking |-> ranking, matched |-> <<>>, limit |-> limit, offset |-> offset, text |-> FALSE, marked |-> FALSE]
           hits == Slice(ranking, limit, offset)
<1>2. Page(ranking, limit, offset) = backend_search(q).hits
  BY DEF Page
<1>3. Hits(q) = hits
  BY DEF Hits
<1>4. CASE index.engine = "typesense"
 <2>1. backend_search(q) = typesense_search(q)
   BY <1>4 DEF backend_search
 <2>2. q.ranking = ranking /\ (q.offset \div q.limit) * q.limit = offset /\ q.limit = limit
   BY <1>4
 <2> HIDE DEF q
 <2> QED
   BY <1>2, <2>1, <2>2 DEF typesense_search, Answer
<1>5. CASE index.engine # "typesense"
 <2> HIDE DEF q, hits
 <2> QED
  <3>1. CASE index.engine = "dummy"
    BY <1>2, <1>3, <3>1 DEF backend_search, dummy_search, Answer, hits
  <3>2. CASE index.engine = "postgres"
    BY <1>2, <1>3, <3>2 DEF backend_search, postgres_search, Answer, hits
  <3>3. CASE index.engine = "meilisearch"
    BY <1>2, <1>3, <3>3 DEF backend_search, meilisearch_search, Answer, hits
  <3>4. CASE index.engine = "opensearch"
    BY <1>2, <1>3, <3>4 DEF backend_search, opensearch_search, Answer, hits
  <3>5. CASE index.engine = "solr"
    BY <1>2, <1>3, <3>5 DEF backend_search, solr_search, Answer, hits
  <3>6. CASE index.engine = "vespa"
    BY <1>2, <1>3, <3>6 DEF backend_search, vespa_search, Answer, hits
  <3> QED
    BY <1>1, <1>5, <3>1, <3>2, <3>3, <3>4, <3>5, <3>6
<1> QED
  BY <1>4, <1>5

(* The engine lists the members of a set in its order.                         *)
LEMMA EngineOrderIs ==
  ASSUME QueriesType, NEW S \in SUBSET There, NEW sort \in {"none", "asc", "desc"}, NEW text \in BOOLEAN
  PROVE  /\ EngineOrder(S, sort, text) \in SetToSeqs(S)
         /\ \A i, j \in 1..Cardinality(S) :
              i < j => Precedes(EngineOrder(S, sort, text)[i], EngineOrder(S, sort, text)[j], sort, text)
<1> DEFINE R == {p \in S \X S : Precedes(p[1], p[2], sort, text)}
           s == SortedBy(S, R)
<1>1. Orders(R, S) /\ IsFiniteSet(S)
  BY PrecedesOrders, ThereFinite
<1>2. EngineOrder(S, sort, text) = s
  BY DEF EngineOrder
<1>3. \A d, e : <<d, e>> \in R => Precedes(d, e, sort, text)
  OBVIOUS
<1> HIDE DEF R
<1>4. s \in SetToSeqs(S) /\ \A i, j \in 1..Cardinality(S) : i < j => <<s[i], s[j]>> \in R
  BY <1>1, Sorted
<1> HIDE DEF s
<1> QED
  BY <1>2, <1>3, <1>4

LEMMA RankingsAre ==
  ASSUME QueriesType, NEW S \in SUBSET There, NEW sort \in {"none", "asc", "desc"}, NEW text \in BOOLEAN,
         NEW ranking \in Rankings(S, sort, text)
  PROVE  /\ ranking \in SetToSeqs(S)
         /\ index.engine # "postgres" => ranking = EngineOrder(S, sort, text)
         /\ ranking \in Seq(Doc) /\ Len(ranking) = Cardinality(S) /\ DOMAIN ranking = 1..Cardinality(S)
         /\ \A i \in 1..Cardinality(S) : ranking[i] \in S
<1>1. EngineOrder(S, sort, text) \in SetToSeqs(S) /\ EngineOrder(S, "none", TRUE) \in SetToSeqs(S)
  BY EngineOrderIs
<1>2. ranking \in SetToSeqs(S) /\ (index.engine # "postgres" => ranking = EngineOrder(S, sort, text))
  BY <1>1 DEF Rankings
<1>3. IsFiniteSet(S) /\ S \subseteq Doc
  BY ThereFinite
<1>4. /\ Cardinality(S) \in Nat
      /\ ranking \in [1..Cardinality(S) -> S] /\ ranking \in Seq(S) /\ Len(ranking) = Cardinality(S)
  BY <1>2, <1>3, ListOfSet
<1>5. ranking \in Seq(Doc)
  BY <1>3, <1>4, SeqMonotonic
<1> QED
  BY <1>2, <1>4, <1>5

(* -------------------------- deletion by filter --------------------------- *)

LEMMA NoFilterType == ASSUME NEW field PROVE NoFilter \in FilterOf(field)
  BY DEF FilterOf

LEMMA IdleType == Idle \in CallType
  BY NoFilterType, EmptySeq DEF Idle, CallType

LEMMA AnyFilterType ==
  ASSUME NEW forms \in SUBSET {"dict", "list", "native", "none"}, NEW f \in AnyFilter(forms)
  PROVE  f \in FilterOf(index.field) /\ f.form \in forms
<1>1. PICK form \in forms : f \in IF form = "none" THEN {NoFilter} ELSE Filter(index.field, form)
  BY DEF AnyFilter
<1>2. CASE form = "none"
 <2>1. f = NoFilter /\ form \in forms
   BY <1>1, <1>2
 <2>2. NoFilter.form = "none"
   BY DEF NoFilter
 <2> QED
   BY <1>2, <2>1, <2>2, NoFilterType
<1>3. CASE form # "none"
 <2>1. form \in {"dict", "list", "native"} /\ f \in Filter(index.field, form)
   BY <1>1, <1>3
 <2>2. PICK c \in Cond(index.field) : f = [form |-> form, c |-> c]
   BY <2>1 DEF Filter
 <2> QED
   BY <1>1, <2>1, <2>2 DEF FilterOf
<1> QED
  BY <1>2, <1>3

LEMMA StraysType == ASSUME NEW b, NEW field, NEW f PROVE Strays(b, field, f) \in SUBSET Stray /\ Stray \subseteq Cause
<1>1. Strays(b, field, f) \subseteq Stray
  BY Zenon DEF Strays, Stray
<1> QED
  BY <1>1 DEF Cause

(* What DeletesRight asks of a step.                                           *)
RemovesRight ==
  call.op = "delete" /\ call'.step = "done" =>
    /\ call'.why \ {"stale"} = {} => call.always \subseteq call'.removed
    /\ call'.why \ {"shifted", "kept"} = {} => call'.removed \subseteq Wanted(call.filter)

LEMMA DeleteStep ==
  ASSUME QueriesInv, NEW f \in AnyFilter({"dict", "native"}), Delete(f)
  PROVE  QueriesInv' /\ RemovesRight
<1>1. f \in FilterOf(index.field)
  BY AnyFilterType
<1>2. UNCHANGED <<index, docs>> /\ QueriesType' /\ call.op = "none"
  BY DEF Delete, QueriesInv, QueriesType
<1>3. CallType' = CallType
  BY <1>2 DEF CallType
<1> DEFINE always == Wanted(f)
           why == Strays(index.engine, index.field, f)
<1>4. always \in SUBSET Doc /\ why \in SUBSET Cause
  BY StraysType DEF Wanted, There
<1>5. Wanted(f)' = always
  BY <1>2 DEF Wanted, There
<1>6. Strays(index.engine, index.field, f)' = why
  BY <1>2
<1>7. call' = [Idle EXCEPT !.op = "delete", !.step = "page", !.filter = f, !.always = always, !.why = why]
  BY DEF Delete
<1> HIDE DEF always, why
<1>8. /\ call' \in CallType /\ call'.op = "delete" /\ call'.step = "page" /\ call'.filter = f /\ call'.always = always
      /\ call'.why = why /\ call'.removed = {} /\ call'.ids = {} /\ call'.offset = 0
 <2>1. Idle \in CallType
   BY IdleType
 <2>2. call' \in CallType /\ call'.op = "delete" /\ call'.step = "page" /\ call'.filter = f /\ call'.always = always /\ call'.why = why
       /\ call'.removed = Idle.removed /\ call'.ids = Idle.ids /\ call'.offset = Idle.offset
   BY <1>1, <1>4, <1>7, <2>1 DEF CallType
 <2> QED
   BY <2>2 DEF Idle
<1>9. Collected'
 <2>1. \E k \in 0..0 : 0 = k * Limit
  <3>1. 0 \in 0..0 /\ 0 = 0 * Limit
    BY LimitAssumption
  <3> QED
    BY <3>1
 <2>2. (\E k \in 0..call.offset : call.offset = k * Limit)'
   BY <1>8, <2>1
 <2>3. (Strays(index.engine, index.field, call.filter) \subseteq call.why /\ call.always \subseteq Wanted(call.filter))'
  <3>1. Wanted(call.filter)' = always
    BY <1>2, <1>5, <1>8 DEF Wanted, There
  <3>2. Strays(index.engine, index.field, call.filter)' = why
    BY <1>2, <1>6, <1>8
  <3> QED
    BY <1>8, <3>1, <3>2
 <2>4. ~(call.offset > 0)'
   BY <1>8
 <2>5. "kept" \notin call'.why
  <3>1. why \subseteq Stray
    BY StraysType DEF why
  <3>2. "kept" \notin Stray
    BY DEF Stray
  <3> QED
    BY <1>8, <3>1, <3>2
 <2> QED
   BY <1>8, <2>2, <2>3, <2>4, <2>5 DEF Collected
<1>10. ReadSoFar' /\ SideBySide'
  BY <1>8 DEF ReadSoFar, SideBySide
<1> QED
  BY <1>2, <1>3, <1>8, <1>9, <1>10 DEF QueriesInv, RemovesRight

LEMMA FoundIsWanted ==
  ASSUME QueriesType, NEW f \in FilterOf(index.field), Strays(index.engine, index.field, f) = {},
         ~refused(index.engine, index.field, f)
  PROVE  Found(f) = Wanted(f)
<1>1. index.engine \in {"dummy", "meilisearch", "opensearch", "typesense", "postgres", "solr", "vespa"} /\ index.field \in Field
  BY BackendAssumption DEF QueriesType
<1>2. \A d \in There : finds(index.engine, index.field, f, docs[d]) <=> Asked(f, docs[d])
 <2>1. \A d \in There : docs[d] \in Present(index.field)
   BY ThereFinite
 <2> QED
   BY <1>1, <2>1, FindsAsked
<1> QED
  BY <1>2 DEF Found, Wanted

(* The hits of one page of a list are its members at the places of the page.   *)
LEMMA PageOfList ==
  ASSUME NEW s \in Seq(Doc), NEW o \in Nat, Limit \in Nat \ {0}, o <= Len(s), NEW hits, hits = Slice(s, Limit, o)
  PROVE  /\ hits \in Seq(Doc) /\ o + Len(hits) \in Nat /\ o + Len(hits) <= Len(s)
         /\ Len(hits) = Limit => o + Len(hits) = o + Limit
         /\ Len(hits) # Limit => o + Len(hits) = Len(s)
         /\ \A d : d \in Range(hits) <=> \E i \in 1..o + Len(hits) : i > o /\ s[i] = d
<1>1. /\ hits \in Seq(Doc)
      /\ Len(hits) = IF o + Limit < Len(s) THEN Limit ELSE IF o < Len(s) THEN Len(s) - o ELSE 0
      /\ \A i \in 1..Len(hits) : hits[i] = s[o + i]
  BY SliceIs
<1>2. Len(hits) \in Nat /\ Len(s) \in Nat /\ DOMAIN hits = 1..Len(hits)
  BY <1>1, LenProperties
<1>3. /\ o + Len(hits) \in Nat /\ o + Len(hits) <= Len(s)
      /\ Len(hits) = Limit => o + Len(hits) = o + Limit
      /\ Len(hits) # Limit => o + Len(hits) = Len(s)
  BY <1>1, <1>2
<1>4. ASSUME NEW d, d \in Range(hits) PROVE \E i \in 1..o + Len(hits) : i > o /\ s[i] = d
 <2>1. PICK i \in 1..Len(hits) : hits[i] = d
   BY <1>2, <1>4 DEF Range
 <2>2. s[o + i] = d
   BY <1>1, <2>1
 <2>3. o + i \in 1..o + Len(hits) /\ o + i > o
   BY <1>2
 <2> QED
   BY <2>2, <2>3
<1>5. ASSUME NEW d, NEW i \in 1..o + Len(hits), i > o, s[i] = d PROVE d \in Range(hits)
 <2> DEFINE j == i - o
 <2>1. j \in 1..Len(hits) /\ o + j = i
   BY <1>2, <1>5
 <2> HIDE DEF j
 <2>2. hits[j] = d
   BY <1>1, <1>5, <2>1
 <2> QED
   BY <1>2, <2>1, <2>2 DEF Range
<1> QED
  BY <1>1, <1>3, <1>4, <1>5

LEMMA PageHolds ==
  ASSUME NEW s \in Seq(Doc), NEW o \in Nat, Limit \in Nat \ {0}, o <= Len(s), NEW hits, hits = Slice(s, Limit, o), NEW d
  PROVE  d \in Range(hits) <=> \E i \in 1..o + Len(hits) : i > o /\ s[i] = d
  BY PageOfList

LEMMA CollectPageStep ==
  ASSUME QueriesInv, CollectPage
  PROVE  QueriesInv' /\ RemovesRight
<1> DEFINE f == call.filter
           found == Found(f)
           n == Cardinality(found)
           o == call.offset
<1>1. PICK ranking \in Rankings(found, "none", FALSE) :
       LET hits == Page(ranking, Limit, call.offset)
           more == Len(hits) = Limit
           ids == call.ids \cup Range(hits)
       IN call' = [call EXCEPT !.ids = ids,
                     !.offset = IF more THEN @ + Limit ELSE @,
                     !.step = IF more THEN "page" ELSE IF ids = {} THEN "done" ELSE "remove",
                     !.why = @ \cup (IF call.offset > 0 /\ index.engine = "postgres" THEN {"unordered"} ELSE {})
                               \cup (IF call.offset > 0 /\ call.changed THEN {"shifted"} ELSE {})]
  BY DEF CollectPage
<1> DEFINE hits == Page(ranking, Limit, o)
           more == Len(hits) = Limit
           ids == call.ids \cup Range(hits)
           why == call.why \cup (IF o > 0 /\ index.engine = "postgres" THEN {"unordered"} ELSE {})
                           \cup (IF o > 0 /\ call.changed THEN {"shifted"} ELSE {})
           offset == IF more THEN o + Limit ELSE o
           step == IF more THEN "page" ELSE IF ids = {} THEN "done" ELSE "remove"
<1>2. /\ call.op = "delete" /\ call.step = "page" /\ ~Refuses(f, "none") /\ UNCHANGED <<index, docs>> /\ QueriesType
      /\ call \in CallType /\ Collected
  BY DEF CollectPage, QueriesInv
<1>3. QueriesType' /\ CallType' = CallType
  BY <1>2 DEF QueriesType, CallType
<1>4. /\ f \in FilterOf(index.field) /\ o \in Nat /\ call.ids \in SUBSET Doc /\ call.why \in SUBSET Cause /\ call.always \in SUBSET Doc
      /\ call.changed \in BOOLEAN /\ Limit \in Nat \ {0}
  BY <1>2, LimitAssumption DEF CallType
<1>5. /\ Strays(index.engine, index.field, f) \subseteq call.why
      /\ call.always \subseteq Wanted(f) /\ call.removed = {}
      /\ call.why \subseteq {"shifted"} => call.ids \subseteq Wanted(f)
      /\ \E k \in 0..o : o = k * Limit
      /\ o = 0 => call.ids = {}
      /\ (o > 0 /\ ~call.changed /\ index.engine # "postgres") => GivenSoFar
  BY <1>2 DEF Collected
<1>6. ranking \in Rankings(found, "none", FALSE)
  BY <1>1
<1>7. found \in SUBSET There /\ FALSE \in BOOLEAN /\ "none" \in {"none", "asc", "desc"}
  BY DEF Found
<1>8. /\ ranking \in SetToSeqs(found) /\ (index.engine # "postgres" => ranking = EngineOrder(found, "none", FALSE))
      /\ ranking \in Seq(Doc) /\ Len(ranking) = n /\ \A i \in 1..n : ranking[i] \in found
 <2> HIDE DEF found
 <2> QED
   BY <1>2, <1>6, <1>7, RankingsAre
<1>9. IsFiniteSet(found) /\ n \in Nat /\ found \subseteq Doc
 <2> HIDE DEF found
 <2> QED
   BY <1>2, <1>7, ThereFinite
<1>10. \A d \in found : \E i \in 1..n : ranking[i] = d
 <2> HIDE DEF found
 <2> QED
   BY <1>8, <1>9, ListOfSet
<1>11. hits = Slice(ranking, Limit, o)
 <2>1. PICK k \in 0..o : o = k * Limit
   BY <1>5
 <2>2. o \div Limit = k
   BY <1>4, <2>1, Multiple
 <2>3. (o \div Limit) * Limit = o
   BY <2>1, <2>2
 <2> QED
   BY <1>2, <1>4, <1>8, <2>3, PageIs
<1>12. call' = [call EXCEPT !.ids = ids, !.offset = offset, !.step = step, !.why = why]
  BY <1>1, <1>2 DEF CallType
<1> HIDE DEF hits
<1>13. Range(hits) \subseteq found
 <2>1. /\ hits \in Seq(Doc)
       /\ \A i \in 1..Len(hits) : o + i \in 1..n /\ hits[i] = ranking[o + i]
   BY <1>4, <1>8, <1>11, SliceIs
 <2>2. DOMAIN hits = 1..Len(hits)
   BY <2>1, LenProperties
 <2> QED
   BY <1>8, <2>1, <2>2 DEF Range
<1>14. ids \in SUBSET Doc /\ why \in SUBSET Cause /\ offset \in Nat
       /\ step \in {"idle", "page", "remove", "done", "failed", "search", "pin", "boost"}
 <2>1. ids \in SUBSET Doc
   BY <1>4, <1>9, <1>13
 <2>2. why \in SUBSET Cause
   BY <1>4 DEF Cause
 <2>3. offset \in Nat
   BY <1>4
 <2> QED
   BY <2>1, <2>2, <2>3
<1> HIDE DEF n, found, o, f
<1> HIDE DEF more, ids, why, offset, step
<1>15. /\ call' \in CallType /\ call'.op = "delete" /\ call'.step = step /\ call'.ids = ids /\ call'.offset = offset
       /\ call'.why = why /\ call'.filter = f /\ call'.always = call.always /\ call'.removed = {} /\ call'.changed = call.changed
 <2>1. call' \in CallType
   BY <1>2, <1>12, <1>14 DEF CallType
 <2>2. /\ call'.step = step /\ call'.ids = ids /\ call'.offset = offset /\ call'.why = why
       /\ call'.filter = call.filter /\ call'.always = call.always /\ call'.removed = call.removed /\ call'.changed = call.changed
       /\ call'.op = call.op
   BY <1>2, <1>12 DEF CallType
 <2> QED
   BY <1>2, <1>5, <2>1, <2>2 DEF f
<1>16. call.why \subseteq why
  BY DEF why
<1>17. ASSUME why \subseteq {"shifted", "stale"} PROVE found = Wanted(f)
 <2>1. Strays(index.engine, index.field, f) \subseteq {"shifted", "stale"}
   BY <1>5, <1>16, <1>17
 <2>2. Strays(index.engine, index.field, f) \subseteq Stray
   BY StraysType
 <2>3. Strays(index.engine, index.field, f) = {}
   BY <2>1, <2>2 DEF Stray
 <2>4. ~refused(index.engine, index.field, f)
   BY <1>2 DEF Refuses
 <2> QED
   BY <1>2, <1>4, <2>3, <2>4, FoundIsWanted DEF found
<1>18. ASSUME o = 0 \/ (~call.changed /\ index.engine # "postgres")
       PROVE  o <= n /\ \A d \in Doc : d \in call.ids <=> \E i \in 1..o : ranking[i] = d
 <2>1. CASE o = 0
  <3>1. call.ids = {} /\ o <= n
    BY <1>5, <1>9, <2>1
  <3>2. ~ \E i \in 1..o : TRUE
    BY <2>1
  <3> QED
    BY <3>1, <3>2
 <2>2. CASE o # 0
  <3>1. o > 0 /\ ~call.changed /\ index.engine # "postgres"
    BY <1>4, <1>18, <2>2
  <3>2. GivenSoFar /\ ranking = EngineOrder(found, "none", FALSE)
    BY <1>5, <1>8, <3>1
  <3> QED
    BY <3>2 DEF GivenSoFar, found, n, o, f
 <2> QED
   BY <2>1, <2>2
<1>19. ASSUME o = 0 \/ (~call.changed /\ index.engine # "postgres")
       PROVE  /\ o + Len(hits) \in Nat /\ o + Len(hits) <= n
              /\ more => offset = o + Len(hits)
              /\ ~more => o + Len(hits) = n
              /\ \A d \in Doc : d \in ids <=> \E i \in 1..o + Len(hits) : ranking[i] = d
 <2>1. o <= Len(ranking) /\ \A d \in Doc : d \in call.ids <=> \E i \in 1..o : ranking[i] = d
   BY <1>8, <1>18, <1>19
 <2>2. /\ o + Len(hits) \in Nat /\ o + Len(hits) <= n
       /\ Len(hits) = Limit => o + Len(hits) = o + Limit
       /\ Len(hits) # Limit => o + Len(hits) = n
       /\ \A d : d \in Range(hits) <=> \E i \in 1..o + Len(hits) : i > o /\ ranking[i] = d
  <3>1. o \in Nat /\ Limit \in Nat \ {0} /\ ranking \in Seq(Doc) /\ Len(ranking) = n
    BY <1>4, <1>8
  <3>2. o <= Len(ranking) /\ hits = Slice(ranking, Limit, o)
    BY <1>11, <2>1
  <3>3. /\ o + Len(hits) \in Nat /\ o + Len(hits) <= Len(ranking)
        /\ Len(hits) = Limit => o + Len(hits) = o + Limit
        /\ Len(hits) # Limit => o + Len(hits) = Len(ranking)
    BY <3>1, <3>2, PageOfList
  <3>4. \A d : d \in Range(hits) <=> \E i \in 1..o + Len(hits) : i > o /\ ranking[i] = d
   <4> SUFFICES ASSUME NEW d PROVE d \in Range(hits) <=> \E i \in 1..o + Len(hits) : i > o /\ ranking[i] = d
     OBVIOUS
   <4> QED
     BY <3>1, <3>2, PageHolds
  <3> QED
    BY <3>1, <3>3, <3>4
 <2>3. Len(hits) \in Nat
  <3>1. hits \in Seq(Doc)
    BY <1>4, <1>8, <1>11, SliceIs
  <3> QED
    BY <3>1, LenProperties
 <2>4. ASSUME NEW d \in Doc PROVE d \in ids <=> \E i \in 1..o + Len(hits) : ranking[i] = d
  <3>1. d \in ids <=> d \in call.ids \/ d \in Range(hits)
    BY DEF ids
  <3>2. (\E i \in 1..o : ranking[i] = d) => \E i \in 1..o + Len(hits) : ranking[i] = d
   <4>1. \A i \in 1..o : i \in 1..o + Len(hits)
     BY <1>4, <2>3
   <4> QED
     BY <4>1
  <3>3. \A i \in 1..o + Len(hits) : i > o \/ i \in 1..o
    BY <1>4, <2>2
  <3> QED
    BY <2>1, <2>2, <3>1, <3>2, <3>3
 <2> QED
   BY <2>2, <2>4 DEF more, offset
<1>20. ASSUME ~more, why \subseteq {"stale"} PROVE call.always \subseteq ids
 <2>1. o = 0 \/ (~call.changed /\ index.engine # "postgres")
  <3>1. "unordered" \notin why /\ "shifted" \notin why
    BY <1>20
  <3> QED
    BY <1>4, <3>1 DEF why
 <2>2. found \subseteq ids
   BY <1>9, <1>10, <1>19, <1>20, <2>1
 <2> QED
   BY <1>5, <1>17, <1>20, <2>2
<1>21. /\ Wanted(call.filter)' = Wanted(f) /\ Found(call.filter)' = found
       /\ EngineOrder(found, "none", FALSE)' = EngineOrder(found, "none", FALSE)
 <2>1. Found(f)' = found /\ Wanted(f)' = Wanted(f)
   BY <1>2, <1>15 DEF Found, Wanted, There, f, found
 <2>2. call'.filter = call.filter
   BY <1>15 DEF f
 <2>3. Found(call.filter)' = found /\ Wanted(call.filter)' = Wanted(f)
   BY <1>2, <2>2 DEF Found, Wanted, There, f, found
 <2> QED
   BY <1>2, <2>2, <2>3 DEF EngineOrder, Precedes, found, f, Found, There
<1>22. ASSUME more, ~call.changed, index.engine # "postgres" PROVE GivenSoFar'
 <2>1. o + Len(hits) <= n /\ offset = o + Len(hits) /\ \A d \in Doc : d \in ids <=> \E i \in 1..o + Len(hits) : ranking[i] = d
   BY <1>19, <1>22
 <2>2. ranking = EngineOrder(found, "none", FALSE)
   BY <1>8, <1>22
 <2>3. EngineOrder(Found(call.filter), "none", FALSE)' = ranking
  <3>1. call'.filter = call.filter
    BY <1>15 DEF f
  <3> QED
    BY <1>2, <2>2, <3>1 DEF EngineOrder, Precedes, found, f, Found, There
 <2>4. Cardinality(Found(call.filter))' = n
   BY <1>21 DEF n
 <2> QED
   BY <1>15, <2>1, <2>3, <2>4 DEF GivenSoFar
<1>23. ASSUME more PROVE (\E k \in 0..offset : offset = k * Limit) /\ offset > 0
 <2>1. PICK k \in 0..o : o = k * Limit
   BY <1>5
 <2>2. offset = o + Limit
   BY <1>23 DEF offset
 <2>3. (k + 1) * Limit = k * Limit + Limit
   BY <1>4
 <2>4. k + 1 \in 0..offset /\ offset = (k + 1) * Limit /\ offset > 0
   BY <1>4, <2>1, <2>2, <2>3
 <2> QED
   BY <2>4
<1>24. Collected'
 <2>1. (Strays(index.engine, index.field, call.filter) \subseteq call.why)'
   BY <1>2, <1>5, <1>15, <1>16 DEF f
 <2>2. (call.always \subseteq Wanted(call.filter) /\ call.removed = {} /\ "kept" \notin call.why)'
  <3>1. "kept" \notin why
    BY <1>2 DEF Collected, why
  <3> QED
    BY <1>5, <1>15, <1>21, <3>1
 <2>3. why \subseteq {"shifted"} => ids \subseteq Wanted(f)
   BY <1>5, <1>13, <1>16, <1>17 DEF ids
 <2>4. step = "remove" /\ why \subseteq {"stale"} => call.always \subseteq ids
   BY <1>20 DEF step
 <2>5. step = "page" => more
   BY DEF step
 <2>6. more => (\E k \in 0..call.offset : call.offset = k * Limit)' /\ ~(call'.offset = 0)
   BY <1>15, <1>23
 <2>7. more /\ ~call'.changed /\ index'.engine # "postgres" => GivenSoFar'
   BY <1>2, <1>15, <1>22
 <2>8. (call.why \subseteq {"shifted"} => call.ids \subseteq Wanted(call.filter))'
   BY <1>15, <1>21, <2>3
 <2>9. (call.step = "remove" /\ call.why \subseteq {"stale"} => call.always \subseteq call.ids)'
   BY <1>15, <2>4
 <2>10. call'.step = "page" => more
   BY <1>15, <2>5
 <2> QED
   BY <2>1, <2>2, <2>6, <2>7, <2>8, <2>9, <2>10 DEF Collected
<1>25. RemovesRight
 <2> SUFFICES ASSUME call'.step = "done"
              PROVE  /\ call'.why \ {"stale"} = {} => call.always \subseteq call'.removed
                     /\ call'.why \ {"shifted", "kept"} = {} => call'.removed \subseteq Wanted(call.filter)
   BY DEF RemovesRight
 <2>1. ~more /\ ids = {}
   BY <1>15 DEF step
 <2>2. why \subseteq {"stale"} => call.always = {}
   BY <1>20, <2>1
 <2>3. call'.why \ {"stale"} = {} => why \subseteq {"stale"}
   BY <1>15
 <2> QED
   BY <1>15, <2>2, <2>3
<1> QED
 <2>1. ReadSoFar' /\ SideBySide'
   BY <1>15 DEF ReadSoFar, SideBySide
 <2> QED
   BY <1>3, <1>15, <1>24, <1>25, <2>1 DEF QueriesInv

LEMMA FailedStep ==
  ASSUME QueriesInv, UNCHANGED <<index, docs>>, call' = [call EXCEPT !.step = "failed"]
  PROVE  QueriesInv' /\ RemovesRight
<1>1. call \in CallType /\ QueriesType
  BY DEF QueriesInv
<1>2. QueriesType' /\ CallType' = CallType
  BY <1>1 DEF QueriesType, CallType
<1>3. call' \in CallType /\ call'.step = "failed"
  BY <1>1 DEF CallType
<1> QED
  BY <1>2, <1>3 DEF QueriesInv, Collected, ReadSoFar, SideBySide, RemovesRight

LEMMA DocsRemoved ==
  ASSUME QueriesInv, NEW S \in SUBSET Doc, docs' = [d \in Doc |-> IF d \in S THEN Gone ELSE docs[d]], UNCHANGED index
  PROVE  QueriesType'
  BY DEF QueriesInv, QueriesType

LEMMA DeleteIdsStep ==
  ASSUME QueriesInv, DeleteIds
  PROVE  QueriesInv' /\ RemovesRight
<1>1. call \in CallType /\ call.op = "delete" /\ call.step = "remove" /\ UNCHANGED index
  BY DEF QueriesInv, DeleteIds
<1>2. call.ids \in SUBSET Doc
  BY <1>1 DEF CallType
<1>3. PICK kept \in SUBSET call.ids :
        /\ docs' = [d \in Doc |-> IF d \in call.ids \ kept THEN Gone ELSE docs[d]]
        /\ call' = [call EXCEPT !.step = IF kept # {} /\ index.engine = "vespa" THEN "failed" ELSE "done",
                                !.removed = (call.ids \ kept) \cap There,
                                !.why = @ \cup (IF kept # {} THEN {"kept"} ELSE {})]
  BY Zenon DEF DeleteIds
<1> DEFINE removed == (call.ids \ kept) \cap There
           step == IF kept # {} /\ index.engine = "vespa" THEN "failed" ELSE "done"
           why == IF kept # {} THEN {"kept"} ELSE {}
<1>4. QueriesType'
  BY <1>1, <1>2, <1>3, DocsRemoved
<1>5. CallType' = CallType
  BY <1>1 DEF CallType
<1>6. removed \in SUBSET Doc /\ why \in SUBSET Cause /\ step \in {"failed", "done"} /\ (kept # {} => "kept" \in why)
  BY <1>2 DEF Cause
<1>7. /\ call.always \subseteq Wanted(call.filter)
      /\ call.why \subseteq {"shifted"} => call.ids \subseteq Wanted(call.filter)
      /\ call.why \subseteq {"stale"} => call.always \subseteq call.ids
      /\ "kept" \notin call.why
  BY <1>1 DEF QueriesInv, Collected
<1>8. /\ call.why \subseteq {"stale"} /\ kept = {} => call.always \subseteq removed
      /\ call.why \subseteq {"shifted"} => removed \subseteq Wanted(call.filter)
  BY <1>7 DEF Wanted
<1>9. call' = [call EXCEPT !.step = step, !.removed = removed, !.why = @ \cup why]
  BY <1>3
<1> HIDE DEF removed, step, why
<1>10. /\ call' \in CallType /\ call'.step = step /\ call'.op = "delete" /\ call'.removed = removed
       /\ call'.why = call.why \cup why /\ "kept" \notin call.why
 <2>1. call' \in CallType /\ call'.step = step /\ call'.op = "delete" /\ call'.removed = removed
       /\ call'.why = call.why \cup why
   BY <1>1, <1>6, <1>9 DEF CallType
 <2> QED
   BY <1>7, <2>1
<1>11. RemovesRight
 <2>1. call'.why \ {"stale"} = {} => call.why \subseteq {"stale"} /\ kept = {}
   BY <1>6, <1>10
 <2>2. call'.why \ {"shifted", "kept"} = {} => call.why \subseteq {"shifted"}
   BY <1>10
 <2> QED
   BY <1>8, <1>10, <2>1, <2>2 DEF RemovesRight
<1> QED
  BY <1>4, <1>5, <1>6, <1>10, <1>11 DEF QueriesInv, Collected, ReadSoFar, SideBySide

LEMMA DeleteNativeStep ==
  ASSUME QueriesInv, DeleteNative
  PROVE  QueriesInv' /\ RemovesRight
<1>1. call \in CallType /\ call.op = "delete" /\ call.step = "page" /\ UNCHANGED index /\ QueriesType
  BY DEF QueriesInv, DeleteNative
<1>2. call.filter \in FilterOf(index.field)
  BY <1>1 DEF CallType
<1> DEFINE removed == Found(call.filter)
<1>3. removed \in SUBSET Doc
  BY DEF Found, There
<1>4. docs' = [d \in Doc |-> IF d \in removed THEN Gone ELSE docs[d]] /\ call' = [call EXCEPT !.step = "done", !.removed = removed]
  BY DEF DeleteNative
<1>5. QueriesType'
 <2> HIDE DEF removed
 <2> QED
   BY <1>1, <1>3, <1>4, DocsRemoved
<1>6. CallType' = CallType
  BY <1>1 DEF CallType
<1>7. /\ call.always \subseteq Wanted(call.filter) /\ "kept" \notin call.why
      /\ Strays(index.engine, index.field, call.filter) \subseteq call.why
  BY <1>1 DEF QueriesInv, Collected
<1>8. ASSUME NEW w \in {"stale", "shifted"}, call.why \subseteq {w} PROVE removed = Wanted(call.filter)
 <2>1. Strays(index.engine, index.field, call.filter) \subseteq Stray
   BY StraysType
 <2>2. Strays(index.engine, index.field, call.filter) = {}
   BY <1>7, <1>8, <2>1 DEF Stray
 <2>3. ~refused(index.engine, index.field, call.filter)
   BY DEF DeleteNative, Refuses
 <2> QED
   BY <1>1, <1>2, <2>2, <2>3, FoundIsWanted
<1> HIDE DEF removed
<1>9. call' \in CallType /\ call'.step = "done" /\ call'.op = "delete" /\ call'.removed = removed /\ call'.why = call.why
  BY <1>1, <1>3, <1>4 DEF CallType
<1>10. RemovesRight
 <2>1. /\ call'.why \ {"stale"} = {} => call.why \subseteq {"stale"}
       /\ call'.why \ {"shifted", "kept"} = {} => call.why \subseteq {"shifted"}
   BY <1>7, <1>9
 <2>2. (call.why \subseteq {"stale"} => removed = Wanted(call.filter)) /\ (call.why \subseteq {"shifted"} => removed = Wanted(call.filter))
   BY <1>8
 <2> QED
   BY <1>7, <1>9, <2>1, <2>2 DEF RemovesRight
<1> QED
  BY <1>5, <1>6, <1>9, <1>10 DEF QueriesInv, Collected, ReadSoFar, SideBySide

LEMMA WriteStep ==
  ASSUME QueriesInv, NEW d \in Doc, NEW v \in Values(index.field) \cup {Null, Gone}, Write(d, v)
  PROVE  QueriesInv' /\ RemovesRight
<1>1. call \in CallType /\ QueriesType /\ call.op = "delete" /\ call.step \in {"page", "remove"} /\ UNCHANGED index
      /\ docs' = [docs EXCEPT ![d] = v] /\ Collected
  BY DEF QueriesInv, Write
<1>2. QueriesType' /\ CallType' = CallType
  BY <1>1 DEF QueriesType, CallType, Present
<1> DEFINE f == call.filter
           lost == IF v # Gone /\ Asked(f, v) THEN {} ELSE {d}
           always == call.always \ lost
           why == call.why \cup (IF d \in call.ids THEN {"stale"} ELSE {})
<1>3. call' = [call EXCEPT !.always = always, !.changed = TRUE, !.why = why]
  BY <1>1 DEF Write, CallType
<1>4. always \in SUBSET Doc /\ why \in SUBSET Cause
  BY <1>1 DEF CallType, Cause
<1>5. /\ Strays(index.engine, index.field, f) \subseteq call.why
      /\ call.always \subseteq Wanted(f) /\ call.removed = {}
      /\ call.why \subseteq {"shifted"} => call.ids \subseteq Wanted(f)
      /\ call.step = "remove" /\ call.why \subseteq {"stale"} => call.always \subseteq call.ids
      /\ call.step = "page" =>
         /\ \E k \in 0..call.offset : call.offset = k * Limit
         /\ call.offset = 0 => call.ids = {}
  BY <1>1 DEF Collected
<1>6. call.why \subseteq why /\ always \subseteq call.always /\ (why \subseteq {"shifted"} => d \notin call.ids)
  BY Zenon
<1>7. \A e \in Doc : docs'[e] = IF e = d THEN v ELSE docs[e]
  BY <1>1 DEF QueriesType
<1>8. ASSUME NEW e \in Wanted(f), e # d \/ (v # Gone /\ Asked(f, v)) PROVE e \in There' /\ Asked(f, docs'[e])
 <2>1. e \in Doc /\ docs[e] # Gone /\ Asked(f, docs[e])
   BY DEF Wanted, There
 <2>2. docs'[e] # Gone /\ Asked(f, docs'[e])
  <3>1. CASE e = d
   <4>1. docs'[e] = v
     BY <1>7, <3>1
   <4> QED
     BY <1>8, <3>1, <4>1
  <3>2. CASE e # d
   <4>1. docs'[e] = docs[e]
     BY <1>7, <2>1, <3>2
   <4> QED
     BY <2>1, <4>1
  <3> QED
    BY <3>1, <3>2
 <2> QED
   BY <2>1, <2>2 DEF There
<1>9. \A e \in always : e \in There' /\ Asked(f, docs'[e])
 <2> SUFFICES ASSUME NEW e \in always PROVE e \in There' /\ Asked(f, docs'[e])
   OBVIOUS
 <2>1. e \in Wanted(f)
   BY <1>5
 <2>2. e # d \/ (v # Gone /\ Asked(f, v))
   OBVIOUS
 <2> QED
   BY <1>8, <2>1, <2>2
<1>10. why \subseteq {"shifted"} => \A e \in call.ids : e \in There' /\ Asked(f, docs'[e])
 <2> SUFFICES ASSUME why \subseteq {"shifted"}, NEW e \in call.ids PROVE e \in There' /\ Asked(f, docs'[e])
   OBVIOUS
 <2>1. e # d /\ e \in Wanted(f)
   BY <1>5, <1>6
 <2> QED
   BY <1>8, <2>1
<1> HIDE DEF always, why, lost
<1>11. /\ call' \in CallType /\ call'.op = "delete" /\ call'.step = call.step /\ call'.always = always /\ call'.why = why
       /\ call'.changed = TRUE /\ call'.filter = f /\ call'.removed = {} /\ call'.ids = call.ids /\ call'.offset = call.offset
 <2>1. call' \in CallType
   BY <1>1, <1>3, <1>4 DEF CallType
 <2>2. /\ call'.op = call.op /\ call'.step = call.step /\ call'.always = always /\ call'.why = why
       /\ call'.changed = TRUE /\ call'.filter = f /\ call'.removed = call.removed /\ call'.ids = call.ids /\ call'.offset = call.offset
   BY <1>1, <1>3 DEF CallType
 <2> QED
   BY <1>1, <1>5, <2>1, <2>2
<1>12. Wanted(call.filter)' = {e \in There' : Asked(f, docs'[e])}
  BY <1>11 DEF Wanted
<1> HIDE DEF f
<1>13. Collected'
 <2>1. (Strays(index.engine, index.field, call.filter) \subseteq call.why)'
   BY <1>1, <1>5, <1>6, <1>11
 <2>2. (call.always \subseteq Wanted(call.filter) /\ call.removed = {} /\ "kept" \notin call.why)'
  <3>1. "kept" \notin why
    BY <1>1 DEF Collected, why
  <3> QED
    BY <1>9, <1>11, <1>12, <3>1
 <2>3. (call.why \subseteq {"shifted"} => call.ids \subseteq Wanted(call.filter))'
   BY <1>10, <1>11, <1>12
 <2>4. (call.step = "remove" /\ call.why \subseteq {"stale"} => call.always \subseteq call.ids)'
   BY <1>5, <1>6, <1>11
 <2>5. (call.step = "page" =>
        /\ \E k \in 0..call.offset : call.offset = k * Limit
        /\ call.offset = 0 => call.ids = {})'
   BY <1>5, <1>11
 <2> QED
   BY <1>11, <2>1, <2>2, <2>3, <2>4, <2>5 DEF Collected
<1> QED
 <2>1. call'.step # "done" /\ call'.op = "delete"
   BY <1>1, <1>11
 <2> QED
   BY <1>2, <1>11, <1>13, <2>1 DEF QueriesInv, ReadSoFar, SideBySide, RemovesRight

LEMMA ReadStep ==
  ASSUME QueriesInv, NEW f \in AnyFilter({"dict", "list", "none"}), NEW sort \in {"none", "asc", "desc"},
         NEW mode \in {"offset", "page", "paginate"}, NEW start \in 0..1, Read(f, sort, mode, start)
  PROVE  QueriesInv' /\ RemovesRight
<1>1. f \in FilterOf(index.field)
  BY AnyFilterType
<1>2. UNCHANGED <<index, docs>> /\ QueriesType' /\ call.op = "none" /\ (start > 0 => mode = "offset")
  BY DEF Read, QueriesInv, QueriesType
<1>3. CallType' = CallType
  BY <1>2 DEF CallType
<1> DEFINE why == Strays(index.engine, index.field, f)
<1>4. why \in SUBSET Cause
  BY StraysType
<1>5. call' = [Idle EXCEPT !.op = "read", !.step = "page", !.filter = f, !.sort = sort,
                          !.mode = mode, !.start = start, !.offset = start, !.number = 1, !.why = why]
  BY DEF Read
<1>6. Strays(index.engine, index.field, f)' = why
  BY <1>2
<1> HIDE DEF why
<1>7. /\ call' \in CallType /\ call'.op = "read" /\ call'.step = "page" /\ call'.filter = f
      /\ call'.mode = mode /\ call'.start = start /\ call'.offset = start /\ call'.number = 1 /\ call'.why = why /\ call'.shown = <<>>
 <2>1. Idle \in CallType /\ Idle.shown = <<>>
   BY IdleType DEF Idle
 <2>2. start \in Nat /\ 1 \in Nat
   OBVIOUS
 <2>3. call' \in CallType
   BY <1>1, <1>4, <1>5, <2>1, <2>2 DEF CallType
 <2> QED
   BY <1>5, <2>3 DEF Idle
<1>8. Paged'
 <2>1. 1 - 1 = 0 /\ 0 <= start /\ start = start + 0 * Limit
   BY LimitAssumption
 <2> QED
   BY <1>7, <2>1 DEF Paged
<1>9. ReadSoFar'
 <2>1. ~(call'.number > 1)
   BY <1>7
 <2>2. Strays(index.engine, index.field, call.filter)' = why
   BY <1>2, <1>6, <1>7
 <2> QED
   BY <1>2, <1>7, <1>8, <2>1, <2>2 DEF ReadSoFar
<1> QED
  BY <1>2, <1>3, <1>7, <1>9 DEF QueriesInv, Collected, SideBySide, RemovesRight

LEMMA MerchandisedStep ==
  ASSUME QueriesInv, NEW f \in AnyFilter({"dict", "none"}), NEW sort \in {"none", "desc"},
         NEW text \in BOOLEAN, NEW marked \in BOOLEAN, NEW boost \in BOOLEAN, NEW pins \in PinLists,
         Merchandised(f, sort, text, marked, pins, boost)
  PROVE  QueriesInv' /\ RemovesRight
<1>1. f \in FilterOf(index.field) /\ pins \in Seq(Pin)
  BY AnyFilterType, PinListsAssumption
<1>2. UNCHANGED <<index, docs>> /\ QueriesType' /\ call.op = "none"
  BY DEF Merchandised, QueriesInv, QueriesType
<1>3. CallType' = CallType
  BY <1>2 DEF CallType
<1>4. call' = [Idle EXCEPT !.op = "search", !.step = "search", !.filter = f, !.sort = sort,
                          !.text = text, !.marked = marked, !.pins = pins, !.boost = boost]
  BY DEF Merchandised
<1>5. call' \in CallType
 <2>1. Idle \in CallType /\ sort \in {"none", "asc", "desc"}
   BY IdleType
 <2> QED
  <3>1. f \in FilterOf(index.field) /\ pins \in Seq(Pin) /\ Idle \in CallType
    BY <1>1, <2>1
  <3>2. [Idle EXCEPT !.op = "search", !.step = "search", !.filter = f, !.sort = sort,
                     !.text = text, !.marked = marked, !.pins = pins, !.boost = boost] \in CallType
    BY <2>1, <3>1 DEF CallType
  <3> QED
    BY <1>4, <3>2
<1>6. call'.op = "search" /\ call'.step = "search"
 <2>1. Idle \in CallType
   BY IdleType
 <2> QED
   BY <1>4, <2>1 DEF CallType
<1> QED
  BY <1>2, <1>3, <1>5, <1>6 DEF QueriesInv, Collected, ReadSoFar, SideBySide, RemovesRight

LEMMA QueriesStutter ==
  ASSUME QueriesInv, UNCHANGED queriesVars
  PROVE  QueriesInv'
<1>1. UNCHANGED <<index, docs, call>>
  BY DEF queriesVars
<1>2. QueriesType' /\ CallType' = CallType
  BY <1>1 DEF QueriesInv, QueriesType, CallType
<1>3. There' = There
  BY <1>1 DEF There
<1>4. Wanted(call.filter)' = Wanted(call.filter) /\ Found(call.filter)' = Found(call.filter)
  BY <1>1, <1>3 DEF Wanted, Found
<1>5. GivenSoFar => GivenSoFar'
 <2>1. EngineOrder(Found(call.filter), "none", FALSE)' = EngineOrder(Found(call.filter), "none", FALSE)
   BY <1>1, <1>4 DEF EngineOrder, Precedes
 <2> QED
   BY <1>1, <1>4, <2>1 DEF GivenSoFar
<1>6. Collected'
  BY <1>1, <1>4, <1>5 DEF QueriesInv, Collected
<1>7. ReadSoFar'
 <2>1. Rankings(Found(call.filter), call.sort, FALSE)' = Rankings(Found(call.filter), call.sort, FALSE)
  <3>1. EngineOrder(Found(call.filter), call.sort, FALSE)' = EngineOrder(Found(call.filter), call.sort, FALSE)
    BY <1>1, <1>4 DEF EngineOrder, Precedes
  <3> QED
    BY <1>1, <1>4, <3>1 DEF Rankings, Tied
 <2>2. ReadSome' = ReadSome /\ ReadAll' = ReadAll
   BY <1>1, <1>4, <2>1 DEF ReadSome, ReadAll
 <2>3. Paged' = Paged /\ ValuesLast' = ValuesLast
   BY <1>1, <1>4 DEF Paged, ValuesLast, AsSorted
 <2>4. Refuses(call.filter, call.sort)' = Refuses(call.filter, call.sort) /\ Goes_on' = Goes_on
   BY <1>1 DEF Refuses, Goes_on
 <2> QED
   BY <1>1, <1>4, <2>2, <2>3, <2>4 DEF QueriesInv, ReadSoFar
<1>8. SideBySide'
  BY <1>1 DEF QueriesInv, SideBySide
<1> QED
  BY <1>1, <1>2, <1>6, <1>7, <1>8 DEF QueriesInv

(* ------------------------- merchandised searches ------------------------- *)

(* What a backend answers to the first page.                                   *)
LEMMA EngineAnswers ==
  ASSUME QueriesType, NEW ranking, NEW matched, NEW text \in BOOLEAN, NEW marked \in BOOLEAN, NEW q,
         q = [ranking |-> ranking, matched |-> matched, limit |-> Limit, offset |-> 0, text |-> text, marked |-> marked]
  PROVE  /\ backend_search(q).hits = Slice(ranking, Limit, 0)
         /\ backend_search(q).formatted_hits \in {<<>>, Slice(ranking, Limit, 0)}
         /\ \/ backend_search(q).scores \in {<<>>, ScoresOf(Slice(ranking, Limit, 0))}
            \/ index.engine = "dummy" /\ text /\ backend_search(q).scores = Slice(ScoresOf(matched), Limit, 0)
<1> DEFINE hits == Slice(ranking, Limit, 0)
           scores == ScoresOf(hits)
           before == Slice(ScoresOf(matched), Limit, 0)
<1>1. index.engine \in {"dummy", "meilisearch", "opensearch", "typesense", "postgres", "solr", "vespa"}
  BY BackendAssumption DEF QueriesType
<1>2. q.ranking = ranking /\ q.matched = matched /\ q.limit = Limit /\ q.offset = 0 /\ q.text = text /\ q.marked = marked
  OBVIOUS
<1>3. Hits(q) = hits /\ ScoresOf(Hits(q)) = scores /\ Slice(ScoresOf(q.matched), q.limit, q.offset) = before
  BY <1>2 DEF Hits
<1>4. Slice(q.ranking, q.limit, (q.offset \div q.limit) * q.limit) = hits
 <2>1. (0 \div Limit) * Limit = 0
   BY LimitAssumption
 <2> QED
   BY <1>2, <2>1
<1> HIDE DEF hits, scores, before
<1>5. CASE index.engine = "dummy"
 <2>1. backend_search(q) = Answer(hits, IF text THEN before ELSE <<>>, IF marked /\ text THEN hits ELSE <<>>)
   BY <1>2, <1>3, <1>5 DEF backend_search, dummy_search
 <2> QED
   BY <1>5, <2>1 DEF Answer, hits, scores, before
<1>6. CASE index.engine = "postgres"
 <2>1. backend_search(q) = Answer(hits, IF text THEN scores ELSE <<>>, IF marked /\ text THEN hits ELSE <<>>)
   BY <1>2, <1>3, <1>6 DEF backend_search, postgres_search
 <2> QED
   BY <2>1 DEF Answer, hits, scores
<1>7. CASE index.engine = "meilisearch"
 <2>1. backend_search(q) = Answer(hits, IF marked THEN scores ELSE <<>>, IF marked THEN hits ELSE <<>>)
   BY <1>2, <1>3, <1>7 DEF backend_search, meilisearch_search
 <2> QED
   BY <2>1 DEF Answer, hits, scores
<1>8. CASE index.engine = "opensearch"
 <2>1. backend_search(q) = Answer(hits, <<>>, IF marked THEN hits ELSE <<>>)
   BY <1>2, <1>3, <1>8 DEF backend_search, opensearch_search
 <2> QED
   BY <2>1 DEF Answer, hits
<1>9. CASE index.engine = "typesense"
 <2>1. backend_search(q) = Answer(hits, <<>>, IF marked THEN hits ELSE <<>>)
   BY <1>2, <1>4, <1>9 DEF backend_search, typesense_search
 <2> QED
   BY <2>1 DEF Answer, hits
<1>10. CASE index.engine = "solr"
 <2>1. backend_search(q) = Answer(hits, <<>>, <<>>)
   BY <1>3, <1>10 DEF backend_search, solr_search
 <2> QED
   BY <2>1 DEF Answer, hits
<1>11. CASE index.engine = "vespa"
 <2>1. backend_search(q) = Answer(hits, scores, <<>>)
   BY <1>3, <1>11 DEF backend_search, vespa_search
 <2> QED
   BY <2>1 DEF Answer, hits, scores
<1> QED
  BY <1>1, <1>5, <1>6, <1>7, <1>8, <1>9, <1>10, <1>11

LEMMA ScoresAre ==
  ASSUME NEW s \in Seq(Doc)
  PROVE  /\ ScoresOf(s) \in Seq(ScoreType) /\ Len(ScoresOf(s)) = Len(s)
         /\ \A i \in 1..Len(s) : ScoresOf(s)[i].of = s[i]
<1>1. Len(s) \in Nat /\ DOMAIN s = 1..Len(s) /\ \A i \in 1..Len(s) : s[i] \in Doc
  BY LenProperties
<1>2. \A i \in 1..Len(s) : Score(s[i], s[i]) \in ScoreType /\ Score(s[i], s[i]).of = s[i]
  BY <1>1, DocAssumption DEF Score, ScoreType
<1> DEFINE n == Len(s)
           t == [i \in 1..n |-> Score(s[i], s[i])]
<1>3. ScoresOf(s) = t
  BY <1>1 DEF ScoresOf
<1>4. \A i \in 1..n : t[i] = Score(s[i], s[i])
  OBVIOUS
<1> HIDE DEF n
<1>5. n \in Nat
  BY <1>1 DEF n
<1>6. \A i \in 1..n : Score(s[i], s[i]) \in ScoreType
  BY <1>2 DEF n
<1>7. t \in Seq(ScoreType) /\ Len(t) = n
  BY <1>5, <1>6
<1> HIDE DEF t
<1> QED
  BY <1>2, <1>3, <1>4, <1>7 DEF n

LEMMA EngineSearchStep ==
  ASSUME QueriesInv, EngineSearch
  PROVE  QueriesInv' /\ RemovesRight
<1> DEFINE found == Found(call.filter)
           matched == EngineOrder(There, "none", call.text)
<1>1. /\ call \in CallType /\ QueriesType /\ call.op = "search" /\ call.step = "search" /\ UNCHANGED <<index, docs>>
      /\ call.sort \in {"none", "asc", "desc"} /\ call.text \in BOOLEAN /\ call.marked \in BOOLEAN
  BY DEF QueriesInv, EngineSearch, CallType
<1>2. QueriesType' /\ CallType' = CallType
  BY <1>1 DEF QueriesType, CallType
<1>3. PICK ranking \in Rankings(found, call.sort, call.text) :
       call' = from_engine(backend_search([ranking |-> ranking, matched |-> matched, limit |-> Limit, offset |-> 0,
                                           text |-> call.text, marked |-> call.marked]))
  BY DEF EngineSearch
<1> DEFINE q == [ranking |-> ranking, matched |-> matched, limit |-> Limit, offset |-> 0, text |-> call.text, marked |-> call.marked]
           r == backend_search(q)
           hits == Slice(ranking, Limit, 0)
           scores == r.scores
           formatted == r.formatted_hits
           why == IF /\ index.engine = "dummy" /\ call.text
                     /\ call.sort # "none" \/ found # There
                  THEN {"scored before"} ELSE {}
<1>4. ranking \in Rankings(found, call.sort, call.text)
  BY <1>3
<1>5. /\ r.hits = hits /\ formatted \in {<<>>, hits}
      /\ \/ scores \in {<<>>, ScoresOf(hits)}
         \/ index.engine = "dummy" /\ call.text /\ scores = Slice(ScoresOf(matched), Limit, 0)
 <2> HIDE DEF matched
 <2>1. q = [ranking |-> ranking, matched |-> matched, limit |-> Limit, offset |-> 0, text |-> call.text, marked |-> call.marked]
   OBVIOUS
 <2> HIDE DEF q
 <2> QED
   BY <1>1, <2>1, EngineAnswers
<1>6. call' = [call EXCEPT !.shown = hits, !.scores = scores, !.formatted = formatted, !.step = "pin", !.why = why]
 <2>1. call' = from_engine(r)
   BY <1>3
 <2> HIDE DEF r, hits, why
 <2> QED
   BY <1>5, <2>1 DEF from_engine, why
<1> HIDE DEF r
<1>7. found \in SUBSET There /\ There \in SUBSET There /\ "none" \in {"none", "asc", "desc"}
  BY DEF Found
<1>8. /\ ranking \in SetToSeqs(found) /\ ranking \in Seq(Doc) /\ Len(ranking) = Cardinality(found)
      /\ index.engine # "postgres" => ranking = EngineOrder(found, call.sort, call.text)
 <2> HIDE DEF found
 <2> QED
   BY <1>1, <1>4, <1>7, RankingsAre
<1>9. IsFiniteSet(found) /\ Cardinality(found) \in Nat /\ IsFiniteSet(There) /\ Cardinality(There) \in Nat /\ There \subseteq Doc
      /\ Cardinality(found) <= Cardinality(There)
 <2>1. IsFiniteSet(There) /\ There \subseteq Doc /\ IsFiniteSet(found) /\ Cardinality(found) \in Nat /\ Cardinality(There) \in Nat
  <3> HIDE DEF found
  <3> QED
    BY <1>1, <1>7, ThereFinite
 <2>2. Cardinality(found) <= Cardinality(There)
  <3> HIDE DEF found
  <3> QED
    BY <1>7, <2>1, FS_Subset
 <2> QED
   BY <2>1, <2>2
<1>10. \A i, j \in 1..Cardinality(found) : ranking[i] = ranking[j] => i = j
 <2> HIDE DEF found
 <2> QED
   BY <1>8, <1>9, ListOfSet
<1>11. /\ matched \in Seq(Doc) /\ Len(matched) = Cardinality(There)
 <2>1. matched \in SetToSeqs(There)
   BY <1>1, <1>7, EngineOrderIs
 <2> HIDE DEF matched
 <2>2. matched \in Seq(There) /\ Len(matched) = Cardinality(There)
   BY <1>9, <2>1, ListOfSet
 <2> QED
   BY <1>9, <2>2, SeqMonotonic
<1>12. /\ hits \in Seq(Doc) /\ Len(hits) \in Nat
       /\ Len(hits) = IF Limit < Cardinality(found) THEN Limit ELSE Cardinality(found)
       /\ \A i \in 1..Len(hits) : i \in 1..Cardinality(found) /\ hits[i] = ranking[i]
 <2>1. 0 \in Nat /\ Limit \in Nat \ {0} /\ 0 + Limit = Limit
   BY LimitAssumption
 <2>2. /\ hits \in Seq(Doc)
       /\ Len(hits) = IF 0 + Limit < Len(ranking) THEN Limit ELSE IF 0 < Len(ranking) THEN Len(ranking) - 0 ELSE 0
   BY <1>8, <2>1, SliceIs
 <2>3. \A i \in 1..Len(hits) : 0 + i \in 1..Len(ranking) /\ hits[i] = ranking[0 + i]
   BY <1>8, <2>1, SliceIs
 <2>4. Len(hits) \in Nat
   BY <2>2, LenProperties
 <2> HIDE DEF hits, found
 <2>5. Len(hits) = IF Limit < Cardinality(found) THEN Limit ELSE Cardinality(found)
   BY <1>8, <1>9, <2>1, <2>2
 <2>6. \A i \in 1..Len(hits) : i \in 1..Cardinality(found) /\ hits[i] = ranking[i]
  <3>1. \A i \in 1..Len(hits) : 0 + i = i
    OBVIOUS
  <3> QED
    BY <1>8, <2>3, <3>1
 <2> QED
   BY <2>2, <2>4, <2>5, <2>6
<1> HIDE DEF hits
<1>13. Once(hits)
  BY <1>10, <1>12 DEF Once
<1>14. /\ scores \in Seq(ScoreType)
       /\ scores = <<>> \/ Len(scores) >= Len(hits)
       /\ "scored before" \notin why => scores = <<>> \/ Aligned(scores, hits)
 <2>1. CASE scores = <<>>
   BY <2>1, EmptySeq
 <2>2. CASE scores = ScoresOf(hits)
  <3>1. /\ ScoresOf(hits) \in Seq(ScoreType) /\ Len(ScoresOf(hits)) = Len(hits)
        /\ \A i \in 1..Len(hits) : ScoresOf(hits)[i].of = hits[i]
    BY <1>12, ScoresAre
  <3> HIDE DEF scores
  <3> QED
    BY <1>12, <2>2, <3>1 DEF Aligned
 <2>3. CASE index.engine = "dummy" /\ call.text /\ scores = Slice(ScoresOf(matched), Limit, 0)
  <3> DEFINE all == ScoresOf(matched)
             n == Cardinality(There)
  <3>1. /\ all \in Seq(ScoreType) /\ Len(all) = n /\ \A i \in 1..n : all[i].of = matched[i]
   <4> HIDE DEF matched
   <4> QED
     BY <1>11, ScoresAre
  <3>2. 0 \in Nat /\ Limit \in Nat \ {0} /\ 0 + Limit = Limit
    BY LimitAssumption
  <3>9. scores = Slice(all, Limit, 0)
    BY <2>3
  <3> HIDE DEF all, scores
  <3>3. /\ scores \in Seq(ScoreType)
        /\ Len(scores) = IF 0 + Limit < Len(all) THEN Limit ELSE IF 0 < Len(all) THEN Len(all) - 0 ELSE 0
    BY <3>1, <3>2, <3>9, SliceIs
  <3>4. \A i \in 1..Len(scores) : 0 + i \in 1..Len(all) /\ scores[i] = all[0 + i]
    BY <3>1, <3>2, <3>9, SliceIs
  <3>5. Len(scores) \in Nat /\ Len(scores) = IF Limit < n THEN Limit ELSE n
    BY <1>9, <3>1, <3>2, <3>3
  <3>6. Len(scores) >= Len(hits)
   <4> HIDE DEF n, found
   <4>1. Cardinality(found) <= n /\ n \in Nat
     BY <1>9 DEF n
   <4> QED
     BY <1>9, <1>12, <3>2, <3>5, <4>1
  <3>7. ASSUME "scored before" \notin why PROVE Aligned(scores, hits)
   <4>1. call.sort = "none" /\ found = There
     BY <2>3, <3>7
   <4>2. ranking = matched /\ Cardinality(found) = n
     BY <1>8, <2>3, <4>1
   <4> HIDE DEF found, matched, n
   <4>3. Len(scores) = Len(hits)
     BY <1>12, <3>5, <4>2
   <4>4. ASSUME NEW i \in 1..Len(hits) PROVE scores[i].of = hits[i]
    <5>1. i \in 1..n /\ hits[i] = matched[i]
      BY <1>12, <4>2
    <5>2. 0 + i = i /\ i \in 1..Len(scores)
      BY <4>3
    <5>3. scores[i] = all[i]
      BY <3>4, <5>2
    <5> QED
      BY <3>1, <5>1, <5>3
   <4> QED
     BY <4>3, <4>4 DEF Aligned
  <3> QED
    BY <3>3, <3>6, <3>7
 <2> QED
   BY <1>5, <2>1, <2>2, <2>3
<1>15. formatted \in Seq(Doc) /\ why \in SUBSET Cause
 <2>1. formatted \in Seq(Doc)
   BY <1>5, <1>12, EmptySeq
 <2> QED
   BY <2>1 DEF Cause
<1> HIDE DEF scores, formatted, why
<1>16. /\ call' \in CallType /\ call'.op = "search" /\ call'.step = "pin" /\ call'.shown = hits /\ call'.scores = scores
       /\ call'.formatted = formatted /\ call'.why = why
 <2>1. call' \in CallType
   BY <1>1, <1>6, <1>12, <1>14, <1>15 DEF CallType
 <2> QED
   BY <1>1, <1>6, <2>1 DEF CallType
<1>17. SideBySide'
  BY <1>5, <1>13, <1>14, <1>16 DEF SideBySide
<1> QED
  BY <1>1, <1>2, <1>16, <1>17 DEF QueriesInv, Collected, ReadSoFar, RemovesRight

(* --------------------------------- pins ---------------------------------- *)

(* What RemoveAt leaves and what InsertAt makes of a list.                     *)
LEMMA RemoveAtIs ==
  ASSUME NEW T, NEW s \in Seq(T), NEW k \in 1..Len(s)
  PROVE  /\ RemoveAt(s, k) \in Seq(T) /\ Len(RemoveAt(s, k)) = Len(s) - 1
         /\ \A i \in 1..Len(s) - 1 : RemoveAt(s, k)[i] = IF i < k THEN s[i] ELSE s[i + 1]
<1> DEFINE a == SubSeq(s, 1, k - 1)
           b == SubSeq(s, k + 1, Len(s))
<1>1. Len(s) \in Nat /\ (\A i \in 1..Len(s) : s[i] \in T) /\ k \in Nat /\ k >= 1 /\ k <= Len(s)
  BY LenProperties
<1>2. a \in Seq(T) /\ Len(a) = k - 1 /\ \A i \in 1..k - 1 : a[i] = s[i]
 <2>1. 1 \in Int /\ k - 1 \in Int /\ \A i \in 1..k - 1 : s[i] \in T
   BY <1>1
 <2>2. (IF 1 <= k - 1 THEN (k - 1) - 1 + 1 ELSE 0) = k - 1 /\ (k - 1) - 1 + 1 = k - 1
   BY <1>1
 <2>3. \A i \in 1..k - 1 : 1 + i - 1 = i
   OBVIOUS
 <2>4. /\ a \in Seq(T) /\ Len(a) = IF 1 <= k - 1 THEN (k - 1) - 1 + 1 ELSE 0
       /\ \A i \in 1..(k - 1) - 1 + 1 : a[i] = s[1 + i - 1]
   BY <2>1, SubSeqProperties
 <2> QED
   BY <2>2, <2>3, <2>4
<1>3. b \in Seq(T) /\ Len(b) = Len(s) - k /\ \A i \in 1..Len(s) - k : b[i] = s[k + i]
 <2>1. k + 1 \in Int /\ Len(s) \in Int /\ \A i \in k + 1..Len(s) : s[i] \in T
   BY <1>1
 <2>2. (IF k + 1 <= Len(s) THEN Len(s) - (k + 1) + 1 ELSE 0) = Len(s) - k /\ Len(s) - (k + 1) + 1 = Len(s) - k
   BY <1>1
 <2>3. \A i \in 1..Len(s) - k : (k + 1) + i - 1 = k + i
   BY <1>1
 <2>4. /\ b \in Seq(T) /\ Len(b) = IF k + 1 <= Len(s) THEN Len(s) - (k + 1) + 1 ELSE 0
       /\ \A i \in 1..Len(s) - (k + 1) + 1 : b[i] = s[(k + 1) + i - 1]
   BY <2>1, SubSeqProperties
 <2> QED
   BY <2>2, <2>3, <2>4
<1>4. RemoveAt(s, k) = a \o b
  BY DEF RemoveAt
<1> HIDE DEF a, b
<1>5. /\ a \o b \in Seq(T) /\ Len(a \o b) = Len(a) + Len(b)
      /\ \A i \in 1..Len(a) + Len(b) : (a \o b)[i] = IF i <= Len(a) THEN a[i] ELSE b[i - Len(a)]
  BY <1>2, <1>3, ConcatProperties
<1>6. Len(a) + Len(b) = Len(s) - 1
  BY <1>1, <1>2, <1>3
<1>7. ASSUME NEW i \in 1..Len(s) - 1 PROVE (a \o b)[i] = IF i < k THEN s[i] ELSE s[i + 1]
 <2>1. (a \o b)[i] = IF i <= Len(a) THEN a[i] ELSE b[i - Len(a)]
   BY <1>5, <1>6
 <2>2. CASE i < k
  <3>1. i <= Len(a) /\ i \in 1..k - 1
    BY <1>1, <1>2, <2>2
  <3> QED
    BY <1>2, <2>1, <2>2, <3>1
 <2>3. CASE ~(i < k)
  <3>1. ~(i <= Len(a)) /\ i - Len(a) \in 1..Len(s) - k /\ k + (i - Len(a)) = i + 1
    BY <1>1, <1>2, <2>3
  <3> QED
    BY <1>3, <2>1, <2>3, <3>1
 <2> QED
   BY <2>2, <2>3
<1> QED
  BY <1>4, <1>5, <1>6, <1>7

LEMMA InsertAtIs ==
  ASSUME NEW T, NEW s \in Seq(T), NEW k \in 1..Len(s) + 1, NEW e \in T
  PROVE  /\ InsertAt(s, k, e) \in Seq(T) /\ Len(InsertAt(s, k, e)) = Len(s) + 1
         /\ \A i \in 1..Len(s) + 1 : InsertAt(s, k, e)[i] = IF i < k THEN s[i] ELSE IF i = k THEN e ELSE s[i - 1]
<1> DEFINE a == SubSeq(s, 1, k - 1)
           b == SubSeq(s, k, Len(s))
           c == <<e>>
<1>1. Len(s) \in Nat /\ (\A i \in 1..Len(s) : s[i] \in T) /\ k \in Nat /\ k >= 1 /\ k <= Len(s) + 1
  BY LenProperties
<1>2. a \in Seq(T) /\ Len(a) = k - 1 /\ \A i \in 1..k - 1 : a[i] = s[i]
 <2>1. 1 \in Int /\ k - 1 \in Int /\ \A i \in 1..k - 1 : s[i] \in T
   BY <1>1
 <2>2. (IF 1 <= k - 1 THEN (k - 1) - 1 + 1 ELSE 0) = k - 1 /\ (k - 1) - 1 + 1 = k - 1
   BY <1>1
 <2>3. \A i \in 1..k - 1 : 1 + i - 1 = i
   OBVIOUS
 <2>4. /\ a \in Seq(T) /\ Len(a) = IF 1 <= k - 1 THEN (k - 1) - 1 + 1 ELSE 0
       /\ \A i \in 1..(k - 1) - 1 + 1 : a[i] = s[1 + i - 1]
   BY <2>1, SubSeqProperties
 <2> QED
   BY <2>2, <2>3, <2>4
<1>3. b \in Seq(T) /\ Len(b) = Len(s) - k + 1 /\ \A i \in 1..Len(s) - k + 1 : b[i] = s[k + i - 1]
 <2>1. k \in Int /\ Len(s) \in Int /\ \A i \in k..Len(s) : s[i] \in T
   BY <1>1
 <2>2. (IF k <= Len(s) THEN Len(s) - k + 1 ELSE 0) = Len(s) - k + 1
   BY <1>1
 <2>4. /\ b \in Seq(T) /\ Len(b) = IF k <= Len(s) THEN Len(s) - k + 1 ELSE 0
       /\ \A i \in 1..Len(s) - k + 1 : b[i] = s[k + i - 1]
   BY <2>1, SubSeqProperties
 <2> QED
   BY <2>2, <2>4
<1>4. InsertAt(s, k, e) = (a \o c) \o b
  BY DEF InsertAt
<1>5. c \in Seq(T) /\ Len(c) = 1 /\ c[1] = e
  OBVIOUS
<1> HIDE DEF a, b, c
<1>6. /\ a \o c \in Seq(T) /\ Len(a \o c) = Len(a) + Len(c)
      /\ \A i \in 1..Len(a) + Len(c) : (a \o c)[i] = IF i <= Len(a) THEN a[i] ELSE c[i - Len(a)]
  BY <1>2, <1>5, ConcatProperties
<1> DEFINE d == a \o c
<1>7. /\ d \in Seq(T) /\ Len(d) = k /\ \A i \in 1..k : d[i] = IF i < k THEN s[i] ELSE e
 <2>1. Len(a) + Len(c) = k
   BY <1>1, <1>2, <1>5
 <2>2. ASSUME NEW i \in 1..k PROVE d[i] = IF i < k THEN s[i] ELSE e
  <3>1. d[i] = IF i <= Len(a) THEN a[i] ELSE c[i - Len(a)]
    BY <1>6, <2>1
  <3>2. CASE i < k
   <4>1. i <= Len(a) /\ i \in 1..k - 1
     BY <1>1, <1>2, <3>2
   <4> QED
     BY <1>2, <3>1, <3>2, <4>1
  <3>3. CASE ~(i < k)
   <4>1. ~(i <= Len(a)) /\ i - Len(a) = 1
     BY <1>1, <1>2, <3>3
   <4> QED
     BY <1>5, <3>1, <3>3, <4>1
  <3> QED
    BY <3>2, <3>3
 <2> QED
   BY <1>6, <2>1, <2>2
<1> HIDE DEF d
<1>8. /\ d \o b \in Seq(T) /\ Len(d \o b) = Len(d) + Len(b)
      /\ \A i \in 1..Len(d) + Len(b) : (d \o b)[i] = IF i <= Len(d) THEN d[i] ELSE b[i - Len(d)]
  BY <1>3, <1>7, ConcatProperties
<1>9. Len(d) + Len(b) = Len(s) + 1
  BY <1>1, <1>3, <1>7
<1>10. ASSUME NEW i \in 1..Len(s) + 1 PROVE (d \o b)[i] = IF i < k THEN s[i] ELSE IF i = k THEN e ELSE s[i - 1]
 <2>1. (d \o b)[i] = IF i <= k THEN d[i] ELSE b[i - k]
   BY <1>7, <1>8, <1>9
 <2>2. CASE i <= k
  <3>1. i \in 1..k /\ (~(i < k) => i = k) /\ (i < k => i # k)
    BY <1>1, <2>2
  <3> QED
    BY <1>7, <2>1, <2>2, <3>1
 <2>3. CASE ~(i <= k)
  <3>1. i - k \in 1..Len(s) - k + 1 /\ k + (i - k) - 1 = i - 1 /\ ~(i < k) /\ i # k
    BY <1>1, <2>3
  <3> QED
    BY <1>3, <2>1, <2>3, <3>1
 <2> QED
   BY <2>2, <2>3
<1>11. InsertAt(s, k, e) = d \o b
  BY <1>4 DEF d
<1> QED
  BY <1>8, <1>9, <1>10, <1>11

(* A finite set of numbers has a least member.                                 *)
LEMMA LeastOf ==
  ASSUME NEW I \in SUBSET Nat, IsFiniteSet(I), I # {}
  PROVE  \E i \in I : \A j \in I : i <= j
<1> DEFINE R == {p \in I \X I : p[1] < p[2]}
           s == SortedBy(I, R)
           n == Cardinality(I)
<1>1. \A i, j \in I : <<i, j>> \in R <=> i < j
  OBVIOUS
<1>2. Orders(R, I)
  BY <1>1 DEF Orders
<1> HIDE DEF R
<1>3. s \in SetToSeqs(I) /\ \A i, j \in 1..n : i < j => <<s[i], s[j]>> \in R
  BY <1>2, Sorted
<1> HIDE DEF s
<1>4. n \in Nat /\ n # 0
  BY FS_CardinalityType, FS_EmptySet
<1>5. (\A i \in 1..n : s[i] \in I) /\ \A j \in I : \E i \in 1..n : s[i] = j
  BY <1>3, ListOfSet
<1> HIDE DEF n
<1>6. 1 \in 1..n /\ s[1] \in I
  BY <1>4, <1>5
<1>7. ASSUME NEW j \in I PROVE s[1] <= j
 <2>1. PICK i \in 1..n : s[i] = j
   BY <1>5
 <2>2. i = 1 \/ 1 < i
   BY <1>4
 <2>3. 1 < i => s[1] < j
   BY <1>1, <1>3, <1>6, <2>1
 <2>4. s[1] \in Nat /\ j \in Nat
   BY <1>6
 <2> QED
   BY <2>1, <2>2, <2>3, <2>4
<1> QED
  BY <1>6, <1>7

(* The first place of a document in a list, or 0.                              *)
LEMMA SelectIs ==
  ASSUME NEW T, NEW s \in Seq(T), NEW e
  PROVE  LET I == {i \in 1..Len(s) : s[i] = e}
             k == IF I # {} THEN Min(I) ELSE 0
         IN /\ k \in 0..Len(s)
            /\ k # 0 => s[k] = e
            /\ k = 0 => \A i \in 1..Len(s) : s[i] # e
<1> DEFINE I == {i \in 1..Len(s) : s[i] = e}
           k == IF I # {} THEN Min(I) ELSE 0
<1>2. Len(s) \in Nat
  BY LenProperties
<1>3. CASE I = {}
  BY <1>2, <1>3
<1>4. CASE I # {}
 <2>1. \E i \in I : \A j \in I : i <= j
  <3>1. I \subseteq 1..Len(s) /\ IsFiniteSet(1..Len(s))
    BY <1>2, <1>4, FS_Interval
  <3>2. IsFiniteSet(I)
    BY <3>1, FS_Subset
  <3>3. I \in SUBSET Nat
    BY <1>2
  <3> HIDE DEF I
  <3> QED
    BY <1>4, <3>2, <3>3, LeastOf
 <2>2. Min(I) \in I
   BY <2>1 DEF Min
 <2> QED
   BY <1>2, <1>4, <2>2
<1> QED
  BY <1>3, <1>4

(* Taking a hit out and putting one in leaves each hit there once.             *)
LEMMA RemoveOnce ==
  ASSUME NEW T, NEW s \in Seq(T), Once(s), NEW k \in 1..Len(s)
  PROVE  Once(RemoveAt(s, k)) /\ \A i \in 1..Len(RemoveAt(s, k)) : RemoveAt(s, k)[i] # s[k]
<1> DEFINE r == RemoveAt(s, k)
           n == Len(s)
           from(i) == IF i < k THEN i ELSE i + 1
<1>1. Len(r) = n - 1 /\ n \in Nat /\ k \in 1..n
  BY RemoveAtIs, LenProperties
<1>2. \A i \in 1..n - 1 : r[i] = IF i < k THEN s[i] ELSE s[i + 1]
  BY RemoveAtIs
<1> HIDE DEF r, n
<1>3. ASSUME NEW i \in 1..n - 1
      PROVE  r[i] = s[from(i)] /\ from(i) \in 1..n /\ from(i) # k
 <2>1. from(i) \in 1..n /\ from(i) # k
   BY <1>1
 <2> QED
   BY <1>2, <2>1
<1>4. \A i, j \in 1..n - 1 : from(i) = from(j) => i = j
  BY <1>1
<1> HIDE DEF from
<1>5. \A i, j \in 1..n : s[i] = s[j] => i = j
  BY DEF Once, n
<1>6. \A i, j \in 1..n - 1 : r[i] = r[j] => i = j
  BY <1>3, <1>4, <1>5
<1>7. \A i \in 1..n - 1 : r[i] # s[k]
  BY <1>1, <1>3, <1>5
<1> QED
  BY <1>1, <1>6, <1>7 DEF Once, r

LEMMA InsertOnce ==
  ASSUME NEW T, NEW s \in Seq(T), NEW k \in 1..Len(s) + 1, NEW e \in T
  PROVE  (Once(s) /\ \A i \in 1..Len(s) : s[i] # e) => Once(InsertAt(s, k, e))
<1>8. /\ InsertAt(s, k, e) \in Seq(T) /\ Len(InsertAt(s, k, e)) = Len(s) + 1
      /\ \A i \in 1..Len(s) + 1 : InsertAt(s, k, e)[i] = IF i < k THEN s[i] ELSE IF i = k THEN e ELSE s[i - 1]
  BY InsertAtIs, SMTT(30)
<1> SUFFICES ASSUME Once(s), \A i \in 1..Len(s) : s[i] # e PROVE Once(InsertAt(s, k, e))
  OBVIOUS
<1> DEFINE r == InsertAt(s, k, e)
           n == Len(s)
           from(i) == IF i < k THEN i ELSE i - 1
<1>1. Len(r) = n + 1 /\ n \in Nat /\ k \in 1..n + 1
  BY <1>8, LenProperties
<1>2. \A i \in 1..n + 1 : r[i] = IF i < k THEN s[i] ELSE IF i = k THEN e ELSE s[i - 1]
  BY <1>8
<1>3. (\A i, j \in 1..n : s[i] = s[j] => i = j) /\ \A i \in 1..n : s[i] # e
  BY DEF Once
<1> HIDE DEF r, n
<1>4. ASSUME NEW i \in 1..n + 1, i # k PROVE r[i] = s[from(i)] /\ from(i) \in 1..n
 <2>1. from(i) \in 1..n
   BY <1>1, <1>4
 <2> QED
   BY <1>2, <1>4, <2>1
<1>5. \A i, j \in 1..n + 1 : i # k /\ j # k /\ from(i) = from(j) => i = j
  BY <1>1
<1> HIDE DEF from
<1>6. r[k] = e
  BY <1>1, <1>2
<1>7. \A i, j \in 1..n + 1 : r[i] = r[j] => i = j
 <2> SUFFICES ASSUME NEW i \in 1..n + 1, NEW j \in 1..n + 1, r[i] = r[j] PROVE i = j
   OBVIOUS
 <2>1. CASE i = k
   BY <1>3, <1>4, <1>6, <2>1
 <2>2. CASE j = k
   BY <1>3, <1>4, <1>6, <2>2
 <2>3. CASE i # k /\ j # k
   BY <1>3, <1>4, <1>5, <2>3
 <2> QED
   BY <2>1, <2>2, <2>3
<1> QED
  BY <1>1, <1>7 DEF Once, r

(* Done to the hits and to the scores alike, both keep them side by side.      *)
LEMMA AlignedRemove ==
  ASSUME NEW scores \in Seq(ScoreType), NEW hits \in Seq(Doc), Aligned(scores, hits), NEW k \in 1..Len(hits)
  PROVE  Aligned(RemoveAt(scores, k), RemoveAt(hits, k))
<1> DEFINE n == Len(hits)
           a == RemoveAt(scores, k)
           b == RemoveAt(hits, k)
<1>1. Len(scores) = n /\ n \in Nat /\ k \in 1..n
  BY LenProperties DEF Aligned
<1>2. \A i \in 1..n : scores[i].of = 0 \/ scores[i].of = hits[i]
  BY DEF Aligned
<1>3. Len(a) = n - 1 /\ \A i \in 1..n - 1 : a[i] = IF i < k THEN scores[i] ELSE scores[i + 1]
  BY <1>1, RemoveAtIs
<1>4. Len(b) = n - 1 /\ \A i \in 1..n - 1 : b[i] = IF i < k THEN hits[i] ELSE hits[i + 1]
  BY <1>1, RemoveAtIs
<1> HIDE DEF n, a, b
<1>5. ASSUME NEW i \in 1..n - 1 PROVE a[i].of = 0 \/ a[i].of = b[i]
 <2>1. i \in 1..n /\ i + 1 \in 1..n
   BY <1>1
 <2> QED
   BY <1>2, <1>3, <1>4, <2>1
<1> QED
  BY <1>3, <1>4, <1>5 DEF Aligned, a, b

LEMMA AlignedInsert ==
  ASSUME NEW scores \in Seq(ScoreType), NEW hits \in Seq(Doc), Aligned(scores, hits), NEW k \in 1..Len(hits) + 1,
         NEW x \in ScoreType, NEW d \in Doc, x.of = 0 \/ x.of = d
  PROVE  Aligned(InsertAt(scores, k, x), InsertAt(hits, k, d))
<1> DEFINE n == Len(hits)
           a == InsertAt(scores, k, x)
           b == InsertAt(hits, k, d)
<1>1. Len(scores) = n /\ n \in Nat /\ k \in 1..n + 1
  BY LenProperties DEF Aligned
<1>2. \A i \in 1..n : scores[i].of = 0 \/ scores[i].of = hits[i]
  BY DEF Aligned
<1>3. Len(a) = n + 1 /\ \A i \in 1..n + 1 : a[i] = IF i < k THEN scores[i] ELSE IF i = k THEN x ELSE scores[i - 1]
 <2>1. k \in 1..Len(scores) + 1
   BY <1>1
 <2>2. /\ InsertAt(scores, k, x) \in Seq(ScoreType) /\ Len(InsertAt(scores, k, x)) = Len(scores) + 1
       /\ \A i \in 1..Len(scores) + 1 :
            InsertAt(scores, k, x)[i] = IF i < k THEN scores[i] ELSE IF i = k THEN x ELSE scores[i - 1]
   BY <2>1, InsertAtIs, SMTT(30)
 <2> QED
   BY <1>1, <2>2
<1>4. Len(b) = n + 1 /\ \A i \in 1..n + 1 : b[i] = IF i < k THEN hits[i] ELSE IF i = k THEN d ELSE hits[i - 1]
 <2>1. /\ InsertAt(hits, k, d) \in Seq(Doc) /\ Len(InsertAt(hits, k, d)) = Len(hits) + 1
       /\ \A i \in 1..Len(hits) + 1 : InsertAt(hits, k, d)[i] = IF i < k THEN hits[i] ELSE IF i = k THEN d ELSE hits[i - 1]
   BY InsertAtIs, SMTT(30)
 <2> QED
   BY <1>1, <2>1
<1> HIDE DEF n, a, b
<1>5. ASSUME NEW i \in 1..n + 1 PROVE a[i].of = 0 \/ a[i].of = b[i]
 <2>1. (i < k => i \in 1..n) /\ (~(i < k) /\ i # k => i - 1 \in 1..n)
   BY <1>1
 <2> QED
   BY <1>2, <1>3, <1>4, <2>1
<1> QED
  BY <1>3, <1>4, <1>5 DEF Aligned, a, b

(* One pin: the hits stay distinct, and hits and scores side by side.          *)
LEMMA PinOne ==
  ASSUME call \in CallType, NEW pin \in Pin, Once(call.shown), call.scores = <<>> \/ Len(call.scores) >= Len(call.shown)
  PROVE  LET r == apply_pin(call, pin)
         IN /\ r.shown \in Seq(Doc) /\ r.scores \in Seq(ScoreType) /\ r.stubs \in SUBSET Doc
            /\ r = [call EXCEPT !.shown = r.shown, !.scores = r.scores, !.stubs = r.stubs]
            /\ Once(r.shown) /\ (r.scores = <<>> \/ Len(r.scores) >= Len(r.shown))
            /\ call.scores = <<>> \/ Aligned(call.scores, call.shown) => r.scores = <<>> \/ Aligned(r.scores, r.shown)
<1> DEFINE place == SelectInSeq(call.shown, LAMBDA d : d = pin.doc)
           hits == IF place = 0 THEN call.shown ELSE RemoveAt(call.shown, place)
           scored == place # 0 /\ place <= Len(call.scores)
           score == IF scored THEN call.scores[place] ELSE NoScore
           scores == IF scored THEN RemoveAt(call.scores, place) ELSE call.scores
           pos == IF pin.position = -1 \/ pin.position > Len(hits) THEN Len(hits) ELSE pin.position
           end == IF pin.position = -1 THEN Len(scores) ELSE pos
           shown == InsertAt(hits, pos + 1, pin.doc)
           after == IF scores = <<>> THEN <<>> ELSE InsertAt(scores, end + 1, score)
           stubs == IF place = 0 THEN call.stubs \cup {pin.doc} ELSE call.stubs
<1>1. /\ call.shown \in Seq(Doc) /\ call.scores \in Seq(ScoreType) /\ call.stubs \in SUBSET Doc
      /\ pin.doc \in Doc /\ pin.position \in Nat \cup {-1}
  BY DEF CallType, Pin
<1>2. apply_pin(call, pin) = [call EXCEPT !.shown = shown, !.scores = after, !.stubs = stubs]
  BY DEF apply_pin, CallType
<1>3. /\ place \in 0..Len(call.shown) /\ (place # 0 => call.shown[place] = pin.doc)
      /\ place = 0 => \A i \in 1..Len(call.shown) : call.shown[i] # pin.doc
 <2> DEFINE I == {i \in 1..Len(call.shown) : call.shown[i] = pin.doc}
            k == IF I # {} THEN Min(I) ELSE 0
 <2>1. place = k
   BY DEF SelectInSeq
 <2>2. /\ k \in 0..Len(call.shown)
       /\ k # 0 => call.shown[k] = pin.doc
       /\ k = 0 => \A i \in 1..Len(call.shown) : call.shown[i] # pin.doc
  <3>1. call.shown \in Seq(Doc)
    BY <1>1
  <3> QED
    BY <3>1, SelectIs
 <2> HIDE DEF place, k
 <2> QED
   BY <2>1, <2>2
<1> HIDE DEF place
<1>4. Len(call.shown) \in Nat /\ Len(call.scores) \in Nat
  BY <1>1, LenProperties
<1>5. /\ hits \in Seq(Doc) /\ Once(hits) /\ \A i \in 1..Len(hits) : hits[i] # pin.doc
      /\ Len(hits) = IF place = 0 THEN Len(call.shown) ELSE Len(call.shown) - 1
 <2>1. CASE place = 0
   BY <1>1, <1>3, <2>1
 <2>2. CASE place # 0
  <3>1. place \in 1..Len(call.shown) /\ call.shown[place] = pin.doc
    BY <1>3, <2>2
  <3>2. /\ RemoveAt(call.shown, place) \in Seq(Doc) /\ Len(RemoveAt(call.shown, place)) = Len(call.shown) - 1
    BY <1>1, <3>1, RemoveAtIs
  <3>3. Once(RemoveAt(call.shown, place))
    BY <1>1, <3>1, RemoveOnce
  <3>4. \A i \in 1..Len(RemoveAt(call.shown, place)) : RemoveAt(call.shown, place)[i] # call.shown[place]
    BY <1>1, <3>1, RemoveOnce
  <3> QED
    BY <2>2, <3>1, <3>2, <3>3, <3>4
 <2> QED
   BY <2>1, <2>2
<1>6. /\ scores \in Seq(ScoreType) /\ score \in ScoreType
      /\ scores = <<>> \/ Len(scores) >= Len(hits)
 <2>1. NoScore \in ScoreType
   BY DEF NoScore, Score, ScoreType
 <2>2. CASE scored
  <3>1. place \in 1..Len(call.scores)
    BY <1>3, <1>4, <2>2
  <3>2. RemoveAt(call.scores, place) \in Seq(ScoreType) /\ Len(RemoveAt(call.scores, place)) = Len(call.scores) - 1
    BY <1>1, <3>1, RemoveAtIs
  <3>3. call.scores[place] \in ScoreType
    BY <1>1, <3>1, LenProperties
  <3>4. call.scores # <<>>
    BY <1>1, <3>1
  <3>5. Len(hits) = Len(call.shown) - 1 /\ Len(call.scores) >= Len(call.shown)
    BY <1>5, <2>2, <3>4
  <3>6. scores = RemoveAt(call.scores, place) /\ score = call.scores[place]
    BY <2>2
  <3> HIDE DEF hits, scores, score
  <3> QED
    BY <1>4, <3>2, <3>3, <3>5, <3>6
 <2>3. CASE ~scored
  <3>1. scores = call.scores /\ score = NoScore
    BY <2>3
  <3>2. Len(hits) <= Len(call.shown) /\ Len(hits) \in Nat
   <4>1. Len(hits) \in Nat
     BY <1>5, LenProperties
   <4> HIDE DEF hits
   <4> QED
     BY <1>4, <1>5, <4>1
  <3> HIDE DEF hits, scores, score
  <3> QED
    BY <1>1, <1>4, <2>1, <3>1, <3>2
 <2> QED
   BY <2>2, <2>3
<1>7. ASSUME call.scores = <<>> \/ Aligned(call.scores, call.shown)
      PROVE  scores = <<>> \/ (Aligned(scores, hits) /\ (score.of = 0 \/ score.of = pin.doc))
 <2>1. NoScore.of = 0
   BY DEF NoScore, Score
 <2>2. CASE call.scores = <<>>
  <3>1. Len(call.scores) = 0
    BY <2>2
  <3>2. ~scored
    BY <1>3, <3>1
  <3> QED
    BY <2>2, <3>2
 <2>3. CASE Aligned(call.scores, call.shown) /\ place = 0
   BY <2>1, <2>3
 <2>4. CASE Aligned(call.scores, call.shown) /\ place # 0
  <3>1. Len(call.scores) = Len(call.shown)
    BY <2>4 DEF Aligned
  <3>2. scored /\ place \in 1..Len(call.shown)
    BY <1>3, <1>4, <2>4, <3>1
  <3>3. Aligned(RemoveAt(call.scores, place), RemoveAt(call.shown, place))
    BY <1>1, <2>4, <3>2, AlignedRemove
  <3>4. call.scores[place].of = 0 \/ call.scores[place].of = call.shown[place]
    BY <2>4, <3>2 DEF Aligned
  <3> QED
    BY <1>3, <2>4, <3>2, <3>3, <3>4
 <2> QED
   BY <1>7, <2>2, <2>3, <2>4
<1> HIDE DEF hits, scores, score, scored
<1>8. Len(hits) \in Nat /\ Len(scores) \in Nat
  BY <1>5, <1>6, LenProperties
<1>9. /\ pos \in 0..Len(hits) /\ pos + 1 \in 1..Len(hits) + 1
      /\ scores # <<>> => end + 1 \in 1..Len(scores) + 1
      /\ Len(scores) = Len(hits) => end = pos
 <2>1. pos \in 0..Len(hits)
   BY <1>1, <1>8
 <2> HIDE DEF pos
 <2>2. scores # <<>> => Len(scores) >= Len(hits)
   BY <1>6
 <2>3. scores # <<>> => end + 1 \in 1..Len(scores) + 1
   BY <1>8, <2>1, <2>2
 <2>4. Len(scores) = Len(hits) => end = pos
   BY DEF pos
 <2> QED
   BY <1>8, <2>1, <2>3, <2>4
<1> HIDE DEF pos, end
<1>10. shown \in Seq(Doc) /\ Len(shown) = Len(hits) + 1
  BY <1>1, <1>5, <1>9, InsertAtIs
<1>11. Once(shown)
  BY <1>1, <1>5, <1>9, InsertOnce
<1>12. after \in Seq(ScoreType) /\ (after = <<>> \/ Len(after) >= Len(shown))
 <2>1. CASE scores = <<>>
   BY <2>1, EmptySeq
 <2>2. CASE scores # <<>>
  <3>1. InsertAt(scores, end + 1, score) \in Seq(ScoreType) /\ Len(InsertAt(scores, end + 1, score)) = Len(scores) + 1
    BY <1>6, <1>9, <2>2, InsertAtIs
  <3>2. Len(scores) + 1 >= Len(hits) + 1
    BY <1>6, <1>8, <2>2
  <3>3. after = InsertAt(scores, end + 1, score)
    BY <2>2
  <3> HIDE DEF after, shown
  <3> QED
    BY <1>10, <3>1, <3>2, <3>3
 <2> QED
   BY <2>1, <2>2
<1>13. ASSUME call.scores = <<>> \/ Aligned(call.scores, call.shown) PROVE after = <<>> \/ Aligned(after, shown)
 <2>1. CASE scores = <<>>
   BY <2>1
 <2>2. CASE scores # <<>>
  <3>1. Aligned(scores, hits) /\ (score.of = 0 \/ score.of = pin.doc)
    BY <1>7, <1>13, <2>2
  <3>2. end = pos
    BY <1>9, <3>1 DEF Aligned
  <3>3. Aligned(InsertAt(scores, pos + 1, score), InsertAt(hits, pos + 1, pin.doc))
    BY <1>1, <1>5, <1>6, <1>9, <3>1, AlignedInsert
  <3> QED
    BY <2>2, <3>2, <3>3
 <2> QED
   BY <2>1, <2>2
<1>14. stubs \in SUBSET Doc
  BY <1>1
<1> HIDE DEF shown, after, stubs
<1>15. /\ apply_pin(call, pin).shown = shown /\ apply_pin(call, pin).scores = after /\ apply_pin(call, pin).stubs = stubs
  BY <1>2 DEF CallType
<1> QED
  BY <1>2, <1>10, <1>11, <1>12, <1>13, <1>14, <1>15

LEMMA PinStep ==
  ASSUME QueriesInv, apply_pins
  PROVE  QueriesInv' /\ RemovesRight
<1>1. /\ call \in CallType /\ QueriesType /\ call.op = "search" /\ call.step = "pin" /\ UNCHANGED <<index, docs>>
      /\ call.why \in SUBSET Cause /\ call.pins \in Seq(Pin)
  BY DEF QueriesInv, apply_pins, CallType
<1>2. QueriesType' /\ CallType' = CallType
  BY <1>1 DEF QueriesType, CallType
<1>3. /\ Once(call.shown) /\ (call.scores = <<>> \/ Len(call.scores) >= Len(call.shown))
      /\ "scored before" \notin call.why => call.scores = <<>> \/ Aligned(call.scores, call.shown)
      /\ "highlights stay" \notin call.why => call.formatted \in {<<>>, call.shown}
  BY <1>1 DEF QueriesInv, SideBySide
<1>4. CASE call.pins = <<>>
 <2>1. call' = [call EXCEPT !.step = "boost"]
   BY <1>4 DEF apply_pins
 <2>2. /\ call' \in CallType /\ call'.op = "search" /\ call'.step = "boost" /\ call'.shown = call.shown /\ call'.scores = call.scores
       /\ call'.formatted = call.formatted /\ call'.why = call.why
   BY <1>1, <2>1 DEF CallType
 <2>3. SideBySide'
   BY <1>3, <2>2 DEF SideBySide
 <2> QED
   BY <1>2, <2>2, <2>3 DEF QueriesInv, Collected, ReadSoFar, RemovesRight
<1>5. CASE call.pins # <<>>
 <2> DEFINE pin == Head(call.pins)
            r == apply_pin(call, pin)
            shown == r.shown
            scores == r.scores
            stubs == r.stubs
            pins == Tail(call.pins)
            why == call.why \cup (IF call.formatted # <<>> THEN {"highlights stay"} ELSE {})
 <2>1. pin \in Pin /\ pins \in Seq(Pin) /\ why \in SUBSET Cause
   BY <1>1, <1>5, HeadTailProperties DEF Cause
 <2> HIDE DEF pin
 <2>2. /\ shown \in Seq(Doc) /\ scores \in Seq(ScoreType) /\ stubs \in SUBSET Doc
       /\ r = [call EXCEPT !.shown = shown, !.scores = scores, !.stubs = stubs]
       /\ Once(shown) /\ (scores = <<>> \/ Len(scores) >= Len(shown))
       /\ call.scores = <<>> \/ Aligned(call.scores, call.shown) => scores = <<>> \/ Aligned(scores, shown)
   BY <1>1, <1>3, <2>1, PinOne
 <2>3. call' = [r EXCEPT !.pins = Tail(@), !.why = @ \cup (IF call.formatted # <<>> THEN {"highlights stay"} ELSE {})]
   BY <1>5 DEF apply_pins, pin
 <2> HIDE DEF r
 <2>4. r.pins = call.pins /\ r.why = call.why
  <3> HIDE DEF shown, scores, stubs
  <3> QED
    BY <1>1, <2>2 DEF CallType
 <2>5. call' = [r EXCEPT !.pins = pins, !.why = why]
   BY <2>3, <2>4
 <2> HIDE DEF shown, scores, stubs, pins, why
 <2>6. /\ call' = [call EXCEPT !.shown = shown, !.scores = scores, !.stubs = stubs, !.pins = pins, !.why = why]
   BY <1>1, <2>2, <2>5 DEF CallType
 <2>7. /\ call' \in CallType /\ call'.op = "search" /\ call'.step = "pin" /\ call'.shown = shown /\ call'.scores = scores
       /\ call'.formatted = call.formatted /\ call'.why = why
  <3>1. call' \in CallType
    BY <1>1, <2>1, <2>2, <2>6 DEF CallType
  <3> QED
    BY <1>1, <2>6, <3>1 DEF CallType
 <2>8. /\ "scored before" \notin why => "scored before" \notin call.why
       /\ "highlights stay" \notin why => call.formatted = <<>>
   BY DEF why
 <2>9. SideBySide'
   BY <1>3, <2>2, <2>7, <2>8 DEF SideBySide
 <2> QED
   BY <1>2, <2>7, <2>9 DEF QueriesInv, Collected, ReadSoFar, RemovesRight
<1> QED
  BY <1>4, <1>5

(* -------------------------------- boosts --------------------------------- *)

(* What a boost makes of the score at a place.                                 *)
LEMMA BoostedIs ==
  ASSUME call \in CallType, NEW i \in 1..Len(call.shown)
  PROVE  /\ Boosted(i) \in ScoreType
         /\ call.scores = <<>> \/ Aligned(call.scores, call.shown) => Boosted(i).of = 0 \/ Boosted(i).of = call.shown[i]
<1>1. call.shown \in Seq(Doc) /\ call.scores \in Seq(ScoreType)
  BY DEF CallType
<1>2. Len(call.shown) \in Nat /\ Len(call.scores) \in Nat
  BY <1>1, LenProperties
<1> DEFINE own == i <= Len(call.scores) /\ call.scores[i] # NoScore
           base == IF own THEN call.scores[i] ELSE Score(0, Len(call.shown) - i + 1)
           up == _evaluate_operator(call.shown[i])
<1>3. Boosted(i) = [base EXCEPT !.value = IF up THEN @ * 4 ELSE @]
  BY DEF Boosted
<1>4. base \in ScoreType
 <2>1. own => call.scores[i] \in ScoreType
  <3>1. own => i \in 1..Len(call.scores)
    BY <1>2
  <3> QED
    BY <1>1, <3>1, LenProperties
 <2>2. Score(0, Len(call.shown) - i + 1) \in ScoreType
   BY <1>2 DEF Score, ScoreType
 <2> HIDE DEF own
 <2> QED
   BY <2>1, <2>2
<1>5. ASSUME call.scores = <<>> \/ Aligned(call.scores, call.shown) PROVE base.of = 0 \/ base.of = call.shown[i]
 <2>1. Score(0, Len(call.shown) - i + 1).of = 0
   BY DEF Score
 <2>2. own => call.scores # <<>>
   BY <1>2
 <2> QED
   BY <1>5, <2>1, <2>2 DEF Aligned
<1> HIDE DEF base, up
<1>6. Boosted(i) \in ScoreType /\ Boosted(i).of = base.of
 <2>1. base.of \in Nat /\ base.value \in Nat /\ base.value * 4 \in Nat
   BY <1>4 DEF ScoreType
 <2> QED
   BY <1>3, <1>4, <2>1 DEF ScoreType
<1> QED
  BY <1>5, <1>6

(* The places of the hits, ordered by score, each once.                        *)
LEMMA PlacesOrdered ==
  ASSUME NEW n \in Nat, NEW value, \A i \in 1..n : value[i] \in Nat, NEW order, NEW S, NEW R,
         S = 1..n, \A i, j \in S : <<i, j>> \in R <=> value[i] > value[j] \/ (value[i] = value[j] /\ i < j),
         order = SortedBy(S, R)
  PROVE  /\ DOMAIN order = 1..n /\ \A k \in 1..n : order[k] \in 1..n
         /\ \A k, m \in 1..n : order[k] = order[m] => k = m
<1> DEFINE before(i, j) == value[i] > value[j] \/ (value[i] = value[j] /\ i < j)
<1>1. IsFiniteSet(S) /\ Cardinality(S) = n
  BY FS_Interval
<1>2. \A i, j \in S : <<i, j>> \in R <=> before(i, j)
  OBVIOUS
<1>3. Orders(R, S)
 <2>1. \A i \in S : value[i] \in Nat /\ i \in Nat
   OBVIOUS
 <2>2. \A i \in S : ~before(i, i)
   BY <2>1
 <2>3. \A i, j \in S : i = j \/ before(i, j) \/ before(j, i)
   BY <2>1
 <2>4. \A i, j, k \in S : before(i, j) /\ before(j, k) => before(i, k)
   BY <2>1
 <2> HIDE DEF before
 <2> QED
   BY <1>2, <2>2, <2>3, <2>4 DEF Orders
<1>4. order \in SetToSeqs(S)
 <2> QED
   BY <1>1, <1>3, Sorted
<1>5. /\ order \in [1..n -> S] /\ \A k, m \in 1..n : order[k] = order[m] => k = m
 <2>1. /\ order \in [1..Cardinality(S) -> S] /\ \A k, m \in 1..Cardinality(S) : order[k] = order[m] => k = m
   BY <1>1, <1>4, ListOfSet
 <2> QED
   BY <1>1, <2>1
<1>6. DOMAIN order = 1..n /\ (\A k \in 1..n : order[k] \in 1..n) /\ \A k, m \in 1..n : order[k] = order[m] => k = m
  BY <1>5
<1> QED
  BY <1>6

LEMMA PlacesOnce ==
  ASSUME NEW n \in Nat, NEW value, \A i \in 1..n : value[i] \in Nat, NEW order, NEW S, NEW R,
         S = 1..n, \A i, j \in S : <<i, j>> \in R <=> value[i] > value[j] \/ (value[i] = value[j] /\ i < j),
         order = SortedBy(S, R)
  PROVE  \A k, m \in 1..n : order[k] = order[m] => k = m
BY PlacesOrdered

LEMMA BoostStep ==
  ASSUME QueriesInv, apply_boosts
  PROVE  QueriesInv' /\ RemovesRight
<1>1. /\ call \in CallType /\ QueriesType /\ call.op = "search" /\ call.step = "boost" /\ UNCHANGED <<index, docs>>
      /\ call.why \in SUBSET Cause /\ call.shown \in Seq(Doc) /\ call.scores \in Seq(ScoreType)
  BY DEF QueriesInv, apply_boosts, CallType
<1>2. QueriesType' /\ CallType' = CallType
  BY <1>1 DEF QueriesType, CallType
<1>3. /\ Once(call.shown) /\ (call.scores = <<>> \/ Len(call.scores) >= Len(call.shown))
      /\ "scored before" \notin call.why => call.scores = <<>> \/ Aligned(call.scores, call.shown)
      /\ "highlights stay" \notin call.why => call.formatted \in {<<>>, call.shown}
  BY <1>1 DEF QueriesInv, SideBySide
<1>4. CASE ~call.boost \/ call.shown = <<>>
 <2>1. call' = [call EXCEPT !.step = "done"]
   BY <1>4 DEF apply_boosts
 <2>2. /\ call' \in CallType /\ call'.op = "search" /\ call'.step = "done" /\ call'.shown = call.shown /\ call'.scores = call.scores
       /\ call'.formatted = call.formatted /\ call'.why = call.why
   BY <1>1, <2>1 DEF CallType
 <2>3. SideBySide'
   BY <1>3, <2>2 DEF SideBySide
 <2> QED
   BY <1>1, <1>2, <2>2, <2>3 DEF QueriesInv, Collected, ReadSoFar, RemovesRight
<1>5. CASE ~(~call.boost \/ call.shown = <<>>)
 <2> DEFINE n == Len(call.shown)
            new == [i \in DOMAIN call.shown |-> Boosted(i)]
            before(i, j) == new[i].value > new[j].value \/ (new[i].value = new[j].value /\ i < j)
            places == DOMAIN call.shown
            order == SortedBy(places, {p \in places \X places : before(p[1], p[2])})
            shown == [k \in DOMAIN order |-> call.shown[order[k]]]
            scores == [k \in DOMAIN order |-> new[order[k]]]
            why == call.why \cup (IF call.formatted # <<>> THEN {"highlights stay"} ELSE {})
 <2>1. call' = [call EXCEPT !.shown = shown, !.scores = scores, !.step = "done", !.why = why]
  <3> HIDE DEF shown, scores
  <3>1. call' = [call EXCEPT !.shown = shown, !.scores = scores, !.step = "done",
                             !.why = @ \cup (IF call.formatted # <<>> THEN {"highlights stay"} ELSE {})]
    BY <1>5 DEF apply_boosts, shown, scores
  <3> QED
    BY <1>1, <3>1 DEF CallType
 <2>2. n \in Nat /\ places = 1..n /\ \A i \in 1..n : call.shown[i] \in Doc
   BY <1>1, LenProperties
 <2>3. \A i \in 1..n : new[i] = Boosted(i)
   BY <2>2
 <2>4. \A i \in 1..n : new[i] \in ScoreType /\ new[i].value \in Nat
  <3>1. \A i \in 1..n : Boosted(i) \in ScoreType
    BY <1>1, BoostedIs
  <3> HIDE DEF new, n
  <3> QED
    BY <2>3, <3>1 DEF ScoreType
 <2>5. ASSUME "scored before" \notin why, NEW i \in 1..n PROVE new[i].of = 0 \/ new[i].of = call.shown[i]
  <3>1. call.scores = <<>> \/ Aligned(call.scores, call.shown)
    BY <1>3, <2>5
  <3>2. Boosted(i).of = 0 \/ Boosted(i).of = call.shown[i]
    BY <1>1, <3>1, BoostedIs
  <3> HIDE DEF new, n
  <3> QED
    BY <2>3, <2>5, <3>2
 <2>6. /\ DOMAIN order = 1..n /\ \A k \in 1..n : order[k] \in 1..n
       /\ \A k, m \in 1..n : order[k] = order[m] => k = m
  <3> DEFINE value == [i \in 1..n |-> new[i].value]
             S == 1..n
             R == {p \in S \X S : before(p[1], p[2])}
  <3>1. \A i \in 1..n : value[i] \in Nat /\ value[i] = new[i].value
    BY <2>4
  <3>2. order = SortedBy(S, R)
    BY <2>2
  <3>3. \A i, j \in S : <<i, j>> \in R <=> before(i, j)
    OBVIOUS
  <3> HIDE DEF value, order, new, n, R
  <3>4. \A i, j \in S : <<i, j>> \in R <=> value[i] > value[j] \/ (value[i] = value[j] /\ i < j)
    BY <3>1, <3>3
  <3>5. n \in Nat /\ S = 1..n /\ \A i \in 1..n : value[i] \in Nat
    BY <2>2, <3>1
  <3> HIDE DEF S
  <3>6. DOMAIN order = 1..n
    BY <3>2, <3>4, <3>5, PlacesOrdered
  <3>7. \A k \in 1..n : order[k] \in 1..n
    BY <3>2, <3>4, <3>5, PlacesOrdered
  <3>8. ASSUME NEW k \in 1..n, NEW m \in 1..n, order[k] = order[m] PROVE k = m
   <4>1. \A i, j \in 1..n : order[i] = order[j] => i = j
     BY <3>2, <3>4, <3>5, PlacesOnce
   <4> QED
     BY <3>8, <4>1
  <3> QED
    BY <3>6, <3>7, <3>8
 <2> HIDE DEF n, new, places, order
 <2>7. /\ shown \in Seq(Doc) /\ Len(shown) = n /\ \A k \in 1..n : shown[k] = call.shown[order[k]]
  <3>1. shown = [k \in 1..n |-> call.shown[order[k]]]
    BY <2>6
  <3>2. \A k \in 1..n : call.shown[order[k]] \in Doc
    BY <2>2, <2>6
  <3> HIDE DEF shown
  <3> QED
    BY <2>2, <3>1, <3>2
 <2>8. /\ scores \in Seq(ScoreType) /\ Len(scores) = n /\ \A k \in 1..n : scores[k] = new[order[k]]
  <3>1. scores = [k \in 1..n |-> new[order[k]]]
    BY <2>6
  <3>2. \A k \in 1..n : new[order[k]] \in ScoreType
    BY <2>4, <2>6
  <3> HIDE DEF scores
  <3> QED
    BY <2>2, <3>1, <3>2
 <2>9. why \in SUBSET Cause
   BY <1>1 DEF Cause
 <2>10. /\ "scored before" \notin why => "scored before" \notin call.why
        /\ "highlights stay" \notin why => call.formatted = <<>>
   OBVIOUS
 <2> HIDE DEF shown, scores, why
 <2>11. /\ call' \in CallType /\ call'.op = "search" /\ call'.step = "done" /\ call'.shown = shown /\ call'.scores = scores
        /\ call'.formatted = call.formatted /\ call'.why = why
  <3>1. call' \in CallType
    BY <1>1, <2>1, <2>7, <2>8, <2>9 DEF CallType
  <3> QED
    BY <1>1, <2>1, <3>1 DEF CallType
 <2>12. Once(shown)
  <3>1. \A i, j \in 1..n : call.shown[i] = call.shown[j] => i = j
    BY <1>3 DEF Once, n
  <3> QED
    BY <2>6, <2>7, <3>1 DEF Once
 <2>13. "scored before" \notin why => Aligned(scores, shown)
  <3> SUFFICES ASSUME "scored before" \notin why PROVE Aligned(scores, shown)
    OBVIOUS
  <3>1. \A i \in 1..n : new[i].of = 0 \/ new[i].of = call.shown[i]
    BY <2>5
  <3>2. ASSUME NEW k \in 1..n PROVE scores[k].of = 0 \/ scores[k].of = shown[k]
   <4>1. order[k] \in 1..n /\ scores[k] = new[order[k]] /\ shown[k] = call.shown[order[k]]
     BY <2>6, <2>7, <2>8
   <4>2. new[order[k]].of = 0 \/ new[order[k]].of = call.shown[order[k]]
     BY <3>1, <4>1
   <4> QED
     BY <4>1, <4>2
  <3> QED
    BY <2>7, <2>8, <3>2 DEF Aligned
 <2>14. Len(scores) >= Len(shown)
   BY <2>2, <2>7, <2>8
 <2>15. SideBySide'
   BY <2>10, <2>11, <2>12, <2>13, <2>14 DEF SideBySide
 <2> QED
   BY <1>1, <1>2, <2>11, <2>15 DEF QueriesInv, Collected, ReadSoFar, RemovesRight
<1> QED
  BY <1>4, <1>5

(* HitsAligned is what side by side means to a template.                       *)
LEMMA AlignedHits == QueriesInv => HitsAligned
<1> SUFFICES ASSUME QueriesInv, call.op = "search", call.step \notin {"search", "failed"}
             PROVE  /\ "scored before" \notin call.why =>
                         \A i \in DOMAIN call.shown : get_hit_with_score(call, i) \in {0, call.shown[i]}
                    /\ "highlights stay" \notin call.why => get_highlighted_hits(call) = call.shown
                    /\ \A i, j \in DOMAIN call.shown : i # j => call.shown[i] # call.shown[j]
  BY DEF HitsAligned
<1>1. /\ Once(call.shown)
      /\ "scored before" \notin call.why => call.scores = <<>> \/ Aligned(call.scores, call.shown)
      /\ "highlights stay" \notin call.why => call.formatted \in {<<>>, call.shown}
  BY DEF QueriesInv, SideBySide
<1>2. DOMAIN call.shown = 1..Len(call.shown) /\ Len(call.shown) \in Nat
  BY LenProperties DEF QueriesInv, CallType
<1>3. ASSUME "scored before" \notin call.why, NEW i \in 1..Len(call.shown)
      PROVE  get_hit_with_score(call, i) \in {0, call.shown[i]}
 <2>1. CASE call.scores = <<>>
  <3>1. ~(i <= Len(call.scores))
    BY <1>2, <2>1
  <3> QED
    BY <3>1 DEF get_hit_with_score
 <2>2. CASE Aligned(call.scores, call.shown)
   BY <2>2 DEF get_hit_with_score, Aligned
 <2> QED
   BY <1>1, <1>3, <2>1, <2>2
<1>4. "highlights stay" \notin call.why => get_highlighted_hits(call) = call.shown
  BY <1>1 DEF get_highlighted_hits
<1> QED
  BY <1>1, <1>2, <1>3, <1>4 DEF Once

(* ------------------------- reading all the pages ------------------------- *)

NoTies(S, sort) == \A d, e \in S : d # e => ~Tied(d, e, sort)

(* An engine with an order of its own, and PostgreSQL when the sort tells all  *)
(* documents apart, rank a set in one way.                                     *)
LEMMA OneRanking ==
  ASSUME QueriesType, NEW S \in SUBSET There, NEW sort \in {"none", "asc", "desc"},
         index.engine # "postgres" \/ NoTies(S, sort),
         NEW r \in Rankings(S, sort, FALSE), NEW s \in Rankings(S, sort, FALSE)
  PROVE  r = s
<1>1. CASE index.engine # "postgres"
  BY <1>1 DEF Rankings
<1>2. CASE index.engine = "postgres"
 <2> DEFINE n == Cardinality(S)
            le(d, e) == InOrder(index.engine, sort, docs[d], docs[e])
            R == {p \in S \X S : le(p[1], p[2]) /\ ~le(p[2], p[1])}
 <2>1. NoTies(S, sort)
   BY <1>2
 <2>2. ASSUME NEW t \in Rankings(S, sort, FALSE)
       PROVE  /\ t \in SetToSeqs(S) /\ DOMAIN t = 1..n /\ \A i \in 1..n : t[i] \in S
              /\ \A i, j \in 1..n : i < j => Tied(t[i], t[j], sort) \/ Before(index.engine, sort, docs[t[i]], docs[t[j]])
  <3>1. t \in SetToSeqs(S) /\ DOMAIN t = 1..n /\ \A i \in 1..n : t[i] \in S
    BY RankingsAre
  <3>2. \A i, j \in DOMAIN t : i < j => Tied(t[i], t[j], sort) \/ Before(index.engine, sort, docs[t[i]], docs[t[j]])
    BY <1>2 DEF Rankings
  <3> QED
    BY <3>1, <3>2
 <2>3. IsFiniteSet(S) /\ n \in Nat
   BY ThereFinite
 <2>4. \A d, e \in S : <<d, e>> \in R <=> le(d, e) /\ ~le(e, d)
   OBVIOUS
 <2>5. (\A d \in S : docs[d] \in Present(index.field)) /\ index.field \in Field /\ index.engine \in Backend
   BY ThereFinite DEF QueriesType
 <2>6. /\ \A d, e \in S : le(d, e) \/ le(e, d)
       /\ \A d, e, g \in S : le(d, e) /\ le(e, g) => le(d, g)
   BY <2>5, InOrderOf
 <2>7. \A d, e \in S : Tied(d, e, sort) <=> sort = "none" \/ (le(d, e) /\ le(e, d))
   BY DEF Tied
 <2>8. \A d, e \in S : Before(index.engine, sort, docs[d], docs[e]) <=> le(d, e) /\ ~le(e, d)
   BY DEF Before
 <2> HIDE DEF le, R
 <2>9. Orders(R, S)
  <3>1. \A d \in S : <<d, d>> \notin R
    BY <2>4
  <3>2. \A d, e \in S : d = e \/ <<d, e>> \in R \/ <<e, d>> \in R
    BY <2>1, <2>4, <2>6, <2>7 DEF NoTies
  <3>3. ASSUME NEW d \in S, NEW e \in S, NEW g \in S, <<d, e>> \in R, <<e, g>> \in R PROVE <<d, g>> \in R
    BY <2>4, <2>6, <3>3
  <3> QED
    BY <3>1, <3>2, <3>3 DEF Orders
 <2>10. ASSUME NEW t \in Rankings(S, sort, FALSE), NEW i \in 1..n, NEW j \in 1..n, i < j
        PROVE  <<t[i], t[j]>> \in R
  <3>1. t[i] \in S /\ t[j] \in S /\ t[i] # t[j]
   <4>1. t \in SetToSeqs(S) /\ t[i] \in S /\ t[j] \in S
     BY <2>2
   <4>2. t[i] = t[j] => i = j
     BY <2>3, <4>1, ListOfSet
   <4> QED
     BY <2>3, <2>10, <4>1, <4>2
  <3>2. ~Tied(t[i], t[j], sort)
    BY <2>1, <3>1 DEF NoTies
  <3>3. Before(index.engine, sort, docs[t[i]], docs[t[j]])
    BY <2>2, <2>10, <3>2
  <3> QED
    BY <2>4, <2>8, <3>1, <3>3
 <2>11. r \in SetToSeqs(S) /\ s \in SetToSeqs(S)
   BY <2>2
 <2>12. \A i, j \in 1..n : i < j => <<r[i], r[j]>> \in R
   BY <2>10
 <2>13. \A i, j \in 1..n : i < j => <<s[i], s[j]>> \in R
   BY <2>10
 <2> QED
   BY <2>3, <2>9, <2>11, <2>12, <2>13, SortedOnce
<1> QED
  BY <1>1, <1>2

(* A ranking never puts a document before one that the sort wants earlier.     *)
LEMMA RankingInOrder ==
  ASSUME QueriesType, NEW S \in SUBSET There, NEW sort \in {"asc", "desc"}, \A d \in S : AsSorted(d, sort),
         NEW ranking \in Rankings(S, sort, FALSE), NEW i \in 1..Cardinality(S), NEW j \in 1..Cardinality(S), i < j
  PROVE  ~Before("asked", sort, docs[ranking[j]], docs[ranking[i]])
<1> DEFINE d == ranking[i]
           e == ranking[j]
<1>1. d \in S /\ e \in S /\ DOMAIN ranking = 1..Cardinality(S)
  BY RankingsAre
<1>2. index.engine \in Backend /\ index.field \in Field /\ docs[d] \in Present(index.field) /\ docs[e] \in Present(index.field)
  BY <1>1, ThereFinite DEF QueriesType
<1>3. InOrder(index.engine, sort, docs[d], docs[e])
 <2>1. CASE index.engine = "postgres"
  <3>1. Tied(d, e, sort) \/ Before(index.engine, sort, docs[d], docs[e])
    BY <1>1, <2>1 DEF Rankings
  <3> QED
    BY <3>1 DEF Tied, Before
 <2>2. CASE index.engine # "postgres"
  <3>1. ranking = EngineOrder(S, sort, FALSE)
    BY <2>2, RankingsAre
  <3>2. Precedes(d, e, sort, FALSE)
    BY <3>1, EngineOrderIs
  <3>3. ~Before(index.engine, sort, docs[e], docs[d])
    BY <3>2 DEF Precedes, Before
  <3>4. InOrder(index.engine, sort, docs[d], docs[e]) \/ InOrder(index.engine, sort, docs[e], docs[d])
    BY <1>2, InOrderOf
  <3> QED
    BY <3>3, <3>4 DEF Before
 <2> QED
   BY <2>1, <2>2
<1>4. AsSorted(d, sort) /\ AsSorted(e, sort)
  BY <1>1
<1> HIDE DEF d, e
<1>5. InOrder("asked", sort, docs[d], docs[e])
  BY <1>2, <1>3, <1>4, PlacesAgree DEF AsSorted
<1> QED
  BY <1>5 DEF Before, d, e

LEMMA Divides == ASSUME NEW k \in Nat, NEW n \in Nat \ {0}, k % n = 0 PROVE (k \div n) * n = k
  OBVIOUS

LEMMA OnePage == ASSUME NEW count \in Nat, Limit \in Nat \ {0}, ~(1 < num_pages(count)) PROVE count <= Limit
<1> SUFFICES ASSUME ~(count <= Limit) PROVE FALSE
  OBVIOUS
<1>1. num_pages(count) = ((count - 1) \div Limit) + 1
  BY DEF num_pages
<1>2. ASSUME NEW m \in Nat, NEW n \in Nat \ {0}, m >= n PROVE m \div n >= 1
  BY <1>2
<1>3. count - 1 \in Nat /\ count - 1 >= Limit
  OBVIOUS
<1>4. (count - 1) \div Limit >= 1
  BY <1>2, <1>3
<1>5. (count - 1) \div Limit \in Int
  BY <1>3
<1> QED
  BY <1>1, <1>4, <1>5

(* A list that is a piece of a ranking, after its first k members.             *)
Follows(s, ranking, k) == \A i \in 1..Len(s) : s[i] = ranking[k + i]

LEMMA ShownOn ==
  ASSUME NEW ranking, NEW shown \in Seq(Doc), NEW hits \in Seq(Doc), NEW start \in Nat, NEW offset \in Nat,
         start <= offset, Len(shown) = offset - start, Follows(shown, ranking, start), Follows(hits, ranking, offset)
  PROVE  /\ shown \o hits \in Seq(Doc) /\ Len(shown \o hits) = (offset - start) + Len(hits)
         /\ Follows(shown \o hits, ranking, start)
<1> DEFINE m == Len(shown)
           k == Len(hits)
<1>1. m \in Nat /\ k \in Nat /\ m = offset - start
  BY LenProperties
<1>2. /\ shown \o hits \in Seq(Doc) /\ Len(shown \o hits) = m + k
      /\ \A i \in 1..m + k : (shown \o hits)[i] = IF i <= m THEN shown[i] ELSE hits[i - m]
  BY ConcatProperties
<1>3. (\A i \in 1..m : shown[i] = ranking[start + i]) /\ \A i \in 1..k : hits[i] = ranking[offset + i]
  BY DEF Follows
<1> HIDE DEF m, k
<1>4. ASSUME NEW i \in 1..m + k PROVE (shown \o hits)[i] = ranking[start + i]
 <2>1. CASE i <= m
   BY <1>1, <1>2, <1>3, <2>1
 <2>2. CASE ~(i <= m)
  <3>1. i - m \in 1..k /\ offset + (i - m) = start + i
    BY <1>1, <2>2
  <3> QED
    BY <1>2, <1>3, <2>2, <3>1
 <2> QED
   BY <2>1, <2>2
<1> QED
  BY <1>1, <1>2, <1>4 DEF Follows, k

(* What the reasons a page read may go wrong for leave out.                    *)
LEMMA ReadWhyIs ==
  ASSUME QueriesType, call \in CallType, ReadWhy = {}
  PROVE  /\ call.number > 1 => call.mode # "paginate" /\ ~(call.mode = "page" /\ index.engine # "meilisearch")
         /\ call.mode = "page" /\ index.engine # "meilisearch" => Cardinality(Found(call.filter)) <= DefaultLimit
         /\ index.engine = "typesense" => call.offset % Limit = 0
         /\ ValuesLast
         /\ index.engine = "postgres" /\ (call.number > 1 \/ call.start > 0) => NoTies(Found(call.filter), call.sort)
<1> DEFINE S == Found(call.filter)
<1>1. /\ "same page" \notin ReadWhy /\ "few" \notin ReadWhy /\ "page rounded" \notin ReadWhy /\ "missing first" \notin ReadWhy
      /\ "unordered" \notin ReadWhy /\ "as text" \notin ReadWhy
  OBVIOUS
<1>2. /\ ~(call.number > 1 /\ (call.mode = "paginate" \/ (call.mode = "page" /\ index.engine # "meilisearch")))
      /\ ~(call.mode = "page" /\ index.engine # "meilisearch" /\ Cardinality(S) > DefaultLimit)
      /\ ~(index.engine = "typesense" /\ call.offset % Limit # 0)
      /\ ~(call.sort # "none" /\ \E d \in S : MissingFirst(index.engine, call.sort, docs[d]))
      /\ ~(call.sort # "none" /\ \E d \in S : ByText(index.engine, docs[d]))
      /\ ~(index.engine = "postgres" /\ (call.number > 1 \/ call.start > 0) /\ \E d, e \in S : d # e /\ Tied(d, e, call.sort))
  BY <1>1, Zenon DEF ReadWhy
<1>3. Cardinality(S) \in Nat /\ DefaultLimit \in Nat
 <2>1. S \in SUBSET There
   BY DEF Found
 <2> HIDE DEF S
 <2> QED
   BY <2>1, ThereFinite, LimitAssumption
<1>4. call.mode = "page" /\ index.engine # "meilisearch" => Cardinality(S) <= DefaultLimit
 <2> HIDE DEF S
 <2> QED
   BY <1>2, <1>3
<1>5. ValuesLast
  BY <1>2 DEF ValuesLast, AsSorted
<1>6. index.engine = "postgres" /\ (call.number > 1 \/ call.start > 0) => NoTies(S, call.sort)
  BY <1>2 DEF NoTies
<1> QED
  BY <1>2, <1>4, <1>5, <1>6

(* The page that is read: the next of a ranking, or always the first one.      *)
LEMMA PageShows ==
  ASSUME QueriesInv, call.op = "read", call.step = "page", ReadWhy = {}, NEW ranking \in Seq(Doc)
  PROVE  /\ Goes_on => execute(ranking) = Slice(ranking, Limit, call.offset)
         /\ ~Goes_on => /\ call.number = 1 /\ call.start = 0 /\ call.offset = 0 /\ call.shown = <<>>
                        /\ call.mode \in {"page", "paginate"}
                        /\ call.mode = "page" => execute(ranking) = Slice(ranking, DefaultLimit, 0)
                                                 /\ Cardinality(Found(call.filter)) <= DefaultLimit
                        /\ call.mode = "paginate" => execute(ranking) = Slice(ranking, Limit, 0)
<1>1. /\ QueriesType /\ call \in CallType /\ Paged /\ call.mode \in {"offset", "page", "paginate"}
      /\ call.start > 0 => call.mode = "offset"
  BY DEF QueriesInv, ReadSoFar, CallType
<1>2. /\ call.start \in Nat /\ call.offset \in Nat /\ call.number \in Nat /\ Limit \in Nat \ {0} /\ DefaultLimit \in Nat \ {0}
      /\ call.number >= 1 /\ call.offset = call.start + (call.number - 1) * Limit
      /\ call.number = 1 => call.shown = <<>>
  BY <1>1, LimitAssumption DEF CallType, Paged
<1>3. /\ call.number > 1 => call.mode # "paginate" /\ ~(call.mode = "page" /\ index.engine # "meilisearch")
      /\ call.mode = "page" /\ index.engine # "meilisearch" => Cardinality(Found(call.filter)) <= DefaultLimit
      /\ index.engine = "typesense" => call.offset % Limit = 0
  BY <1>1, ReadWhyIs
<1>4. CASE call.mode = "offset"
 <2>1. execute(ranking) = Page(ranking, Limit, call.offset)
   BY <1>4 DEF execute
 <2>2. index.engine # "typesense" \/ (call.offset \div Limit) * Limit = call.offset
   BY <1>2, <1>3, Divides
 <2>3. Page(ranking, Limit, call.offset) = Slice(ranking, Limit, call.offset)
   BY <1>1, <1>2, <2>2, PageIs
 <2> QED
   BY <1>4, <2>1, <2>3 DEF Goes_on
<1>5. CASE call.mode = "page" /\ index.engine = "meilisearch"
 <2>1. call.start = 0
   BY <1>1, <1>2, <1>5
 <2>2. call.offset = (call.number - 1) * Limit
  <3> DEFINE k == (call.number - 1) * Limit
  <3>1. k \in Int
    BY <1>2
  <3>2. call.offset = 0 + k
    BY <1>2, <2>1
  <3> HIDE DEF k
  <3>3. call.offset = k
    BY <3>1, <3>2
  <3> QED
    BY <3>3 DEF k
 <2>3. execute(ranking) = Page(ranking, Limit, call.offset)
   BY <1>5, <2>2 DEF execute
 <2>4. Page(ranking, Limit, call.offset) = Slice(ranking, Limit, call.offset)
   BY <1>1, <1>2, <1>5, PageIs
 <2> QED
   BY <1>5, <2>3, <2>4 DEF Goes_on
<1>6. CASE call.mode = "paginate" \/ (call.mode = "page" /\ index.engine # "meilisearch")
 <2>1. call.number = 1 /\ call.start = 0 /\ call.shown = <<>>
  <3>1. ~(call.number > 1)
    BY <1>3, <1>6
  <3>2. call.number = 1
    BY <1>2, <3>1
  <3>3. ~(call.start > 0)
    BY <1>1, <1>6
  <3> QED
    BY <1>2, <3>2, <3>3
 <2>2. call.offset = 0
  <3>1. (1 - 1) * Limit = 0
    BY <1>2
  <3> QED
    BY <1>2, <2>1, <3>1
 <2>3. (0 \div Limit) * Limit = 0 /\ (0 \div DefaultLimit) * DefaultLimit = 0
   BY <1>2
 <2>4. Page(ranking, Limit, 0) = Slice(ranking, Limit, 0) /\ Page(ranking, DefaultLimit, 0) = Slice(ranking, DefaultLimit, 0)
   BY <1>1, <1>2, <2>3, PageIs
 <2>5. call.mode = "page" /\ index.engine # "meilisearch" => execute(ranking) = Page(ranking, DefaultLimit, 0)
   BY DEF execute
 <2>6. call.mode = "paginate" => execute(ranking) = Page(ranking, Limit, 0)
   BY DEF execute
 <2>7. ~Goes_on
   BY <1>6 DEF Goes_on
 <2> QED
   BY <1>3, <1>6, <2>1, <2>2, <2>4, <2>5, <2>6, <2>7
<1> QED
  BY <1>1, <1>4, <1>5, <1>6

LEMMA ReadPageStep ==
  ASSUME QueriesInv, ReadPage
  PROVE  QueriesInv' /\ RemovesRight
<1> DEFINE f == call.filter
           found == Found(f)
           n == Cardinality(found)
           sort == call.sort
           start == call.start
           o == call.offset
           number == call.number
<1>1. PICK ranking \in Rankings(found, sort, FALSE) :
        LET hits == execute(ranking)
            more == IF call.mode = "paginate" THEN call.number < num_pages(Len(ranking))
                    ELSE Len(hits) = Limit
        IN call' = [call EXCEPT !.shown = @ \o hits, !.number = @ + 1, !.offset = @ + Limit,
                      !.step = IF more /\ call.number <= Cardinality(Doc) THEN "page" ELSE "done",
                      !.why = @ \cup ReadWhy]
  BY DEF ReadPage
<1> DEFINE hits == execute(ranking)
           more == IF call.mode = "paginate" THEN number < num_pages(n) ELSE Len(hits) = Limit
           goes == more /\ number <= Cardinality(Doc)
           shown == call.shown \o hits
           why == call.why \cup ReadWhy
<1>2. /\ call.op = "read" /\ call.step = "page" /\ ~Refuses(f, sort) /\ UNCHANGED <<index, docs>> /\ QueriesType
      /\ call \in CallType /\ ReadSoFar
  BY DEF ReadPage, QueriesInv
<1>3. QueriesType' /\ CallType' = CallType
  BY <1>2 DEF QueriesType, CallType
<1>4. /\ f \in FilterOf(index.field) /\ sort \in {"none", "asc", "desc"} /\ start \in Nat /\ o \in Nat /\ number \in Nat
      /\ call.shown \in Seq(Doc) /\ call.why \in SUBSET Cause /\ Limit \in Nat \ {0} /\ DefaultLimit \in Nat \ {0}
  BY <1>2, LimitAssumption DEF CallType
<1>5. /\ Strays(index.engine, index.field, f) \subseteq call.why /\ Paged
      /\ call.mode # "none" /\ (start > 0 => call.mode = "offset")
      /\ (number > 1 /\ call.why = {} /\ Goes_on) => ReadSome
  BY <1>2 DEF ReadSoFar
<1>6. /\ number >= 1 /\ number - 1 <= o /\ o = start + (number - 1) * Limit
      /\ number = 1 => call.shown = <<>>
  BY <1>5 DEF Paged
<1>7. ranking \in Rankings(found, sort, FALSE)
  BY <1>1
<1>8. found \in SUBSET There /\ FALSE \in BOOLEAN
  BY DEF Found
<1>9. /\ ranking \in SetToSeqs(found) /\ ranking \in Seq(Doc) /\ Len(ranking) = n
 <2> HIDE DEF found
 <2> QED
   BY <1>2, <1>4, <1>7, <1>8, RankingsAre
<1>10. IsFiniteSet(found) /\ n \in Nat /\ n <= Cardinality(Doc) /\ Cardinality(Doc) \in Nat
 <2>1. IsFiniteSet(found) /\ n \in Nat /\ n <= Cardinality(Doc)
  <3> HIDE DEF found
  <3> QED
    BY <1>2, <1>8, ThereFinite
 <2> QED
   BY <2>1, DocAssumption, FS_CardinalityType
<1>11. hits \in Seq(Doc)
 <2>1. ASSUME NEW limit \in Nat \ {0}, NEW k \in Nat PROVE Page(ranking, limit, k) \in Seq(Doc)
  <3> DEFINE q == [ranking |-> ranking, matched |-> <<>>, limit |-> limit, offset |-> k, text |-> FALSE, marked |-> FALSE]
             m == (k \div limit) * limit
  <3>1. m \in Nat
   <4>1. k \div limit \in Nat
     OBVIOUS
   <4> QED
     BY <4>1
  <3>2. CASE index.engine = "typesense"
   <4>1. Page(ranking, limit, k) = Slice(ranking, limit, m)
     BY <3>2 DEF Page, backend_search, typesense_search, Answer
   <4> HIDE DEF m
   <4> QED
     BY <1>9, <3>1, <4>1, SliceIs
  <3>3. CASE index.engine # "typesense"
   <4>1. Page(ranking, limit, k) = Slice(ranking, limit, k)
     BY <1>2, <1>9, <3>3, PageIs
   <4> QED
     BY <1>9, <4>1, SliceIs
  <3> QED
    BY <3>2, <3>3
 <2>2. CASE call.mode = "offset"
   BY <1>4, <2>1, <2>2 DEF execute
 <2>3. CASE call.mode = "paginate"
   BY <1>4, <2>1, <2>3 DEF execute
 <2>4. CASE call.mode = "page"
  <3>1. (number - 1) * Limit \in Nat
    BY <1>4, <1>6
  <3>2. hits \in {Page(ranking, Limit, (number - 1) * Limit), Page(ranking, DefaultLimit, 0)}
    BY <2>4 DEF execute
  <3> HIDE DEF hits
  <3> QED
    BY <1>4, <2>1, <3>1, <3>2
 <2>5. call.mode \in {"none", "offset", "page", "paginate"}
   BY <1>2 DEF CallType
 <2> QED
   BY <1>5, <2>2, <2>3, <2>4, <2>5
<1>12. call' = [call EXCEPT !.shown = shown, !.number = number + 1, !.offset = o + Limit,
                            !.step = IF goes THEN "page" ELSE "done", !.why = why]
 <2>1. Len(ranking) = n
   BY <1>9
 <2> HIDE DEF hits, found, n
 <2> QED
   BY <1>1, <1>2, <2>1 DEF CallType, hits, found
<1>13. shown \in Seq(Doc) /\ why \in SUBSET Cause
 <2>1. ReadWhy \subseteq Cause
   BY Zenon DEF ReadWhy, Cause, Stray
 <2>2. shown \in Seq(Doc)
  <3> HIDE DEF hits
  <3> QED
    BY <1>4, <1>11, ConcatProperties
 <2> HIDE DEF shown
 <2> QED
   BY <1>4, <2>1, <2>2
<1> HIDE DEF goes, shown, why
<1>14. /\ call' \in CallType /\ call'.op = "read" /\ call'.step = IF goes THEN "page" ELSE "done"
       /\ call'.shown = shown /\ call'.number = number + 1 /\ call'.offset = o + Limit /\ call'.why = why /\ call'.filter = f
       /\ call'.sort = sort /\ call'.mode = call.mode /\ call'.start = start
 <2>1. o + Limit \in Nat /\ number + 1 \in Nat /\ (IF goes THEN "page" ELSE "done") \in {"page", "done"}
   BY <1>4
 <2>2. call' \in CallType
   BY <1>2, <1>12, <1>13, <2>1 DEF CallType
 <2> QED
   BY <1>2, <1>12, <2>2 DEF CallType
<1>15. why = {} => call.why = {} /\ ReadWhy = {}
  BY DEF why
<1>16. /\ Found(call.filter)' = found /\ Cardinality(Found(call.filter))' = n
       /\ Rankings(Found(call.filter), call.sort, FALSE)' = Rankings(found, sort, FALSE)
 <2>1. call'.filter = call.filter
   BY <1>14
 <2>2. Found(call.filter)' = found
   BY <1>2, <2>1 DEF Found, There
 <2>3. Cardinality(Found(call.filter))' = n
  <3> HIDE DEF found
  <3> QED
    BY <2>2
 <2>4. Rankings(Found(call.filter), call.sort, FALSE)' = Rankings(found, sort, FALSE)
  <3>1. docs' = docs /\ index' = index /\ call'.sort = call.sort
    BY <1>2, <1>14
  <3> HIDE DEF hits, found
  <3> QED
    BY <2>2, <3>1 DEF Rankings, EngineOrder, Precedes, Tied
 <2> QED
   BY <2>2, <2>3, <2>4
<1> HIDE DEF hits, found, n, o, number, start, f, sort
<1>17. ASSUME why = {}, Goes_on
       PROVE  /\ start > n => shown = <<>> /\ ~goes
              /\ start <= n => /\ Follows(shown, ranking, start)
                               /\ goes => o + Limit <= n /\ Len(shown) = (o + Limit) - start
                               /\ ~goes => Len(shown) = n - start
 <2>1. call.why = {} /\ ReadWhy = {}
   BY <1>15, <1>17
 <2>2. hits = Slice(ranking, Limit, o)
   BY <1>2, <1>9, <1>17, <2>1, PageShows DEF hits, o
 <2>3. Len(hits) = IF o + Limit < n THEN Limit ELSE IF o < n THEN n - o ELSE 0
   BY <1>4, <1>9, <2>2, SliceIs
 <2>4. Follows(hits, ranking, o)
   BY <1>4, <1>9, <2>2, SliceIs DEF Follows
 <2>5. Len(hits) \in Nat /\ Len(call.shown) \in Nat
   BY <1>4, <1>11, LenProperties
 <2>6. (number - 1) * Limit \in Nat /\ start <= o /\ (number = 1 => o = start)
  <3> DEFINE k == (number - 1) * Limit
  <3>1. k \in Nat
    BY <1>4, <1>6
  <3>2. number = 1 => k = 0
    BY <1>4
  <3>3. o = start + k
    BY <1>6
  <3> HIDE DEF k
  <3>4. start <= o /\ (number = 1 => o = start)
    BY <1>4, <3>1, <3>2, <3>3
  <3> QED
    BY <3>1, <3>4 DEF k
 <2>7. /\ number > 1 => o <= n
       /\ o <= n => Follows(call.shown, ranking, start) /\ Len(call.shown) = o - start
  <3>1. CASE number = 1
   <4>1. call.shown = <<>> /\ o = start
     BY <1>6, <2>6, <3>1
   <4>2. Len(call.shown) = 0
     BY <4>1
   <4>3. Follows(call.shown, ranking, start)
     BY <4>2 DEF Follows
   <4>4. o - start = 0
     BY <1>4, <4>1
   <4> QED
     BY <3>1, <4>2, <4>3, <4>4
  <3>2. CASE number # 1
   <4>1. number > 1
     BY <1>4, <1>6, <3>2
   <4>2. ReadSome
     BY <1>5, <1>17, <2>1, <4>1
   <4>3. o <= n /\ \E r \in Rankings(found, sort, FALSE) : Shows(call.shown, r, start, o)
     BY <4>2 DEF ReadSome, o, n, found, f, sort, start
   <4>4. PICK r \in Rankings(found, sort, FALSE) : Shows(call.shown, r, start, o)
     BY <4>3
   <4>5. index.engine # "postgres" \/ NoTies(found, sort)
    <5>1. call.number > 1
      BY <4>1 DEF number
    <5> QED
      BY <1>2, <2>1, <5>1, ReadWhyIs DEF found, f, sort
   <4>6. r = ranking
    <5>1. r \in Rankings(found, sort, FALSE)
      BY <4>4
    <5> QED
     <6>1. QueriesType /\ found \in SUBSET There /\ sort \in {"none", "asc", "desc"}
       BY <1>2, <1>4, <1>8
     <6>2. \A a, b \in Rankings(found, sort, FALSE) : a = b
       BY <4>5, <6>1, OneRanking
     <6> QED
       BY <1>7, <5>1, <6>2
   <4>7. (IF o < n THEN o ELSE n) = o
     BY <1>4, <1>10, <4>3
   <4> QED
     BY <1>9, <4>3, <4>4, <4>6, <4>7 DEF Shows, Follows
  <3> QED
    BY <3>1, <3>2
 <2>8. more <=> Len(hits) = Limit
   BY <1>17 DEF Goes_on
 <2>9. Len(hits) = Limit => o + Limit <= n
   BY <1>4, <1>10, <2>3
 <2>10. Len(hits) = Limit => number <= Cardinality(Doc)
   BY <1>4, <1>6, <1>10, <2>9
 <2>11. goes <=> Len(hits) = Limit
   BY <2>8, <2>10 DEF goes
 <2>12. CASE start > n
  <3>1. ~(o <= n) /\ ~(number > 1)
    BY <1>4, <1>10, <2>6, <2>7, <2>12
  <3>2. number = 1 /\ call.shown = <<>>
    BY <1>4, <1>6, <3>1
  <3>3. Len(hits) = 0 /\ Len(hits) # Limit
    BY <1>4, <1>10, <2>3, <3>1
  <3>4. hits = <<>>
    BY <1>11, <3>3, EmptySeq
  <3>5. shown = <<>>
    BY <3>2, <3>4 DEF shown
  <3> QED
    BY <1>4, <1>10, <2>11, <2>12, <3>3, <3>5
 <2>13. CASE start <= n
  <3>1. o <= n
    BY <1>4, <1>6, <2>6, <2>7, <2>13
  <3>2. Follows(call.shown, ranking, start) /\ Len(call.shown) = o - start
    BY <2>7, <3>1
  <3>3. Len(shown) = (o - start) + Len(hits) /\ Follows(shown, ranking, start)
    BY <1>4, <1>11, <2>4, <2>6, <3>2, ShownOn DEF shown
  <3>4. goes => o + Limit <= n /\ Len(shown) = (o + Limit) - start
    BY <1>4, <1>10, <2>5, <2>9, <2>11, <3>3
  <3>5. ~goes => Len(shown) = n - start
   <4>1. ~goes => Len(hits) = n - o
     BY <1>4, <1>10, <2>3, <2>11, <3>1
   <4> QED
     BY <1>4, <1>10, <3>3, <4>1
  <3> QED
    BY <1>4, <1>10, <2>13, <3>3, <3>4, <3>5
 <2> QED
   BY <1>4, <1>10, <2>12, <2>13
<1>18. ASSUME why = {}, ~Goes_on, ~goes
       PROVE  start = 0 /\ Follows(shown, ranking, 0) /\ Len(shown) = n
 <2>1. call.why = {} /\ ReadWhy = {}
   BY <1>15, <1>18
 <2>2. /\ number = 1 /\ start = 0 /\ call.shown = <<>> /\ call.mode \in {"page", "paginate"}
       /\ call.mode = "page" => hits = Slice(ranking, DefaultLimit, 0) /\ n <= DefaultLimit
       /\ call.mode = "paginate" => hits = Slice(ranking, Limit, 0)
   BY <1>2, <1>9, <1>18, <2>1, PageShows DEF hits, n, found, f, number, start
 <2>3. ASSUME NEW limit \in Nat \ {0}, hits = Slice(ranking, limit, 0), n <= limit
       PROVE  Len(hits) = n /\ Follows(hits, ranking, 0)
  <3>1. Len(hits) = IF 0 + limit < n THEN limit ELSE IF 0 < n THEN n - 0 ELSE 0
    BY <1>9, <2>3, SliceIs
  <3>2. Follows(hits, ranking, 0)
    BY <1>9, <2>3, SliceIs DEF Follows
  <3> QED
    BY <1>10, <2>3, <3>1, <3>2
 <2>4. CASE call.mode = "page"
  <3>1. Len(hits) = n /\ Follows(hits, ranking, 0)
    BY <1>4, <2>2, <2>3, <2>4
  <3>2. shown = hits
    BY <1>11, <2>2 DEF shown
  <3> QED
    BY <2>2, <3>1, <3>2
 <2>5. CASE call.mode = "paginate"
  <3>1. n <= Limit
   <4>1. CASE number <= Cardinality(Doc)
    <5>1. ~(1 < num_pages(n))
      BY <1>18, <2>2, <2>5, <4>1 DEF goes
    <5> QED
      BY <1>4, <1>10, <5>1, OnePage
   <4>2. CASE ~(number <= Cardinality(Doc))
     BY <1>4, <1>10, <2>2, <4>2
   <4> QED
     BY <4>1, <4>2
  <3>2. Len(hits) = n /\ Follows(hits, ranking, 0)
    BY <1>4, <2>2, <2>3, <2>5, <3>1
  <3>3. shown = hits
    BY <1>11, <2>2 DEF shown
  <3> QED
    BY <2>2, <3>2, <3>3
 <2> QED
   BY <2>2, <2>4, <2>5
<1>19. Paged'
 <2>1. (number + 1) - 1 = number /\ number + 1 >= 1 /\ number <= o + Limit
   BY <1>4, <1>6
 <2>2. o + Limit = start + number * Limit
  <3> DEFINE a == (number - 1) * Limit
             b == number * Limit
  <3>1. a + Limit = b /\ a \in Int /\ b \in Int
    BY <1>4
  <3>2. o = start + a
    BY <1>6
  <3> HIDE DEF a, b
  <3>3. o + Limit = start + b
    BY <1>4, <3>1, <3>2
  <3> QED
    BY <3>3 DEF b
 <2>3. number + 1 # 1
   BY <1>4, <1>6
 <2> QED
   BY <1>14, <2>1, <2>2, <2>3 DEF Paged
<1>20. Goes_on' <=> Goes_on
  BY <1>2, <1>14 DEF Goes_on
<1>22. ASSUME why = {}, Goes_on, goes PROVE ReadSome'
 <2>1. start <= n /\ Follows(shown, ranking, start) /\ o + Limit <= n /\ Len(shown) = (o + Limit) - start
   BY <1>4, <1>10, <1>17, <1>22
 <2>2. (IF o + Limit < n THEN o + Limit ELSE n) = o + Limit
   BY <1>4, <1>10, <2>1
 <2>3. Shows(shown, ranking, start, o + Limit)
   BY <1>9, <2>1, <2>2 DEF Shows, Follows
 <2>4. \E r \in Rankings(found, sort, FALSE) : Shows(shown, r, start, o + Limit)
   BY <1>7, <2>3
 <2> QED
  <3>1. \E r \in Rankings(Found(call.filter), call.sort, FALSE)' : Shows(call'.shown, r, call'.start, call'.offset)
    BY <1>14, <1>16, <2>4
  <3>2. call'.offset <= Cardinality(Found(call.filter))'
    BY <1>14, <1>16, <2>1
  <3> QED
    BY <3>1, <3>2 DEF ReadSome, Shows
<1>23. ASSUME why = {}, ~goes PROVE ReadAll'
 <2>1. CASE Goes_on /\ start > n
  <3>1. shown = <<>>
    BY <1>17, <1>23, <2>1
  <3> QED
    BY <1>14, <1>16, <2>1, <3>1 DEF ReadAll
 <2>2. CASE ~(Goes_on /\ start > n)
  <3>1. start <= n /\ Follows(shown, ranking, start) /\ Len(shown) = n - start
    BY <1>4, <1>10, <1>17, <1>18, <1>23, <2>2
  <3>2. Shows(shown, ranking, start, n)
    BY <1>9, <3>1 DEF Shows, Follows
  <3>3. \E r \in Rankings(found, sort, FALSE) : Shows(shown, r, start, n)
    BY <1>7, <3>2
  <3>4. ~(start > n)
    BY <1>4, <1>10, <3>1
  <3> QED
    BY <1>14, <1>16, <3>3, <3>4 DEF ReadAll, Shows
 <2> QED
   BY <2>1, <2>2
<1>24. ASSUME why = {} PROVE ValuesLast'
 <2>1. ValuesLast
   BY <1>2, <1>15, <1>24, ReadWhyIs
 <2>2. sort = "none" \/ \A d \in found : AsSorted(d, sort)
   BY <2>1 DEF ValuesLast, found, f, sort
 <2> QED
   BY <1>2, <1>14, <1>16, <2>2 DEF ValuesLast, AsSorted
<1>25. ~Refuses(call.filter, call.sort)'
  BY <1>2, <1>14 DEF Refuses
<1>26. ReadSoFar'
 <2>1. (Strays(index.engine, index.field, call.filter) \subseteq call.why)'
   BY <1>2, <1>5, <1>14 DEF why
 <2>2. (call.mode # "none" /\ (call.start > 0 => call.mode = "offset"))'
   BY <1>5, <1>14
 <2>3. call'.step = "page" => goes
   BY <1>14
 <2>4. call'.step = "done" => ~goes
   BY <1>14
 <2> QED
   BY <1>14, <1>19, <1>20, <1>22, <1>23, <1>24, <1>25, <2>1, <2>2, <2>3, <2>4 DEF ReadSoFar
<1> QED
  BY <1>2, <1>3, <1>14, <1>26 DEF QueriesInv, Collected, SideBySide, RemovesRight

(* ---------------------- the theorems about searches ---------------------- *)

LEMMA QueriesInitInv == QueriesInit => QueriesInv
<1> SUFFICES ASSUME QueriesInit PROVE QueriesInv
  OBVIOUS
<1>1. index \in [engine : Backend, field : Field] /\ docs \in InitDocs[index.field] /\ call = Idle
  BY DEF QueriesInit
<1>2. docs \in [Doc -> Present(index.field) \cup {Gone}]
 <2>1. index.field \in Field
   BY <1>1
 <2>2. InitDocs[index.field] \subseteq [Doc -> Values(index.field) \cup {Null, Absent, Gone}]
   BY <2>1, InitDocsAssumption
 <2>3. Values(index.field) \cup {Null, Absent, Gone} = Present(index.field) \cup {Gone}
   BY DEF Present
 <2> QED
   BY <1>1, <2>2, <2>3
<1>3. call \in CallType /\ call.op = "none"
  BY <1>1, IdleType DEF Idle
<1> QED
  BY <1>1, <1>2, <1>3 DEF QueriesInv, QueriesType, Collected, ReadSoFar, SideBySide

LEMMA QueriesStep ==
  ASSUME QueriesInv, QueriesNext
  PROVE  QueriesInv' /\ RemovesRight
<1>1. ASSUME NEW f \in AnyFilter({"dict", "native"}), Delete(f) PROVE QueriesInv' /\ RemovesRight
  BY <1>1, DeleteStep
<1>2. CASE CollectPage
  BY <1>2, CollectPageStep
<1>3. CASE DeleteIds
  BY <1>3, DeleteIdsStep
<1>4. CASE DeleteNative
  BY <1>4, DeleteNativeStep
<1>5. CASE DeleteRefused
  BY <1>5, FailedStep DEF DeleteRefused
<1>6. ASSUME NEW d \in Doc, NEW v \in Values(index.field) \cup {Null, Gone}, Write(d, v) PROVE QueriesInv' /\ RemovesRight
  BY <1>6, WriteStep
<1>7. ASSUME NEW f \in AnyFilter({"dict", "list", "none"}), NEW sort \in {"none", "asc", "desc"},
             NEW mode \in {"offset", "page", "paginate"}, NEW start \in 0..1, Read(f, sort, mode, start)
      PROVE  QueriesInv' /\ RemovesRight
  BY <1>7, ReadStep
<1>8. CASE ReadPage
  BY <1>8, ReadPageStep
<1>9. CASE ReadRefused
  BY <1>9, FailedStep DEF ReadRefused
<1>10. ASSUME NEW f \in AnyFilter({"dict", "none"}), NEW sort \in {"none", "desc"}, NEW text \in BOOLEAN, NEW marked \in BOOLEAN,
              NEW boost \in BOOLEAN, NEW pins \in PinLists, Merchandised(f, sort, text, marked, pins, boost)
       PROVE  QueriesInv' /\ RemovesRight
  BY <1>10, MerchandisedStep
<1>11. CASE EngineSearch
  BY <1>11, EngineSearchStep
<1>12. CASE SearchRefused
  BY <1>12, FailedStep DEF SearchRefused
<1>13. CASE apply_pins
  BY <1>13, PinStep
<1>14. CASE apply_boosts
  BY <1>14, BoostStep
<1>15. ASSUME \E f \in {g \in AnyFilter({"dict", "none"}) : g.c.op = "is"}, sort \in {"none", "desc"}, text, marked, boost \in BOOLEAN,
                 pins \in PinLists : Merchandised(f, sort, text, marked, pins, boost)
       PROVE  QueriesInv' /\ RemovesRight
  BY <1>10, <1>15
<1>16. ASSUME \E f \in AnyFilter({"dict", "list", "none"}), sort \in {"none", "asc", "desc"},
                 mode \in {"offset", "page", "paginate"}, start \in 0..1 : Read(f, sort, mode, start)
       PROVE  QueriesInv' /\ RemovesRight
  BY <1>7, <1>16
<1> QED
  BY <1>1, <1>2, <1>3, <1>4, <1>5, <1>6, <1>8, <1>9, <1>11, <1>12, <1>13, <1>14, <1>15, <1>16 DEF QueriesNext

LEMMA QueriesBoxed == QueriesInv /\ [QueriesNext]_queriesVars => QueriesInv' /\ [RemovesRight]_queriesVars
<1>1. ASSUME QueriesInv, QueriesNext PROVE QueriesInv' /\ RemovesRight
  BY <1>1, QueriesStep
<1>2. ASSUME QueriesInv, UNCHANGED queriesVars PROVE QueriesInv'
  BY <1>2, QueriesStutter
<1> QED
  BY <1>1, <1>2

(* The state of a call that deletes, reads or searches, in every execution.    *)
THEOREM QueriesInvariant == QueriesSpec => []QueriesInv
<1>1. QueriesInv /\ [QueriesNext]_queriesVars => QueriesInv'
  BY QueriesBoxed
<1> QED
  BY <1>1, QueriesInitInv, PTL DEF QueriesSpec

(* A deletion by filter removes what matched from its start to its end, and    *)
(* nothing that did not match, but for the reasons the call has on record.     *)
THEOREM QueriesDeletesRight == QueriesSpec => DeletesRight
<1>1. QueriesInv /\ [QueriesNext]_queriesVars => [RemovesRight]_queriesVars
  BY QueriesBoxed
<1>2. QueriesSpec => [][RemovesRight]_queriesVars
  BY <1>1, QueriesInvariant, PTL DEF QueriesSpec
<1> QED
  BY <1>2 DEF DeletesRight, RemovesRight

LEMMA PagesInOrder == QueriesInv => PagesRight
<1> DEFINE f == call.filter
           wanted == Wanted(f)
           found == Found(f)
           n == Cardinality(found)
           shown == call.shown
           start == call.start
           sort == call.sort
<1> SUFFICES ASSUME QueriesInv, call.op = "read", call.step = "done", call.why = {}
             PROVE  /\ Range(shown) \subseteq wanted
                    /\ start <= Cardinality(wanted) => Len(shown) + start = Cardinality(wanted)
                    /\ \A i, j \in DOMAIN shown : i < j =>
                         /\ shown[i] # shown[j]
                         /\ sort # "none" => ~Before("asked", sort, docs[shown[j]], docs[shown[i]])
  BY DEF PagesRight
<1>1. /\ QueriesType /\ f \in FilterOf(index.field) /\ shown \in Seq(Doc) /\ start \in Nat /\ sort \in {"none", "asc", "desc"}
  BY DEF QueriesInv, CallType
<1>2. Strays(index.engine, index.field, f) = {} /\ ~Refuses(f, sort) /\ ValuesLast /\ ReadAll
  BY DEF QueriesInv, ReadSoFar
<1>3. found = wanted
  BY <1>1, <1>2, FoundIsWanted DEF Refuses
<1>4. found \in SUBSET There /\ IsFiniteSet(found) /\ n \in Nat
 <2>1. found \in SUBSET There
   BY DEF Found
 <2> HIDE DEF found
 <2> QED
   BY <1>1, <2>1, ThereFinite
<1>5. DOMAIN shown = 1..Len(shown) /\ Len(shown) \in Nat
  BY <1>1, LenProperties
<1>6. CASE start > n
 <2>1. shown = <<>>
   BY <1>2, <1>6 DEF ReadAll
 <2>2. DOMAIN shown = {} /\ Range(shown) = {}
   BY <2>1 DEF Range
 <2>3. ~(start <= Cardinality(wanted))
  <3> HIDE DEF wanted, found
  <3> QED
    BY <1>1, <1>3, <1>4, <1>6
 <2> QED
   BY <2>2, <2>3
<1>7. CASE ~(start > n)
 <2>1. \E r \in Rankings(found, sort, FALSE) : Shows(shown, r, start, n)
   BY <1>2, <1>7 DEF ReadAll
 <2>2. PICK ranking \in Rankings(found, sort, FALSE) : Shows(shown, ranking, start, n)
   BY <2>1
 <2>3. ranking \in Rankings(found, sort, FALSE)
   BY <2>2
 <2>4. sort = "none" \/ \A d \in found : AsSorted(d, sort)
   BY <1>2 DEF ValuesLast
 <2> HIDE DEF found, sort
 <2>5. ranking \in SetToSeqs(found) /\ Len(ranking) = n /\ \A i \in 1..n : ranking[i] \in found
   BY <1>1, <1>4, <2>3, RankingsAre
 <2>6. \A i, j \in 1..n : ranking[i] = ranking[j] => i = j
   BY <1>4, <2>5, ListOfSet
 <2>7. Len(shown) = n - start /\ \A i \in 1..Len(shown) : shown[i] = ranking[start + i]
  <3>1. (IF n < n THEN n ELSE n) = n
    OBVIOUS
  <3> QED
    BY <2>2, <2>5, <3>1 DEF Shows
 <2>8. ASSUME NEW i \in 1..Len(shown) PROVE start + i \in 1..n
  <3> HIDE DEF n, shown, start
  <3> QED
    BY <1>1, <1>4, <1>5, <2>7
 <2>9. Range(shown) \subseteq found
   BY <1>5, <2>5, <2>7, <2>8 DEF Range
 <2>10. Len(shown) + start = n
  <3> HIDE DEF n, shown, start
  <3> QED
    BY <1>1, <1>4, <1>5, <2>7
 <2>11. ASSUME NEW i \in 1..Len(shown), NEW j \in 1..Len(shown), i < j
        PROVE  shown[i] # shown[j] /\ (sort # "none" => ~Before("asked", sort, docs[shown[j]], docs[shown[i]]))
  <3>1. start + i \in 1..n /\ start + j \in 1..n /\ start + i < start + j
   <4>1. start + i \in 1..n /\ start + j \in 1..n
     BY <2>8
   <4> HIDE DEF start
   <4> QED
     BY <1>1, <2>11, <4>1
  <3>2. shown[i] = ranking[start + i] /\ shown[j] = ranking[start + j]
    BY <2>7
  <3> DEFINE k == start + i
             m == start + j
  <3>3. k \in 1..n /\ m \in 1..n /\ k < m /\ shown[i] = ranking[k] /\ shown[j] = ranking[m]
    BY <3>1, <3>2
  <3> HIDE DEF k, m
  <3>4. shown[i] # shown[j]
   <4> HIDE DEF n
   <4>1. k # m
     BY <1>4, <3>3
   <4> QED
     BY <2>6, <3>3, <4>1
  <3>5. ASSUME sort # "none" PROVE ~Before("asked", sort, docs[ranking[m]], docs[ranking[k]])
   <4>1. sort \in {"asc", "desc"} /\ \A d \in found : AsSorted(d, sort)
     BY <1>1, <2>4, <3>5
   <4> QED
     BY <1>1, <1>4, <2>3, <3>3, <4>1, RankingInOrder
  <3> QED
    BY <3>3, <3>4, <3>5
 <2> QED
   BY <1>3, <1>5, <2>9, <2>10, <2>11
<1> QED
  BY <1>6, <1>7

(* The pages a caller reads one after the other show what the filter asks for, *)
(* each document once and in the order of the sort, but for the reasons on     *)
(* record.                                                                     *)
THEOREM QueriesPagesRight == QueriesSpec => []PagesRight
BY QueriesInvariant, PagesInOrder, PTL

(* After any pins and boosts scores and highlights still belong to their hits, *)
(* and no hit is there twice, but for the reasons on record.                   *)
THEOREM QueriesHitsAligned == QueriesSpec => []HitsAligned
BY QueriesInvariant, AlignedHits, PTL

(* ------------------------------ finite sums ------------------------------ *)

(* What holds for a finite set when it holds for every subset whose members    *)
(* can each be left out with what is left in N.                                *)
LEMMA OneMore ==
  ASSUME NEW S, IsFiniteSet(S), NEW N \in SUBSET (SUBSET S),
         \A T \in SUBSET S : (\A x \in T : T \ {x} \in N) => T \in N
  PROVE  N = SUBSET S
<1> DEFINE I == {n \in 0..Cardinality(S) : \E T \in SUBSET S : T \notin N /\ Cardinality(T) = n}
<1>1. SUFFICES ASSUME N # SUBSET S PROVE FALSE
  OBVIOUS
<1>2. \A T \in SUBSET S : IsFiniteSet(T) /\ Cardinality(T) \in 0..Cardinality(S)
  BY FS_Subset, FS_CardinalityType
<1>3. PICK T0 \in SUBSET S : T0 \notin N
  BY <1>1
<1>4. I \in SUBSET Nat /\ IsFiniteSet(I) /\ I # {}
 <2>1. Cardinality(T0) \in I
   BY <1>2, <1>3
 <2>2. I \subseteq 0..Cardinality(S) /\ Cardinality(S) \in Nat
   BY FS_CardinalityType
 <2>3. IsFiniteSet(0..Cardinality(S))
   BY <2>2, FS_Interval
 <2> HIDE DEF I
 <2>4. IsFiniteSet(I)
   BY <2>2, <2>3, FS_Subset
 <2>5. 0..Cardinality(S) \subseteq Nat
   BY <2>2
 <2> QED
   BY <2>1, <2>2, <2>4, <2>5
<1>5. PICK i \in I : \A j \in I : i <= j
 <2> HIDE DEF I
 <2> QED
   BY <1>4, LeastOf
<1>6. PICK T \in SUBSET S : T \notin N /\ Cardinality(T) = i
  BY <1>5
<1>7. ASSUME NEW x \in T PROVE T \ {x} \in N
 <2>1. Cardinality(T \ {x}) = Cardinality(T) - 1
   BY <1>2, <1>6, FS_RemoveElement
 <2>2. Cardinality(T \ {x}) < i /\ T \ {x} \in SUBSET S
   BY <1>2, <1>6, <2>1
 <2> QED
   BY <1>2, <1>5, <2>2
<1> QED
  BY <1>6, <1>7

(* h adds up the values of F, member by member.                                *)
AddsUp(h, F, S) ==
  h = [T \in SUBSET S |-> IF T = {} THEN 0 ELSE LET x == CHOOSE x \in T : TRUE IN F[x] + h[T \ {x}]]

LEMMA SumIs ==
  ASSUME NEW F, NEW S
  PROVE  SumFunctionOnSet(F, S) = (CHOOSE h : AddsUp(h, F, S))[S]
BY DEF SumFunctionOnSet, FoldFunctionOnSet, MapThenFoldSet, AddsUp

LEMMA CardinalityLess ==
  ASSUME NEW S, IsFiniteSet(S)
  PROVE  /\ \A T \in SUBSET S : IsFiniteSet(T) /\ Cardinality(T) \in Nat /\ Cardinality(T) <= Cardinality(S)
         /\ \A T \in SUBSET S : T = {} <=> Cardinality(T) = 0
         /\ \A T \in SUBSET S : \A x \in T : Cardinality(T \ {x}) = Cardinality(T) - 1
BY FS_Subset, FS_CardinalityType, FS_EmptySet, FS_RemoveElement

LEMMA SumExists ==
  ASSUME NEW S, IsFiniteSet(S), NEW F, \A x \in S : F[x] \in Nat
  PROVE  \E h \in [SUBSET S -> Nat] : AddsUp(h, F, S)
<1> DEFINE Value(h, U) == IF U = {} THEN 0 ELSE LET x == CHOOSE x \in U : TRUE IN F[x] + h[U \ {x}]
           Good(T, h) == \A U \in SUBSET S : Cardinality(U) <= Cardinality(T) => h[U] = Value(h, U)
           N == {T \in SUBSET S : \E h \in [SUBSET S -> Nat] : Good(T, h)}
<1>1. ASSUME NEW T \in SUBSET S, \A x \in T : T \ {x} \in N PROVE T \in N
 <2>1. CASE T = {}
  <3> DEFINE h == [U \in SUBSET S |-> 0]
  <3>1. h \in [SUBSET S -> Nat]
    OBVIOUS
  <3>2. Cardinality(T) = 0
    BY <2>1, CardinalityLess
  <3>3. \A U \in SUBSET S : Cardinality(U) <= Cardinality(T) => U = {}
    BY <3>2, CardinalityLess
  <3>4. Good(T, h)
    BY <3>3
  <3> QED
    BY <3>1, <3>4
 <2>2. CASE T # {}
  <3>1. PICK y \in T : TRUE
    BY <2>2
  <3>2. PICK h \in [SUBSET S -> Nat] : Good(T \ {y}, h)
    BY <1>1, <3>1
  <3> DEFINE n == Cardinality(T)
             g == [U \in SUBSET S |-> IF Cardinality(U) = n THEN Value(h, U) ELSE h[U]]
  <3>3. n \in Nat /\ Cardinality(T \ {y}) = n - 1 /\ n # 0
    BY <2>2, CardinalityLess
  <3>4. ASSUME NEW U \in SUBSET S, U # {}
        PROVE  /\ (CHOOSE x \in U : TRUE) \in U
               /\ U \ {CHOOSE x \in U : TRUE} \in SUBSET S
               /\ Cardinality(U \ {CHOOSE x \in U : TRUE}) = Cardinality(U) - 1
   <4>1. (CHOOSE x \in U : TRUE) \in U
     BY <3>4
   <4> QED
     BY <4>1, CardinalityLess
  <3>5. \A U \in SUBSET S : Value(h, U) \in Nat
   <4>1. SUFFICES ASSUME NEW U \in SUBSET S, U # {} PROVE Value(h, U) \in Nat
     BY DEF Value
   <4>2. F[CHOOSE x \in U : TRUE] \in Nat /\ h[U \ {CHOOSE x \in U : TRUE}] \in Nat
     BY <3>2, <3>4, <4>1
   <4> QED
     BY <4>1, <4>2
  <3>6. g \in [SUBSET S -> Nat]
    BY <3>2, <3>5
  <3>7. ASSUME NEW U \in SUBSET S, Cardinality(U) <= n PROVE g[U] = Value(g, U)
   <4>1. CASE U = {}
    <5>1. Cardinality(U) = 0
      BY <4>1, CardinalityLess
    <5>2. g[U] = h[U]
      BY <3>3, <5>1
    <5>3. h[U] = Value(h, U)
      BY <3>2, <3>3, <5>1
    <5> QED
      BY <4>1, <5>2, <5>3
   <4>2. CASE U # {}
    <5> DEFINE c == CHOOSE x \in U : TRUE
    <5>1. c \in U /\ U \ {c} \in SUBSET S /\ Cardinality(U \ {c}) = Cardinality(U) - 1 /\ Cardinality(U) \in Nat
      BY <3>4, <4>2, CardinalityLess
    <5>2. g[U \ {c}] = h[U \ {c}]
      BY <3>3, <3>7, <5>1
    <5>3. Value(g, U) = Value(h, U)
      BY <4>2, <5>2
    <5>4. CASE Cardinality(U) = n
      BY <5>3, <5>4
    <5>5. CASE Cardinality(U) # n
     <6>1. Cardinality(U) <= Cardinality(T \ {y})
       BY <3>3, <3>7, <5>1, <5>5
     <6>2. h[U] = Value(h, U)
       BY <3>2, <6>1
     <6> QED
       BY <5>3, <5>5, <6>2
    <5> QED
      BY <5>4, <5>5
   <4> QED
     BY <4>1, <4>2
  <3> QED
    BY <3>6, <3>7
 <2> QED
   BY <2>1, <2>2
<1>2. N \in SUBSET (SUBSET S)
  OBVIOUS
<1>3. S \in N
 <2> HIDE DEF N
 <2>1. \A T \in SUBSET S : (\A x \in T : T \ {x} \in N) => T \in N
   BY <1>1
 <2>2. N = SUBSET S
   BY <1>2, <2>1, OneMore
 <2> QED
   BY <2>2
<1>4. PICK h \in [SUBSET S -> Nat] : Good(S, h)
  BY <1>3
<1>5. \A U \in SUBSET S : h[U] = Value(h, U)
  BY <1>4, CardinalityLess
<1>6. h = [U \in SUBSET S |-> h[U]]
  BY <1>4
<1>7. h = [U \in SUBSET S |-> Value(h, U)]
 <2> HIDE DEF Value
 <2> QED
   BY <1>5, <1>6
<1>8. AddsUp(h, F, S)
  BY <1>7 DEF AddsUp
<1> QED
  BY <1>4, <1>8

LEMMA AddsUpAt ==
  ASSUME NEW S, NEW F, NEW h, AddsUp(h, F, S), NEW U \in SUBSET S
  PROVE  /\ U = {} => h[U] = 0
         /\ U # {} => \E x \in U : x = (CHOOSE y \in U : TRUE) /\ h[U] = F[x] + h[U \ {x}]
<1> DEFINE g == [T \in SUBSET S |-> IF T = {} THEN 0 ELSE LET x == CHOOSE x \in T : TRUE IN F[x] + h[T \ {x}]]
<1>1. h = g
  BY DEF AddsUp
<1>2. h[U] = g[U]
  BY <1>1
<1>3. CASE U = {}
  BY <1>2, <1>3
<1>4. CASE U # {}
 <2>1. (CHOOSE y \in U : TRUE) \in U
   BY <1>4
 <2> QED
   BY <1>2, <1>4, <2>1
<1> QED
  BY <1>3, <1>4

LEMMA AddsUpSame ==
  ASSUME NEW S, NEW T \in SUBSET S, IsFiniteSet(S), NEW F, NEW g, NEW h, AddsUp(g, F, S), AddsUp(h, F, T)
  PROVE  \A U \in SUBSET T : g[U] = h[U]
<1> DEFINE N == {U \in SUBSET T : g[U] = h[U]}
<1>1. ASSUME NEW U \in SUBSET T, \A x \in U : U \ {x} \in N PROVE g[U] = h[U]
 <2>1. CASE U = {}
   BY <2>1, AddsUpAt
 <2>2. CASE U # {}
  <3>1. PICK x \in U : x = (CHOOSE y \in U : TRUE) /\ g[U] = F[x] + g[U \ {x}]
    BY <2>2, AddsUpAt
  <3>2. PICK z \in U : z = (CHOOSE y \in U : TRUE) /\ h[U] = F[z] + h[U \ {z}]
    BY <2>2, AddsUpAt
  <3>3. x = z /\ g[U \ {x}] = h[U \ {x}]
    BY <1>1, <3>1, <3>2
  <3> QED
    BY <3>1, <3>2, <3>3
 <2> QED
   BY <2>1, <2>2
<1>2. N \in SUBSET (SUBSET T) /\ IsFiniteSet(T)
  BY FS_Subset
<1>3. \A U \in SUBSET T : (\A x \in U : U \ {x} \in N) => U \in N
  BY <1>1
<1>4. N = SUBSET T
 <2> HIDE DEF N
 <2> QED
   BY <1>2, <1>3, OneMore
<1> QED
  BY <1>4

Numbers(F, S) == IsFiniteSet(S) /\ \A x \in S : F[x] \in Nat

LEMMA SumTable ==
  ASSUME NEW F, NEW S, Numbers(F, S)
  PROVE  \E h \in [SUBSET S -> Nat] : AddsUp(h, F, S) /\ \A U \in SUBSET S : SumFunctionOnSet(F, U) = h[U]
<1>1. PICK h \in [SUBSET S -> Nat] : AddsUp(h, F, S)
  BY SumExists DEF Numbers
<1>2. ASSUME NEW U \in SUBSET S PROVE SumFunctionOnSet(F, U) = h[U]
 <2>1. IsFiniteSet(U) /\ \A x \in U : F[x] \in Nat
   BY FS_Subset DEF Numbers
 <2>2. \E g : AddsUp(g, F, U)
   BY <2>1, SumExists
 <2> DEFINE g == CHOOSE g : AddsUp(g, F, U)
 <2>3. AddsUp(g, F, U)
   BY <2>2
 <2>4. SumFunctionOnSet(F, U) = g[U]
   BY SumIs
 <2>5. IsFiniteSet(S)
   BY DEF Numbers
 <2> HIDE DEF g
 <2> QED
   BY <1>1, <2>3, <2>4, <2>5, AddsUpSame
<1> QED
  BY <1>1, <1>2

(* A sum of numbers is a number; that over nothing is 0; any member's number   *)
(* can be taken out.                                                           *)
LEMMA SumStep ==
  ASSUME NEW F, NEW S, Numbers(F, S)
  PROVE  /\ \A T \in SUBSET S : SumFunctionOnSet(F, T) \in Nat
         /\ SumFunctionOnSet(F, {}) = 0
         /\ \A T \in SUBSET S : \A x \in T : SumFunctionOnSet(F, T) = F[x] + SumFunctionOnSet(F, T \ {x})
<1>1. PICK h \in [SUBSET S -> Nat] : AddsUp(h, F, S) /\ \A U \in SUBSET S : SumFunctionOnSet(F, U) = h[U]
  BY SumTable
<1>2. \A T \in SUBSET S : SumFunctionOnSet(F, T) \in Nat
  BY <1>1
<1>3. SumFunctionOnSet(F, {}) = 0
 <2>1. {} \in SUBSET S
   OBVIOUS
 <2> QED
   BY <1>1, <2>1, AddsUpAt
<1> DEFINE N == {T \in SUBSET S : \A x \in T : h[T] = F[x] + h[T \ {x}]}
<1>4. ASSUME NEW T \in SUBSET S, \A x \in T : T \ {x} \in N, NEW x \in T PROVE h[T] = F[x] + h[T \ {x}]
 <2>1. PICK z \in T : h[T] = F[z] + h[T \ {z}]
   BY <1>1, AddsUpAt
 <2>2. CASE x = z
   BY <2>1, <2>2
 <2>3. CASE x # z
  <3>1. h[T \ {z}] = F[x] + h[(T \ {z}) \ {x}]
    BY <1>4, <2>3
  <3>2. h[T \ {x}] = F[z] + h[(T \ {x}) \ {z}]
    BY <1>4, <2>3
  <3>3. (T \ {z}) \ {x} = (T \ {x}) \ {z}
    OBVIOUS
  <3> DEFINE k == h[(T \ {z}) \ {x}]
  <3>4. F[x] \in Nat /\ F[z] \in Nat /\ k \in Nat
    BY <1>1 DEF Numbers
  <3>5. h[T] = F[z] + (F[x] + k) /\ h[T \ {x}] = F[z] + k
    BY <2>1, <3>1, <3>2, <3>3
  <3> HIDE DEF k
  <3> QED
    BY <3>4, <3>5
 <2> QED
   BY <2>2, <2>3
<1>5. N \in SUBSET (SUBSET S) /\ \A T \in SUBSET S : (\A x \in T : T \ {x} \in N) => T \in N
  BY <1>4
<1>6. N = SUBSET S
 <2>1. IsFiniteSet(S)
   BY DEF Numbers
 <2> HIDE DEF N
 <2> QED
   BY <1>5, <2>1, OneMore
<1>7. \A T \in SUBSET S : \A x \in T : h[T] = F[x] + h[T \ {x}]
  BY <1>6
<1>8. ASSUME NEW T \in SUBSET S, NEW x \in T PROVE SumFunctionOnSet(F, T) = F[x] + SumFunctionOnSet(F, T \ {x})
 <2>1. T \ {x} \in SUBSET S
   OBVIOUS
 <2> QED
   BY <1>1, <1>7, <2>1
<1> QED
  BY <1>2, <1>3, <1>8

(* What is nowhere more adds up to no more.                                    *)
LEMMA SumLess ==
  ASSUME NEW F, NEW G, NEW S, Numbers(F, S), Numbers(G, S), \A x \in S : F[x] <= G[x]
  PROVE  SumFunctionOnSet(F, S) <= SumFunctionOnSet(G, S)
<1> DEFINE f(T) == SumFunctionOnSet(F, T)
           g(T) == SumFunctionOnSet(G, T)
           N == {T \in SUBSET S : f(T) <= g(T)}
<1>1. /\ \A T \in SUBSET S : f(T) \in Nat /\ g(T) \in Nat
      /\ f({}) = 0 /\ g({}) = 0
      /\ \A T \in SUBSET S : \A x \in T : f(T) = F[x] + f(T \ {x})
      /\ \A T \in SUBSET S : \A x \in T : g(T) = G[x] + g(T \ {x})
 <2>1. /\ \A T \in SUBSET S : f(T) \in Nat
       /\ f({}) = 0
       /\ \A T \in SUBSET S : \A x \in T : f(T) = F[x] + f(T \ {x})
   BY SumStep
 <2>2. /\ \A T \in SUBSET S : g(T) \in Nat
       /\ g({}) = 0
       /\ \A T \in SUBSET S : \A x \in T : g(T) = G[x] + g(T \ {x})
   BY SumStep
 <2> QED
   BY <2>1, <2>2
<1> HIDE DEF f, g
<1>2. ASSUME NEW T \in SUBSET S, \A x \in T : T \ {x} \in N PROVE f(T) <= g(T)
 <2>1. CASE T = {}
   BY <1>1, <2>1
 <2>2. CASE T # {}
  <3>1. PICK x \in T : TRUE
    BY <2>2
  <3>2. T \ {x} \in SUBSET S /\ f(T \ {x}) <= g(T \ {x}) /\ F[x] <= G[x] /\ F[x] \in Nat /\ G[x] \in Nat
    BY <1>2, <3>1 DEF Numbers
  <3>3. f(T) = F[x] + f(T \ {x}) /\ g(T) = G[x] + g(T \ {x}) /\ f(T \ {x}) \in Nat /\ g(T \ {x}) \in Nat
    BY <1>1, <3>2
  <3> QED
    BY <3>2, <3>3
 <2> QED
   BY <2>1, <2>2
<1>3. N \in SUBSET (SUBSET S) /\ \A T \in SUBSET S : (\A x \in T : T \ {x} \in N) => T \in N
  BY <1>2
<1>4. N = SUBSET S
 <2>1. IsFiniteSet(S)
   BY DEF Numbers
 <2> HIDE DEF N
 <2> QED
   BY <1>3, <2>1, OneMore
<1> QED
  BY <1>4 DEF f, g

(* The members' numbers are in the sum.                                        *)
LEMMA SumHolds ==
  ASSUME NEW F, NEW S, Numbers(F, S)
  PROVE  /\ SumFunctionOnSet(F, S) \in Nat
         /\ \A x \in S : F[x] <= SumFunctionOnSet(F, S)
         /\ SumFunctionOnSet(F, S) > 0 => \E x \in S : F[x] > 0
<1>1. SumFunctionOnSet(F, S) \in Nat
  BY SumStep
<1>2. ASSUME NEW x \in S PROVE F[x] <= SumFunctionOnSet(F, S)
 <2>1. SumFunctionOnSet(F, S) = F[x] + SumFunctionOnSet(F, S \ {x}) /\ SumFunctionOnSet(F, S \ {x}) \in Nat
   BY SumStep
 <2>2. F[x] \in Nat
   BY DEF Numbers
 <2> QED
   BY <2>1, <2>2
<1>3. ASSUME \A x \in S : ~(F[x] > 0) PROVE SumFunctionOnSet(F, S) = 0
 <2>1. CASE S = {}
   BY <2>1, SumStep
 <2>2. ASSUME NEW T \in SUBSET S, T # {}, NEW x \in T PROVE F[x] = 0
   BY <1>3 DEF Numbers
 <2> DEFINE N == {T \in SUBSET S : SumFunctionOnSet(F, T) = 0}
 <2>3. ASSUME NEW T \in SUBSET S, \A x \in T : T \ {x} \in N PROVE SumFunctionOnSet(F, T) = 0
  <3>1. CASE T = {}
    BY <3>1, SumStep
  <3>2. CASE T # {}
   <4>1. PICK x \in T : TRUE
     BY <3>2
   <4>2. SumFunctionOnSet(F, T) = F[x] + SumFunctionOnSet(F, T \ {x})
     BY <4>1, SumStep
   <4>3. SumFunctionOnSet(F, T \ {x}) = 0 /\ F[x] = 0
     BY <2>2, <2>3, <4>1
   <4> QED
     BY <4>2, <4>3
  <3> QED
    BY <3>1, <3>2
 <2>4. N \in SUBSET (SUBSET S) /\ \A T \in SUBSET S : (\A x \in T : T \ {x} \in N) => T \in N
   BY <2>3
 <2>5. N = SUBSET S
  <3>1. IsFiniteSet(S)
    BY DEF Numbers
  <3> HIDE DEF N
  <3> QED
    BY <2>4, <3>1, OneMore
 <2> QED
   BY <2>5
<1> QED
  BY <1>1, <1>2, <1>3

(* --------------------------- what commands do ---------------------------- *)

RunFields ==
  {"op", "at", "scope", "day", "todo", "alone", "delete", "read", "forms",
   "before", "stats", "recent", "clicked", "result", "whole"}

Suggestion == [from : Query, to : Query, of : SUBSET Tenant]
Rewrite == [tenant : Tenant, from : Query, to : Query, active : BOOLEAN, of : SUBSET Tenant, alone : BOOLEAN]
CountsType == [Day -> [Tenant -> [Query -> [total : Nat, zero : Nat]]]]

StepsOf(op) ==
  CASE op = "none" -> {"done"}
    [] op = "learn" -> {"check", "create"}
    [] op = "roll" -> {"group", "delete"}
    [] op = "weeks" -> {"weeks", "clicked", "rows", "done"}
    [] op = "stats" -> {"stats", "pairs", "done"}
    [] op = "searches" -> {"searches", "ratio", "done"}
    [] op = "top" -> {"top", "topratio", "done"}

RunType(r) ==
  /\ r = [x \in RunFields |-> r[x]]
  /\ r.op \in {"none", "learn", "roll"} \cup Report /\ r.at \in StepsOf(r.op)
  /\ r.scope \in Tenant /\ r.day \in Day /\ r.todo \in Seq(Suggestion) /\ r.alone \in BOOLEAN
  /\ r.delete \in BOOLEAN /\ r.read \in [Form -> Nat] /\ r.forms \in SUBSET Form
  /\ r.op = "learn" => r.todo # <<>>

IntelligenceType ==
  /\ dep \in Deployments /\ today \in Day
  /\ content \in [Tenant -> SUBSET Query]
  /\ counts \in CountsType
  /\ rewrites \in Seq(Rewrite)
  /\ clicks \in [Day -> [Form -> [raw : Nat, agg : Nat, made : Nat]]]
  /\ emptied \in SUBSET Day
  /\ spoilt \in [Day -> SUBSET {"between", "overlap", "again"}]
  /\ counted \in SUBSET (Tenant \X Query) /\ changed \in SUBSET counted
  /\ run = [c \in Command |-> run[c]]
  /\ \A c \in Command : RunType(run[c])

(* What a roll-up has read is what was made, or less; the groups it has done   *)
(* with are written. Of a day that nothing spoilt, one command at most is at   *)
(* work, before any row was deleted, and no click came since it began.         *)
RollHolds(r) ==
  /\ \A f \in Form : r.read[f] <= clicks[r.day][f].made
  /\ r.at = "delete" => r.delete /\ r.forms = {}
  /\ spoilt[r.day] = {} =>
       /\ r.day \notin emptied
       /\ \A f \in Form : /\ f \notin r.forms => r.read[f] <= clicks[r.day][f].agg
                          /\ r.delete => r.read[f] = clicks[r.day][f].made

ClicksInv ==
  /\ \A d \in Day, f \in Form :
       LET k == clicks[d][f] IN
       /\ k.agg <= k.made /\ k.raw <= k.made
       /\ d \notin emptied => k.raw = k.made
       /\ spoilt[d] = {} => k.made <= k.agg + k.raw
  /\ \A c \in Command : Running(c) /\ run[c].op = "roll" => RollHolds(run[c])
  /\ \A c, o \in Command : \A d \in Day : Rolls(c, d) /\ Rolls(o, d) /\ spoilt[d] = {} => c = o

NoRollBegins ==
  \A c \in Command : (Running(c) /\ run[c].op = "roll")' =>
    /\ Running(c) /\ run[c].op = "roll"
    /\ run[c].day = run'[c].day /\ run[c].at = run'[c].at /\ run[c].delete = run'[c].delete
    /\ run[c].read = run'[c].read /\ run[c].forms = run'[c].forms

LEMMA NoRollKeeps ==
  ASSUME IntelligenceType, ClicksInv, NoRollBegins, UNCHANGED <<clicks, emptied, spoilt>>
  PROVE  ClicksInv'
<1>1. ASSUME NEW c \in Command, (Running(c) /\ run[c].op = "roll")'
      PROVE  /\ Running(c) /\ run[c].op = "roll"
             /\ run[c].day = run'[c].day /\ run[c].at = run'[c].at /\ run[c].delete = run'[c].delete
             /\ run[c].read = run'[c].read /\ run[c].forms = run'[c].forms
  BY <1>1 DEF NoRollBegins
<1>2. ASSUME NEW c \in Command, (Running(c) /\ run[c].op = "roll")' PROVE RollHolds(run[c])'
  BY <1>1, <1>2 DEF ClicksInv, RollHolds
<1>3. ASSUME NEW c \in Command, NEW d \in Day, Rolls(c, d)' PROVE Rolls(c, d)
  BY <1>1, <1>3 DEF Rolls, Running
<1>4. ASSUME NEW d \in Day, NEW f \in Form
      PROVE  LET k == clicks'[d][f] IN
             /\ k.agg <= k.made /\ k.raw <= k.made
             /\ d \notin emptied' => k.raw = k.made
             /\ spoilt'[d] = {} => k.made <= k.agg + k.raw
  BY DEF ClicksInv
<1>5. ASSUME NEW c \in Command, NEW o \in Command, NEW d \in Day, Rolls(c, d)', Rolls(o, d)', spoilt'[d] = {} PROVE c = o
  BY <1>3, <1>5 DEF ClicksInv
<1> QED
  BY <1>2, <1>4, <1>5 DEF ClicksInv

(* One command goes on; the others do what they did.                           *)
LEMMA DoesOne ==
  ASSUME NEW c \in Command, NEW r, Does(c, r), run = [o \in Command |-> run[o]]
  PROVE  run'[c] = r /\ run' = [o \in Command |-> run'[o]] /\ \A o \in Command \ {c} : run'[o] = run[o]
BY DEF Does

LEMMA NoRunType == RunType(NoRun)
<1>1. NoRun = [x \in RunFields |-> NoRun[x]]
  BY DEF NoRun, RunFields
<1>2. 0 \in Day /\ "" \in Tenant /\ <<>> \in Seq(Suggestion)
  BY MaxDayAssumption DEF Day, Tenant
<1> QED
  BY <1>1, <1>2 DEF RunType, NoRun, StepsOf

LEMMA Steps ==
  ASSUME NEW r, RunType(r)
  PROVE  /\ r.at \in {"check", "create"} <=> r.op = "learn"
         /\ r.at \in {"group", "delete"} <=> r.op = "roll"
         /\ r.at \in {"weeks", "clicked", "rows"} => r.op = "weeks"
         /\ r.at \in {"stats", "pairs"} => r.op = "stats"
         /\ r.at \in {"searches", "ratio"} => r.op = "searches"
         /\ r.at \in {"top", "topratio"} => r.op = "top"
<1>1. r.op \in {"none", "learn", "roll", "weeks", "stats", "searches", "top"} /\ r.at \in StepsOf(r.op)
  BY DEF RunType, Report
<1>2. CASE r.op = "none"
  BY <1>1, <1>2 DEF StepsOf
<1>3. CASE r.op = "learn"
  BY <1>1, <1>3 DEF StepsOf
<1>4. CASE r.op = "roll"
  BY <1>1, <1>4 DEF StepsOf
<1>5. CASE r.op = "weeks"
  BY <1>1, <1>5 DEF StepsOf
<1>6. CASE r.op = "stats"
  BY <1>1, <1>6 DEF StepsOf
<1>7. CASE r.op = "searches"
  BY <1>1, <1>7 DEF StepsOf
<1>8. CASE r.op = "top"
  BY <1>1, <1>8 DEF StepsOf
<1> QED
  BY <1>1, <1>2, <1>3, <1>4, <1>5, <1>6, <1>7, <1>8

LEMMA StepsAre ==
  /\ StepsOf("learn") = {"check", "create"}
  /\ StepsOf("roll") = {"group", "delete"}
  /\ StepsOf("weeks") = {"weeks", "clicked", "rows", "done"}
  /\ StepsOf("stats") = {"stats", "pairs", "done"}
  /\ StepsOf("searches") = {"searches", "ratio", "done"}
  /\ StepsOf("top") = {"top", "topratio", "done"}
BY DEF StepsOf

(* A report goes on.                                                           *)
Reports(c) ==
  \E r : RunType(r) /\ r.op \in Report /\ Does(c, r)

LEMMA ReportsOn ==
  ASSUME NEW c \in Command, IntelligenceType,
         \/ BeginReport(c) \/ ReadWeeks(c) \/ ReadClicked(c) \/ ReadRows(c) \/ ReadStats(c)
         \/ ReadPairs(c) \/ ReadSearches(c) \/ ReadRatio(c) \/ ReadTop(c) \/ ReadTopRatio(c)
  PROVE  /\ Reports(c)
         /\ UNCHANGED <<dep, today, content, counts, rewrites, clicks, emptied, spoilt, counted, narrowed, changed>>
<1> DEFINE r == run[c]
<1>1. RunType(r) /\ r = [x \in RunFields |-> r[x]] /\ NoRun = [x \in RunFields |-> NoRun[x]] /\ today \in Day
  BY NoRunType DEF IntelligenceType, RunType
<1>2. ASSUME NEW s, NEW q, RunType(q), s = [x \in RunFields |-> s[x]],
             s.op = q.op, s.at \in StepsOf(q.op), s.scope = q.scope, s.day = q.day, s.todo = q.todo, s.alone = q.alone,
             s.delete = q.delete, s.read = q.read, s.forms = q.forms
      PROVE  RunType(s)
  BY <1>2 DEF RunType
<1>3. CASE BeginReport(c)
 <2>1. PICK scope \in Tenant, first \in Report :
         Does(c, [NoRun EXCEPT !.op = first, !.scope = scope, !.day = today, !.at = first, !.before = counts])
   BY <1>3 DEF BeginReport
 <2> DEFINE s == [NoRun EXCEPT !.op = first, !.scope = scope, !.day = today, !.at = first, !.before = counts]
 <2>2. first \in StepsOf(first)
   BY StepsAre DEF Report
 <2>3. s = [x \in RunFields |-> s[x]] /\ s.op = first /\ s.scope = scope /\ s.day = today /\ s.at = first
       /\ s.todo = NoRun.todo /\ s.alone = NoRun.alone /\ s.delete = NoRun.delete /\ s.read = NoRun.read
       /\ s.forms = NoRun.forms
   BY DEF NoRun, RunFields
 <2> HIDE DEF s
 <2>4. RunType(s) /\ s.op \in Report
   BY <1>1, <2>2, <2>3, NoRunType DEF RunType, Report
 <2> QED
   BY <1>3, <2>1, <2>4 DEF Reports, BeginReport, s
<1> HIDE DEF r
<1>4. ASSUME NEW s, s = [x \in RunFields |-> s[x]], r.op \in Report, s.at \in StepsOf(r.op),
             \A x \in RunFields \ {"at", "before", "stats", "recent", "clicked", "result"} : s[x] = r[x],
             Does(c, s)
      PROVE  Reports(c)
 <2>1. RunType(s) /\ s.op = r.op
   BY <1>1, <1>2, <1>4 DEF RunFields
 <2> QED
   BY <1>4, <2>1 DEF Reports
<1>5. ASSUME NEW result, r.op \in Report, Reported(c, r, result) PROVE Reports(c)
 <2> DEFINE s == [r EXCEPT !.at = "done", !.result = result]
 <2>1. s = [x \in RunFields |-> s[x]] /\ s.at = "done"
       /\ \A x \in RunFields \ {"at", "before", "stats", "recent", "clicked", "result"} : s[x] = r[x]
   BY <1>1 DEF RunFields
 <2>2. Does(c, s) /\ "done" \in StepsOf(r.op)
   BY <1>5, StepsAre DEF Reported, Report
 <2> HIDE DEF s
 <2> QED
   BY <1>4, <1>5, <2>1, <2>2
<1>6. CASE ReadWeeks(c)
 <2>1. r.at = "weeks" /\ r.op = "weeks" /\ r.op \in Report
   BY <1>6, <1>1, Steps DEF ReadWeeks, Report, r
 <2>2. \E v : Does(c, [r EXCEPT !.at = "clicked", !.recent = v])
   BY <1>6 DEF ReadWeeks, r
 <2>3. ASSUME NEW v, Does(c, [r EXCEPT !.at = "clicked", !.recent = v]) PROVE Reports(c)
  <3> DEFINE s == [r EXCEPT !.at = "clicked", !.recent = v]
  <3>1. s = [x \in RunFields |-> s[x]] /\ s.at = "clicked"
        /\ \A x \in RunFields \ {"at", "before", "stats", "recent", "clicked", "result"} : s[x] = r[x]
    BY <1>1 DEF RunFields
  <3>2. Does(c, s) /\ "clicked" \in StepsOf(r.op)
    BY <2>1, <2>3, StepsAre
  <3> HIDE DEF s
  <3> QED
    BY <1>4, <2>1, <3>1, <3>2
 <2> QED
   BY <1>5, <1>6, <2>1, <2>2, <2>3 DEF ReadWeeks
<1>7. CASE ReadClicked(c)
 <2>1. r.at = "clicked" /\ r.op = "weeks" /\ r.op \in Report
   BY <1>7, <1>1, Steps DEF ReadClicked, Report, r
 <2>2. \E v : Does(c, [r EXCEPT !.at = "rows", !.clicked = v])
   BY <1>7 DEF ReadClicked, r
 <2>3. ASSUME NEW v, Does(c, [r EXCEPT !.at = "rows", !.clicked = v]) PROVE Reports(c)
  <3> DEFINE s == [r EXCEPT !.at = "rows", !.clicked = v]
  <3>1. s = [x \in RunFields |-> s[x]] /\ s.at = "rows"
        /\ \A x \in RunFields \ {"at", "before", "stats", "recent", "clicked", "result"} : s[x] = r[x]
    BY <1>1 DEF RunFields
  <3>2. Does(c, s) /\ "rows" \in StepsOf(r.op)
    BY <2>1, <2>3, StepsAre
  <3> HIDE DEF s
  <3> QED
    BY <1>4, <2>1, <3>1, <3>2
 <2> QED
   BY <1>5, <1>7, <2>1, <2>2, <2>3 DEF ReadClicked
<1>8. CASE ReadStats(c)
 <2>1. r.at = "stats" /\ r.op = "stats" /\ r.op \in Report
   BY <1>8, <1>1, Steps DEF ReadStats, Report, r
 <2>2. \E v : Does(c, [r EXCEPT !.at = "pairs", !.stats = v])
   BY <1>8 DEF ReadStats, r
 <2>3. ASSUME NEW v, Does(c, [r EXCEPT !.at = "pairs", !.stats = v]) PROVE Reports(c)
  <3> DEFINE s == [r EXCEPT !.at = "pairs", !.stats = v]
  <3>1. s = [x \in RunFields |-> s[x]] /\ s.at = "pairs"
        /\ \A x \in RunFields \ {"at", "before", "stats", "recent", "clicked", "result"} : s[x] = r[x]
    BY <1>1 DEF RunFields
  <3>2. Does(c, s) /\ "pairs" \in StepsOf(r.op)
    BY <2>1, <2>3, StepsAre
  <3> HIDE DEF s
  <3> QED
    BY <1>4, <2>1, <3>1, <3>2
 <2> QED
   BY <1>5, <1>8, <2>1, <2>2, <2>3 DEF ReadStats
<1>9. CASE ReadSearches(c)
 <2>1. r.at = "searches" /\ r.op = "searches" /\ r.op \in Report
   BY <1>9, <1>1, Steps DEF ReadSearches, Report, r
 <2>2. \/ \E result : Reported(c, r, result)
       \/ \E v : Does(c, [r EXCEPT !.at = "ratio", !.stats = v])
   BY <1>9 DEF ReadSearches, r
 <2>3. ASSUME NEW v, Does(c, [r EXCEPT !.at = "ratio", !.stats = v]) PROVE Reports(c)
  <3> DEFINE s == [r EXCEPT !.at = "ratio", !.stats = v]
  <3>1. s = [x \in RunFields |-> s[x]] /\ s.at = "ratio"
        /\ \A x \in RunFields \ {"at", "before", "stats", "recent", "clicked", "result"} : s[x] = r[x]
    BY <1>1 DEF RunFields
  <3>2. Does(c, s) /\ "ratio" \in StepsOf(r.op)
    BY <2>1, <2>3, StepsAre
  <3> HIDE DEF s
  <3> QED
    BY <1>4, <2>1, <3>1, <3>2
 <2> QED
   BY <1>5, <1>9, <2>1, <2>2, <2>3 DEF ReadSearches
<1>10. CASE ReadTop(c)
 <2>1. r.at = "top" /\ r.op = "top" /\ r.op \in Report
   BY <1>10, <1>1, Steps DEF ReadTop, Report, r
 <2>2. \/ \E result : Reported(c, r, result)
       \/ \E v : Does(c, [r EXCEPT !.at = "topratio", !.clicked = v])
   BY <1>10 DEF ReadTop, r
 <2>3. ASSUME NEW v, Does(c, [r EXCEPT !.at = "topratio", !.clicked = v]) PROVE Reports(c)
  <3> DEFINE s == [r EXCEPT !.at = "topratio", !.clicked = v]
  <3>1. s = [x \in RunFields |-> s[x]] /\ s.at = "topratio"
        /\ \A x \in RunFields \ {"at", "before", "stats", "recent", "clicked", "result"} : s[x] = r[x]
    BY <1>1 DEF RunFields
  <3>2. Does(c, s) /\ "topratio" \in StepsOf(r.op)
    BY <2>1, <2>3, StepsAre
  <3> HIDE DEF s
  <3> QED
    BY <1>4, <2>1, <3>1, <3>2
 <2> QED
   BY <1>5, <1>10, <2>1, <2>2, <2>3 DEF ReadTop
<1>11. CASE ReadRows(c)
 <2>1. r.at = "rows" /\ r.op \in Report
   BY <1>11, <1>1, Steps DEF ReadRows, Report, r
 <2>2. \E result : Reported(c, r, result)
   BY <1>11 DEF ReadRows, r
 <2> QED
   BY <1>5, <1>11, <2>1, <2>2 DEF ReadRows
<1>12. CASE ReadPairs(c)
 <2>1. r.at = "pairs" /\ r.op \in Report
   BY <1>12, <1>1, Steps DEF ReadPairs, Report, r
 <2>2. \E result : Reported(c, r, result)
   BY <1>12 DEF ReadPairs, r
 <2> QED
   BY <1>5, <1>12, <2>1, <2>2 DEF ReadPairs
<1>13. CASE ReadRatio(c)
 <2>1. r.at = "ratio" /\ r.op \in Report
   BY <1>13, <1>1, Steps DEF ReadRatio, Report, r
 <2>2. \E result : Reported(c, r, result)
   BY <1>13 DEF ReadRatio, r
 <2> QED
   BY <1>5, <1>13, <2>1, <2>2 DEF ReadRatio
<1>14. CASE ReadTopRatio(c)
 <2>1. r.at = "topratio" /\ r.op \in Report
   BY <1>14, <1>1, Steps DEF ReadTopRatio, Report, r
 <2>2. \E result : Reported(c, r, result)
   BY <1>14 DEF ReadTopRatio, r
 <2> QED
   BY <1>5, <1>14, <2>1, <2>2 DEF ReadTopRatio
<1> QED
  BY <1>3, <1>6, <1>7, <1>8, <1>9, <1>10, <1>11, <1>12, <1>13, <1>14

LEMMA InitIntelligenceType == IntelligenceInit => IntelligenceType
<1> SUFFICES ASSUME IntelligenceInit PROVE IntelligenceType
  OBVIOUS
<1>1. 0 \in Day
  BY MaxDayAssumption DEF Day
<1>2. content \in [Tenant -> SUBSET Query]
 <2>1. PICK d \in Deployments : content \in d.finds
   BY DEF IntelligenceInit
 <2>2. content \in [Tenant -> SUBSET d.queries] /\ d.queries \subseteq Query
   BY <2>1, DeploymentsAssumption
 <2> QED
   BY <2>2
<1>3. counts \in CountsType
  BY DEF IntelligenceInit, CountsType
<1>4. run = [c \in Command |-> run[c]] /\ \A c \in Command : RunType(run[c])
  BY NoRunType DEF IntelligenceInit
<1> QED
  BY <1>1, <1>2, <1>3, <1>4 DEF IntelligenceInit, IntelligenceType

Data == <<dep, today, content, counts, rewrites, clicks, emptied, spoilt, counted, changed>>

LEMMA OneRunType ==
  ASSUME IntelligenceType, NEW c \in Command, NEW r, Does(c, r), RunType(r)
  PROVE  run' = [o \in Command |-> run'[o]] /\ \A o \in Command : RunType(run'[o])
BY DoesOne DEF IntelligenceType

LEMMA ReportsKeep ==
  ASSUME IntelligenceType, NEW c \in Command, Reports(c), UNCHANGED Data
  PROVE  IntelligenceType' /\ NoRollBegins
<1>1. PICK r : RunType(r) /\ r.op \in Report /\ Does(c, r)
  BY DEF Reports
<1>2. run'[c] = r /\ \A o \in Command \ {c} : run'[o] = run[o]
  BY <1>1, DoesOne DEF IntelligenceType
<1>3. r.op # "roll"
  BY <1>1 DEF Report
<1>4. NoRollBegins
  BY <1>2, <1>3 DEF NoRollBegins, Running
<1>5. run' = [o \in Command |-> run'[o]] /\ \A o \in Command : RunType(run'[o])
  BY <1>1, OneRunType
<1> QED
  BY <1>4, <1>5 DEF IntelligenceType, Data

LEMMA GreatestOf ==
  ASSUME NEW I \in SUBSET Nat, IsFiniteSet(I), I # {}
  PROVE  Max(I) \in I /\ \A j \in I : j <= Max(I)
<1> DEFINE N == {T \in SUBSET I : T = {} \/ \E i \in T : \A j \in T : j <= i}
<1>1. ASSUME NEW T \in SUBSET I, \A x \in T : T \ {x} \in N, T # {} PROVE \E i \in T : \A j \in T : j <= i
 <2>1. PICK x \in T : TRUE
   BY <1>1
 <2>2. CASE T \ {x} = {}
  <3>1. \A j \in T : j = x
    BY <2>2
  <3> QED
    BY <3>1
 <2>3. CASE T \ {x} # {}
  <3>1. PICK i \in T \ {x} : \A j \in T \ {x} : j <= i
    BY <1>1, <2>3
  <3>2. i \in Nat /\ x \in Nat /\ \A j \in T : j \in Nat
    OBVIOUS
  <3>3. CASE i <= x
    BY <3>1, <3>2, <3>3
  <3>4. CASE x <= i
    BY <3>1, <3>4
  <3> QED
    BY <3>2, <3>3, <3>4
 <2> QED
   BY <2>2, <2>3
<1>2. N \in SUBSET (SUBSET I) /\ \A T \in SUBSET I : (\A x \in T : T \ {x} \in N) => T \in N
  BY <1>1
<1>3. N = SUBSET I
 <2> HIDE DEF N
 <2> QED
   BY <1>2, OneMore
<1>4. I \in N
  BY <1>3
<1>5. PICK i \in I : \A j \in I : j <= i
  BY <1>4
<1>6. \E i1 \in I : \A j \in I : i1 >= j
  BY <1>5
<1>7. Max(I) \in I /\ \A j \in I : Max(I) >= j
  BY <1>6 DEF Max
<1> QED
  BY <1>7

(* What a search counts.                                                       *)
LEMMA SearchCounts ==
  ASSUME IntelligenceType, Search
  PROVE  \E t \in Tenant, q \in Query, found \in BOOLEAN :
           /\ counts' \in CountsType /\ counted' = counted \cup {<<t, q>>}
           /\ narrowed \subseteq narrowed'
           /\ found => q \in content[t]
           /\ q \in content[t] /\ ~found => <<t, q>> \in narrowed'
           /\ counts'[today][t][q] = [total |-> counts[today][t][q].total + 1,
                                      zero |-> IF found THEN counts[today][t][q].zero
                                               ELSE counts[today][t][q].zero + 1]
           /\ \A d \in Day, u \in Tenant, p \in Query :
                <<d, u, p>> # <<today, t, q>> => counts'[d][u][p] = counts[d][u][p]
<1>1. PICK t \in Tenant, asked \in dep.queries, merchandised \in BOOLEAN, kind \in {"search", "filtered"} :
        /\ Happens(kind)
        /\ merchandised => Matching(t, asked) # {}
        /\ LET q == IF merchandised THEN apply_rewrite(t, asked) ELSE asked IN
           /\ counts' = [counts EXCEPT ![today][t][q].total = @ + 1,
                                       ![today][t][q].zero = IF q \in content[t] /\ kind = "search" THEN @ ELSE @ + 1]
           /\ counted' = counted \cup {<<t, q>>}
           /\ narrowed' = IF kind = "filtered" THEN narrowed \cup {<<t, q>>} ELSE narrowed
        /\ UNCHANGED <<dep, today, content, rewrites, clicks, emptied, spoilt, changed, run>>
  BY Zenon DEF Search
<1>2. asked \in Query
  BY DeploymentsAssumption DEF IntelligenceType
<1>3. merchandised => apply_rewrite(t, asked) \in Query
 <2> SUFFICES ASSUME merchandised PROVE apply_rewrite(t, asked) \in Query
   OBVIOUS
 <2>1. Matching(t, asked) \subseteq 1..Len(rewrites) /\ Len(rewrites) \in Nat
   BY LenProperties DEF Matching, IntelligenceType
 <2>2. IsFiniteSet(1..Len(rewrites))
   BY <2>1, FS_Interval
 <2>3. IsFiniteSet(Matching(t, asked))
   BY <2>1, <2>2, FS_Subset
 <2>4. Matching(t, asked) \in SUBSET Nat
   BY <2>1
 <2>5. Max(Matching(t, asked)) \in 1..Len(rewrites)
   BY <1>1, <2>1, <2>3, <2>4, GreatestOf
 <2>6. rewrites[Max(Matching(t, asked))] \in Rewrite
   BY <2>5, ElementOfSeq DEF IntelligenceType
 <2> QED
   BY <2>6 DEF apply_rewrite, Rewrite
<1> DEFINE q == IF merchandised THEN apply_rewrite(t, asked) ELSE asked
           found == q \in content[t] /\ kind = "search"
<1>4. q \in Query
  BY <1>2, <1>3
<1>5. /\ counts' = [counts EXCEPT ![today][t][q].total = @ + 1,
                                  ![today][t][q].zero = IF found THEN @ ELSE @ + 1]
      /\ counted' = counted \cup {<<t, q>>}
  BY <1>1
<1> HIDE DEF q
<1>a. /\ found \in BOOLEAN /\ narrowed \subseteq narrowed' /\ (found => q \in content[t])
      /\ q \in content[t] /\ ~found => <<t, q>> \in narrowed'
  BY <1>1 DEF q
<1> HIDE DEF found
<1> DEFINE old == counts[today][t][q]
           new == [total |-> old.total + 1, zero |-> IF found THEN old.zero ELSE old.zero + 1]
<1>6. counts \in CountsType /\ today \in Day /\ old \in [total : Nat, zero : Nat]
  BY <1>4 DEF IntelligenceType, CountsType
<1>7. new \in [total : Nat, zero : Nat]
  BY <1>6
<1> DEFINE m == [counts EXCEPT ![today][t][q].total = @ + 1]
           mid == [total |-> old.total + 1, zero |-> old.zero]
<1>8. counts' = [m EXCEPT ![today][t][q].zero = IF found THEN @ ELSE @ + 1]
  BY <1>5
<1> HIDE DEF new
<1>9. /\ m = [d \in Day |-> [u \in Tenant |-> [p \in Query |-> m[d][u][p]]]] /\ m[today][t][q] = mid
      /\ \A d \in Day, u \in Tenant, p \in Query : <<d, u, p>> # <<today, t, q>> => m[d][u][p] = counts[d][u][p]
 <2>1. m = [d \in Day |-> [u \in Tenant |-> [p \in Query |-> m[d][u][p]]]]
  <3>1. m = [d \in Day |-> m[d]]
    BY <1>6 DEF CountsType
  <3>2. ASSUME NEW d \in Day PROVE m[d] = [u \in Tenant |-> m[d][u]]
    BY <1>4, <1>6 DEF CountsType
  <3>3. ASSUME NEW d \in Day, NEW u \in Tenant PROVE m[d][u] = [p \in Query |-> m[d][u][p]]
   <4>1. counts[d][u] = [p \in Query |-> counts[d][u][p]]
     BY <1>6 DEF CountsType
   <4>2. m[d][u] = counts[d][u] \/ \E w : m[d][u] = [counts[d][u] EXCEPT ![q] = w]
     BY <1>4, <1>6 DEF CountsType
   <4> QED
     BY <4>1, <4>2
  <3> HIDE DEF m
  <3>4. ASSUME NEW d \in Day PROVE m[d] = [u \in Tenant |-> [p \in Query |-> m[d][u][p]]]
    BY <3>2, <3>3
  <3> QED
    BY <3>1, <3>4
 <2>2. m[today][t][q] = mid
   BY <1>4, <1>6 DEF CountsType
 <2>3. \A d \in Day, u \in Tenant, p \in Query : <<d, u, p>> # <<today, t, q>> => m[d][u][p] = counts[d][u][p]
   BY <1>4, <1>6 DEF CountsType
 <2> QED
   BY <2>1, <2>2, <2>3
<1> HIDE DEF m, old
<1> DEFINE c2 == [m EXCEPT ![today][t][q].zero = IF found THEN @ ELSE @ + 1]
<1>10. c2[today][t][q] = new
  BY <1>4, <1>6, <1>9 DEF new
<1>11. ASSUME NEW d \in Day, NEW u \in Tenant, NEW p \in Query, <<d, u, p>> # <<today, t, q>>
       PROVE  c2[d][u][p] = counts[d][u][p]
 <2>1. c2[d][u][p] = m[d][u][p]
  <3>1. CASE d # today
    BY <3>1, <1>4, <1>6, <1>9
  <3>2. CASE d = today /\ u # t
    BY <3>2, <1>4, <1>6, <1>9
  <3>3. CASE d = today /\ u = t /\ p # q
    BY <3>3, <1>4, <1>6, <1>9
  <3> QED
    BY <1>11, <3>1, <3>2, <3>3
 <2> QED
   BY <1>9, <1>11, <2>1
<1>12. c2 = [d \in Day |-> [u \in Tenant |-> [p \in Query |-> c2[d][u][p]]]]
 <2>1. c2 = [d \in Day |-> c2[d]]
   BY <1>9
 <2>2. ASSUME NEW d \in Day PROVE c2[d] = [u \in Tenant |-> c2[d][u]]
   BY <1>4, <1>6, <1>9
 <2>3. ASSUME NEW d \in Day, NEW u \in Tenant PROVE c2[d][u] = [p \in Query |-> c2[d][u][p]]
  <3>1. m[d][u] = [p \in Query |-> m[d][u][p]]
   <4>1. m[d] = [v \in Tenant |-> [p \in Query |-> m[d][v][p]]]
     BY <1>9
   <4> QED
     BY <4>1
  <3>2. CASE d = today /\ u = t
   <4>1. \E w : c2[d][u] = [m[d][u] EXCEPT ![q] = w]
     BY <1>4, <1>6, <1>9, <3>2
   <4> QED
     BY <3>1, <4>1
  <3>3. CASE ~(d = today /\ u = t)
   <4>1. c2[d][u] = m[d][u]
    <5>1. CASE d # today
      BY <5>1, <1>9
    <5>2. CASE d = today /\ u # t
      BY <5>2, <1>9
    <5> QED
      BY <3>3, <5>1, <5>2
   <4> QED
     BY <3>1, <4>1
  <3> QED
    BY <3>2, <3>3
 <2> HIDE DEF c2
 <2>4. ASSUME NEW d \in Day PROVE c2[d] = [u \in Tenant |-> [p \in Query |-> c2[d][u][p]]]
   BY <2>2, <2>3
 <2> QED
   BY <2>1, <2>4
<1>13. counts' = c2
  BY <1>8
<1> HIDE DEF c2
<1>14. ASSUME NEW d \in Day, NEW u \in Tenant, NEW p \in Query PROVE c2[d][u][p] \in [total : Nat, zero : Nat]
 <2>1. CASE <<d, u, p>> = <<today, t, q>>
   BY <1>7, <1>10, <2>1
 <2>2. CASE <<d, u, p>> # <<today, t, q>>
   BY <1>6, <1>11, <2>2 DEF CountsType
 <2> QED
   BY <2>1, <2>2
<1>15. c2 \in CountsType
  BY <1>12, <1>14 DEF CountsType
<1>16. /\ counts' \in CountsType /\ counts'[today][t][q] = new
       /\ \A d \in Day, u \in Tenant, p \in Query : <<d, u, p>> # <<today, t, q>> => counts'[d][u][p] = counts[d][u][p]
  BY <1>10, <1>11, <1>13, <1>15
<1>17. new = [total |-> counts[today][t][q].total + 1,
              zero |-> IF found THEN counts[today][t][q].zero ELSE counts[today][t][q].zero + 1]
  BY DEF new, old
<1>18. counted' = counted \cup {<<t, q>>}
  BY <1>5
<1> WITNESS t \in Tenant
<1> WITNESS q \in Query
<1>19. found \in BOOLEAN
  BY <1>a
<1> WITNESS found \in BOOLEAN
<1> QED
  BY <1>a, <1>16, <1>17, <1>18

LEMMA SearchType == ASSUME IntelligenceType, Search PROVE IntelligenceType'
<1>1. PICK t \in Tenant, q \in Query : counts' \in CountsType /\ counted' = counted \cup {<<t, q>>}
  BY SearchCounts
<1> QED
  BY <1>1 DEF IntelligenceType, Search

LEMMA ChangeType == ASSUME IntelligenceType, Change PROVE IntelligenceType'
<1>1. PICK t \in Tenant, q \in dep.queries :
       /\ content' = [content EXCEPT ![t] = IF q \in @ THEN @ \ {q} ELSE @ \cup {q}]
       /\ changed' = changed \cup (counted \cap {<<t, q>>})
  BY DEF Change
<1>2. q \in Query /\ content[t] \in SUBSET Query
  BY DeploymentsAssumption DEF IntelligenceType
<1>3. content' \in [Tenant -> SUBSET Query] /\ changed' \in SUBSET counted
  BY <1>1, <1>2 DEF IntelligenceType
<1> QED
  BY <1>3 DEF IntelligenceType, Change

LEMMA NextDayType == ASSUME IntelligenceType, NextDay PROVE IntelligenceType'
BY MaxDayAssumption DEF IntelligenceType, NextDay, Day

LEMMA ClearType == ASSUME IntelligenceType, clear_query_aggregates PROVE IntelligenceType' /\ NoRollBegins
<1>1. PICK older \in 0..MaxDay :
       counts' = [d \in Day |-> IF d + older < today
                                THEN [t \in Tenant |-> [q \in Query |-> [total |-> 0, zero |-> 0]]]
                                ELSE counts[d]]
  BY DEF clear_query_aggregates
<1>2. counts' \in CountsType
  BY <1>1 DEF IntelligenceType, CountsType
<1>3. run' = [c \in Command |-> [run[c] EXCEPT !.whole = FALSE]]
  BY DEF clear_query_aggregates
<1>4. ASSUME NEW c \in Command
      PROVE  RunType(run'[c]) /\ \A x \in RunFields \ {"whole"} : run'[c][x] = run[c][x]
 <2>1. run'[c] = [run[c] EXCEPT !.whole = FALSE] /\ run[c] = [x \in RunFields |-> run[c][x]]
   BY <1>3 DEF IntelligenceType, RunType
 <2> DEFINE s == [run[c] EXCEPT !.whole = FALSE]
 <2>2. s = [x \in RunFields |-> s[x]] /\ \A x \in RunFields \ {"whole"} : s[x] = run[c][x]
   BY <2>1
 <2>3. run'[c] = s
   BY <2>1
 <2> HIDE DEF s
 <2>4. RunType(run[c])
   BY DEF IntelligenceType
 <2>5. RunType(s)
   BY <2>2, <2>4 DEF RunType, RunFields
 <2> QED
   BY <2>2, <2>3, <2>5
<1>5. run' = [c \in Command |-> run'[c]]
  BY <1>3
<1>6. NoRollBegins
  BY <1>4 DEF NoRollBegins, Running, RunFields
<1> QED
  BY <1>2, <1>4, <1>5, <1>6 DEF IntelligenceType, clear_query_aggregates

(* ------------------------ suggestions from counts ------------------------ *)

LEMMA QueryFinite == IsFiniteSet(Query) /\ \A S \in SUBSET Query : IsFiniteSet(S)
<1>1. ASSUME NEW n \in Nat PROVE IsFiniteSet(1..n)
  BY FS_Interval
<1>2. \A n \in Nat : n = 3 => IsFiniteSet(1..n)
  BY <1>1
<1>3. IsFiniteSet(Query)
  BY <1>2 DEF Query
<1> QED
  BY <1>3, FS_Subset

LEMMA CellsFinite ==
  ASSUME NEW ds \in SUBSET Day, NEW scope \in Tenant
  PROVE  IsFiniteSet(ds) /\ IsFiniteSet(ds \X Scope(scope)) /\ Scope(scope) \in SUBSET Tenant
<1>1. IsFiniteSet(0..MaxDay)
  BY MaxDayAssumption, FS_Interval
<1>2. IsFiniteSet(ds)
  BY <1>1, FS_Subset DEF Day
<1>3. IsFiniteSet({"", "t1"})
 <2>1. IsFiniteSet({}) /\ IsFiniteSet({} \cup {""})
   BY FS_EmptySet, FS_AddElement
 <2>2. IsFiniteSet(({} \cup {""}) \cup {"t1"})
   BY <2>1, FS_AddElement
 <2>3. ({} \cup {""}) \cup {"t1"} = {"", "t1"}
   OBVIOUS
 <2> QED
   BY <2>2, <2>3
<1>4. Scope(scope) \in SUBSET Tenant
  BY DEF Scope
<1>5. IsFiniteSet(Scope(scope))
  BY <1>3, <1>4, FS_Subset DEF Tenant
<1> QED
  BY <1>2, <1>4, <1>5, FS_Product

Totals(cs, ds, scope, q) == [x \in ds \X Scope(scope) |-> cs[x[1]][x[2]][q].total]
Zeros(cs, ds, scope, q) == [x \in ds \X Scope(scope) |-> cs[x[1]][x[2]][q].zero]

(* The figures are sums of numbers.                                            *)
LEMMA FiguresAre ==
  ASSUME NEW cs \in CountsType, NEW ds \in SUBSET Day, NEW scope \in Tenant, NEW q \in Query
  PROVE  /\ Numbers(Totals(cs, ds, scope, q), ds \X Scope(scope))
         /\ Numbers(Zeros(cs, ds, scope, q), ds \X Scope(scope))
         /\ Volume(cs, ds, scope, q) = SumFunctionOnSet(Totals(cs, ds, scope, q), ds \X Scope(scope))
         /\ Zero(cs, ds, scope, q) = SumFunctionOnSet(Zeros(cs, ds, scope, q), ds \X Scope(scope))
<1>1. IsFiniteSet(ds \X Scope(scope)) /\ Scope(scope) \in SUBSET Tenant
  BY CellsFinite
<1>2. ASSUME NEW x \in ds \X Scope(scope) PROVE cs[x[1]][x[2]][q] \in [total : Nat, zero : Nat]
 <2>1. x[1] \in Day /\ x[2] \in Tenant
   BY <1>1
 <2> QED
   BY <2>1 DEF CountsType
<1>3. Numbers(Totals(cs, ds, scope, q), ds \X Scope(scope))
  BY <1>1, <1>2 DEF Numbers, Totals
<1>4. Numbers(Zeros(cs, ds, scope, q), ds \X Scope(scope))
  BY <1>1, <1>2 DEF Numbers, Zeros
<1>5. DOMAIN Totals(cs, ds, scope, q) = ds \X Scope(scope) /\ DOMAIN Zeros(cs, ds, scope, q) = ds \X Scope(scope)
  BY DEF Totals, Zeros
<1>6. Volume(cs, ds, scope, q) = SumFunctionOnSet(Totals(cs, ds, scope, q), DOMAIN Totals(cs, ds, scope, q))
  BY DEF Volume, SumFunction, Totals
<1>7. Zero(cs, ds, scope, q) = SumFunctionOnSet(Zeros(cs, ds, scope, q), DOMAIN Zeros(cs, ds, scope, q))
  BY DEF Zero, SumFunction, Zeros
<1> QED
  BY <1>3, <1>4, <1>5, <1>6, <1>7

LEMMA FiguresHold ==
  ASSUME NEW cs \in CountsType, NEW ds \in SUBSET Day, NEW scope \in Tenant, NEW q \in Query
  PROVE  /\ Volume(cs, ds, scope, q) \in Nat /\ Zero(cs, ds, scope, q) \in Nat
         /\ Zero(cs, ds, scope, q) > 0 => \E d \in ds, t \in Scope(scope) : cs[d][t][q].zero > 0
         /\ Zero(cs, ds, scope, q) < Volume(cs, ds, scope, q) =>
              \E d \in ds, t \in Scope(scope) : cs[d][t][q].zero < cs[d][t][q].total
<1> DEFINE S == ds \X Scope(scope)
           F == Totals(cs, ds, scope, q)
           Z == Zeros(cs, ds, scope, q)
<1>1. /\ Numbers(F, S) /\ Numbers(Z, S)
      /\ Volume(cs, ds, scope, q) = SumFunctionOnSet(F, S) /\ Zero(cs, ds, scope, q) = SumFunctionOnSet(Z, S)
  BY FiguresAre
<1>2. \A x \in S : x[1] \in ds /\ x[2] \in Scope(scope) /\ F[x] = cs[x[1]][x[2]][q].total /\ Z[x] = cs[x[1]][x[2]][q].zero
  BY DEF Totals, Zeros
<1> HIDE DEF F, Z, S
<1>3. SumFunctionOnSet(F, S) \in Nat /\ SumFunctionOnSet(Z, S) \in Nat
  BY <1>1, SumHolds
<1>4. ASSUME SumFunctionOnSet(Z, S) > 0 PROVE \E d \in ds, t \in Scope(scope) : cs[d][t][q].zero > 0
 <2>1. PICK x \in S : Z[x] > 0
   BY <1>1, <1>4, SumHolds
 <2> QED
   BY <1>2, <2>1
<1>5. ASSUME SumFunctionOnSet(Z, S) < SumFunctionOnSet(F, S)
      PROVE  \E d \in ds, t \in Scope(scope) : cs[d][t][q].zero < cs[d][t][q].total
 <2>1. \E x \in S : ~(F[x] <= Z[x])
  <3> SUFFICES ASSUME \A x \in S : F[x] <= Z[x] PROVE FALSE
    OBVIOUS
  <3>1. SumFunctionOnSet(F, S) <= SumFunctionOnSet(Z, S)
    BY <1>1, SumLess
  <3> QED
    BY <1>3, <1>5, <3>1
 <2>2. PICK x \in S : ~(F[x] <= Z[x])
   BY <2>1
 <2>3. Z[x] < F[x]
   BY <1>1, <2>2 DEF Numbers
 <2> QED
   BY <1>2, <2>3
<1> QED
  BY <1>1, <1>3, <1>4, <1>5

LEMMA ImageFinite ==
  ASSUME NEW S, IsFiniteSet(S), NEW T, NEW f \in [S -> T]
  PROVE  IsFiniteSet({f[x] : x \in S})
<1>1. f \in Surjection(S, {f[x] : x \in S})
  BY DEF Surjection
<1> QED
  BY <1>1, FS_Surjection

(* The higher figure first, and equal ones by a second figure that differs.    *)
LEMMA ByFigure ==
  ASSUME NEW S, NEW R, NEW a \in [S -> Nat], NEW b \in [S -> Nat],
         \A x, y \in S : b[x] = b[y] => x = y,
         \A x, y \in S : <<x, y>> \in R <=> (a[x] > a[y] \/ (a[x] = a[y] /\ b[x] < b[y]))
  PROVE  Orders(R, S)
<1>1. \A x \in S : a[x] \in Nat /\ b[x] \in Nat
  OBVIOUS
<1>2. \A x \in S : <<x, x>> \notin R
  BY <1>1
<1>3. ASSUME NEW x \in S, NEW y \in S, x # y PROVE <<x, y>> \in R \/ <<y, x>> \in R
 <2>1. b[x] # b[y]
   BY <1>3
 <2> QED
   BY <1>1, <2>1
<1>4. ASSUME NEW x \in S, NEW y \in S, NEW z \in S, <<x, y>> \in R, <<y, z>> \in R PROVE <<x, z>> \in R
 <2>1. (a[x] > a[y] \/ (a[x] = a[y] /\ b[x] < b[y])) /\ (a[y] > a[z] \/ (a[y] = a[z] /\ b[y] < b[z]))
   BY <1>4
 <2>2. a[x] > a[z] \/ (a[x] = a[z] /\ b[x] < b[z])
   BY <1>1, <2>1
 <2> QED
   BY <2>2
<1> QED
  BY <1>2, <1>3, <1>4 DEF Orders

LEMMA AlikeType ==
  ASSUME IntelligenceType, NEW a \in Query, NEW b \in Query, a # b
  PROVE  Alike(a, b) \in Nat
<1>1. dep.alike \in [Pair -> 0..2]
  BY DeploymentsAssumption DEF IntelligenceType
<1>2. Cardinality({a, b}) = 2
 <2>1. IsFiniteSet({a}) /\ Cardinality({a}) = 1
   BY FS_Singleton
 <2>2. Cardinality({a} \cup {b}) = Cardinality({a}) + 1
   BY <2>1, FS_AddElement
 <2>3. {a} \cup {b} = {a, b}
   OBVIOUS
 <2> QED
   BY <2>1, <2>2, <2>3
<1>3. {a, b} \in Pair
  BY <1>2 DEF Pair
<1>4. dep.alike[{a, b}] \in 0..2
  BY <1>1, <1>3
<1> QED
  BY <1>4 DEF Alike

LEMMA BestIs ==
  ASSUME IntelligenceType, NEW ds \in SUBSET Day, NEW scope \in Tenant, NEW z \in Sources(ds, scope), NEW b \in Best(ds, scope, z)
  PROVE  /\ z \in Query /\ b \in Query /\ z # b
         /\ 2 * Zero(counts, ds, scope, z) > Volume(counts, ds, scope, z)
         /\ 5 * Zero(counts, ds, scope, b) < Volume(counts, ds, scope, b)
<1>1. /\ z \in Query /\ 2 * Zero(counts, ds, scope, z) > Volume(counts, ds, scope, z)
      /\ b \in Query /\ 5 * Zero(counts, ds, scope, b) < Volume(counts, ds, scope, b)
  BY DEF Sources, Failing, Rows, Best, Candidates, Successful
<1>2. Zero(counts, ds, scope, b) \in Nat /\ Volume(counts, ds, scope, b) \in Nat
  BY <1>1, FiguresHold DEF IntelligenceType
<1>3. ASSUME z = b PROVE FALSE
  BY <1>1, <1>2, <1>3
<1> QED
  BY <1>1, <1>3

(* The suggestions that are read are of queries with hardly a hit, each with   *)
(* one that hits, and of the tenants that asked for either.                    *)
LEMMA SuggestionsAre ==
  ASSUME IntelligenceType, NEW ds \in SUBSET Day, NEW scope \in Tenant, NEW best \in [Sources(ds, scope) -> Query],
         \A z \in Sources(ds, scope) : best[z] \in Best(ds, scope, z)
  PROVE  /\ Suggestions(ds, scope, best) \in Seq(Suggestion)
         /\ \A i \in 1..Len(Suggestions(ds, scope, best)) : \E z \in Sources(ds, scope) :
              Suggestions(ds, scope, best)[i] = [from |-> z, to |-> best[z], of |-> Evidence(ds, scope, {z, best[z]})]
<1> DEFINE suggested == {z \in Sources(ds, scope) : Alike(z, best[z]) >= dep.threshold}
           item == [z \in suggested |-> [from |-> z, to |-> best[z], of |-> Evidence(ds, scope, {z, best[z]})]]
           found == {[from |-> z, to |-> best[z], of |-> Evidence(ds, scope, {z, best[z]})] : z \in suggested}
           R == {p \in found \X found :
                     \/ Alike(p[1].from, p[1].to) > Alike(p[2].from, p[2].to)
                     \/ Alike(p[1].from, p[1].to) = Alike(p[2].from, p[2].to) /\ p[1].from < p[2].from}
           s == SortedBy(found, R)
<1>1. Suggestions(ds, scope, best) = s
  BY DEF Suggestions
<1>2. \A z \in Sources(ds, scope) : z \in Query /\ best[z] \in Query /\ z # best[z] /\ Alike(z, best[z]) \in Nat
  BY BestIs, AlikeType
<1>3. suggested \subseteq Sources(ds, scope) /\ suggested \in SUBSET Query
  BY <1>2
<1>4. \A z \in suggested : Evidence(ds, scope, {z, best[z]}) \in SUBSET Tenant
  BY DEF Evidence
<1>5. item \in [suggested -> Suggestion]
  BY <1>2, <1>3, <1>4 DEF Suggestion
<1>6. found = {item[z] : z \in suggested}
  OBVIOUS
<1>7. IsFiniteSet(found) /\ found \subseteq Suggestion
 <2>1. IsFiniteSet(suggested)
   BY <1>3, QueryFinite
 <2> HIDE DEF item, suggested, found
 <2>2. IsFiniteSet({item[z] : z \in suggested})
   BY <1>5, <2>1, ImageFinite
 <2> QED
   BY <1>5, <1>6, <2>2
<1>8. ASSUME NEW x \in found
      PROVE  /\ x.from \in Nat /\ Alike(x.from, x.to) \in Nat
             /\ x = [from |-> x.from, to |-> best[x.from], of |-> Evidence(ds, scope, {x.from, best[x.from]})]
 <2>1. PICK z \in Sources(ds, scope) : x = [from |-> z, to |-> best[z], of |-> Evidence(ds, scope, {z, best[z]})]
   OBVIOUS
 <2>2. x.from = z /\ x.to = best[z]
   BY <2>1
 <2>3. z \in Nat /\ Alike(z, best[z]) \in Nat
   BY <1>2 DEF Query
 <2> QED
   BY <2>1, <2>2, <2>3
<1>9. ASSUME NEW x \in found, NEW y \in found, x.from = y.from PROVE x = y
 <2>1. /\ x = [from |-> x.from, to |-> best[x.from], of |-> Evidence(ds, scope, {x.from, best[x.from]})]
       /\ y = [from |-> y.from, to |-> best[y.from], of |-> Evidence(ds, scope, {y.from, best[y.from]})]
   BY <1>8
 <2> QED
   BY <1>9, <2>1
<1>10. \A x \in found : \E z \in Sources(ds, scope) :
         x = [from |-> z, to |-> best[z], of |-> Evidence(ds, scope, {z, best[z]})]
  OBVIOUS
<1> DEFINE likeness == [x \in found |-> Alike(x.from, x.to)]
           first == [x \in found |-> x.from]
<1>11. \A x, y \in found : <<x, y>> \in R <=> (likeness[x] > likeness[y] \/ (likeness[x] = likeness[y] /\ first[x] < first[y]))
  OBVIOUS
<1>12. likeness \in [found -> Nat] /\ first \in [found -> Nat]
  BY <1>8
<1>13. Orders(R, found)
 <2>1. \A x, y \in found : first[x] = first[y] => x = y
   BY <1>9
 <2> HIDE DEF found, R, likeness, first
 <2> QED
   BY <1>11, <1>12, <2>1, ByFigure
<1> HIDE DEF found, R
<1>14. s \in Seq(found)
 <2>1. s \in SetToSeqs(found)
   BY <1>7, <1>13, Sorted
 <2> HIDE DEF s
 <2> QED
   BY <1>7, <2>1, ListOfSet
<1>15. s \in Seq(Suggestion)
  BY <1>7, <1>14, SeqMonotonic
<1>16. \A i \in 1..Len(s) : s[i] \in found
  BY <1>14, ElementOfSeq
<1> HIDE DEF s
<1> QED
  BY <1>1, <1>10, <1>15, <1>16

(* ------------------------- steps of the commands ------------------------- *)

ClickCounts == [raw : Nat, agg : Nat, made : Nat]

(* A roll-up that was read, or has written a group, goes on or is done.        *)
LEMMA AfterGroupsIs ==
  ASSUME NEW r, r = [x \in RunFields |-> r[x]], r.op = "roll", r.scope \in Tenant, r.day \in Day,
         r.todo \in Seq(Suggestion), r.alone \in BOOLEAN, r.delete \in BOOLEAN, r.read \in [Form -> Nat],
         r.forms \in SUBSET Form
  PROVE  /\ RunType(AfterGroups(r))
         /\ \/ AfterGroups(r) = NoRun
            \/ LET s == AfterGroups(r) IN
               /\ s.op = "roll" /\ s.day = r.day /\ s.delete = r.delete /\ s.read = r.read /\ s.forms = r.forms
               /\ s.at \in {"group", "delete"} /\ (s.at = "delete" => r.delete /\ r.forms = {})
<1>1. ASSUME NEW a \in {"group", "delete"} PROVE RunType([r EXCEPT !.at = a])
 <2> DEFINE s == [r EXCEPT !.at = a]
 <2>1. s = [x \in RunFields |-> s[x]] /\ s.at = a /\ \A x \in RunFields \ {"at"} : s[x] = r[x]
   BY DEF RunFields
 <2> HIDE DEF s
 <2>2. a \in StepsOf("roll")
   BY StepsAre
 <2> QED
   BY <2>1, <2>2 DEF RunType, RunFields, s
<1>2. ASSUME NEW a PROVE /\ [r EXCEPT !.at = a].at = a
                         /\ \A x \in RunFields \ {"at"} : [r EXCEPT !.at = a][x] = r[x]
  BY DEF RunFields
<1>3. CASE r.forms # {}
 <2>1. AfterGroups(r) = [r EXCEPT !.at = "group"]
   BY <1>3 DEF AfterGroups
 <2> QED
   BY <1>1, <1>2, <2>1 DEF RunFields
<1>4. CASE r.forms = {} /\ r.delete
 <2>1. AfterGroups(r) = [r EXCEPT !.at = "delete"]
   BY <1>4 DEF AfterGroups
 <2> QED
   BY <1>1, <1>2, <1>4, <2>1 DEF RunFields
<1>5. CASE r.forms = {} /\ ~r.delete
  BY <1>5, NoRunType DEF AfterGroups
<1> QED
  BY <1>3, <1>4, <1>5

LEMMA ClickIs ==
  ASSUME IntelligenceType, Click
  PROVE  /\ IntelligenceType'
         /\ \E f \in Form : \A d \in Day, g \in Form :
              clicks'[d][g] = IF d = today /\ g = f
                              THEN [raw |-> clicks[d][g].raw + 1, agg |-> clicks[d][g].agg, made |-> clicks[d][g].made + 1]
                              ELSE clicks[d][g]
<1>1. PICK f \in Form : clicks' = [clicks EXCEPT ![today][f].raw = @ + 1, ![today][f].made = @ + 1]
  BY DEF Click
<1> DEFINE m == [clicks EXCEPT ![today][f].raw = @ + 1]
           w == [m EXCEPT ![today][f].made = @ + 1]
           old == clicks[today][f]
<1>2. clicks' = w
  BY <1>1
<1>3. clicks \in [Day -> [Form -> ClickCounts]] /\ today \in Day /\ old \in ClickCounts
  BY DEF IntelligenceType, ClickCounts
<1>4. /\ m = [d \in Day |-> [g \in Form |-> m[d][g]]]
      /\ m[today][f] = [raw |-> old.raw + 1, agg |-> old.agg, made |-> old.made]
      /\ \A d \in Day, g \in Form : ~(d = today /\ g = f) => m[d][g] = clicks[d][g]
  BY <1>3 DEF ClickCounts
<1> HIDE DEF m, old
<1>5. w[today][f] = [raw |-> old.raw + 1, agg |-> old.agg, made |-> old.made + 1]
  BY <1>3, <1>4
<1>6. ASSUME NEW d \in Day, NEW g \in Form, ~(d = today /\ g = f) PROVE w[d][g] = clicks[d][g]
 <2>1. CASE d # today
   BY <1>3, <1>4, <1>6, <2>1
 <2>2. CASE d = today /\ g # f
   BY <1>3, <1>4, <1>6, <2>2
 <2> QED
   BY <1>6, <2>1, <2>2
<1>7. w = [d \in Day |-> [g \in Form |-> w[d][g]]]
 <2>1. w = [d \in Day |-> w[d]]
   BY <1>4
 <2>2. ASSUME NEW d \in Day PROVE w[d] = [g \in Form |-> w[d][g]]
   BY <1>3, <1>4
 <2> HIDE DEF w
 <2> QED
   BY <2>1, <2>2
<1> HIDE DEF w
<1>8. ASSUME NEW d \in Day, NEW g \in Form PROVE w[d][g] \in ClickCounts
 <2>1. CASE d = today /\ g = f
   BY <1>3, <1>5, <2>1 DEF ClickCounts
 <2>2. CASE ~(d = today /\ g = f)
   BY <1>3, <1>6, <2>2
 <2> QED
   BY <2>1, <2>2
<1>9. w \in [Day -> [Form -> ClickCounts]]
  BY <1>7, <1>8
<1>10. spoilt' \in [Day -> SUBSET {"between", "overlap", "again"}]
  BY <1>3 DEF IntelligenceType, Click
<1>11. IntelligenceType'
  BY <1>2, <1>9, <1>10 DEF IntelligenceType, Click, ClickCounts
<1>12. \A d \in Day, g \in Form :
         clicks'[d][g] = IF d = today /\ g = f
                         THEN [raw |-> clicks[d][g].raw + 1, agg |-> clicks[d][g].agg, made |-> clicks[d][g].made + 1]
                         ELSE clicks[d][g]
  BY <1>2, <1>5, <1>6 DEF old
<1> QED
  BY <1>11, <1>12

LEMMA KillKeeps == ASSUME IntelligenceType, Kill PROVE IntelligenceType' /\ NoRollBegins
<1>1. PICK c \in Command : Does(c, NoRun)
  BY DEF Kill
<1>2. run' = [o \in Command |-> run'[o]] /\ \A o \in Command : RunType(run'[o])
  BY <1>1, OneRunType, NoRunType
<1>3. run'[c] = NoRun /\ \A o \in Command \ {c} : run'[o] = run[o]
  BY <1>1, DoesOne DEF IntelligenceType
<1>4. NoRun.at = "done"
  BY DEF NoRun
<1>5. NoRollBegins
  BY <1>3, <1>4 DEF NoRollBegins, Running
<1> QED
  BY <1>2, <1>5 DEF IntelligenceType, Kill

LEMMA AdminType == ASSUME IntelligenceType, Admin PROVE IntelligenceType'
<1>1. PICK i \in DOMAIN rewrites :
       \/ rewrites' = [rewrites EXCEPT ![i].active = ~@]
       \/ rewrites' = RemoveAt(rewrites, i)
  BY DEF Admin
<1>2. rewrites \in Seq(Rewrite) /\ rewrites[i] \in Rewrite /\ i \in 1..Len(rewrites)
  BY ElementOfSeq, LenProperties DEF IntelligenceType
<1>3. rewrites' \in Seq(Rewrite)
 <2>1. CASE rewrites' = [rewrites EXCEPT ![i].active = ~@]
  <3>1. [rewrites[i] EXCEPT !.active = ~@] \in Rewrite
    BY <1>2 DEF Rewrite
  <3>2. rewrites' = [rewrites EXCEPT ![i] = [rewrites[i] EXCEPT !.active = ~@]]
    BY <2>1
  <3> QED
    BY <1>2, <3>1, <3>2, ExceptSeq
 <2>2. CASE rewrites' = RemoveAt(rewrites, i)
   BY <1>2, <2>2, RemoveAtIs
 <2> QED
   BY <1>1, <2>1, <2>2
<1> QED
  BY <1>3 DEF IntelligenceType, Admin

(* How the next suggestion is taken: the list gets shorter, or the command is  *)
(* done.                                                                       *)
LEMMA NextSuggestionIs ==
  ASSUME IntelligenceType, NEW c \in Command, run[c].op = "learn", NextSuggestion(c)
  PROVE  \E r : /\ RunType(r) /\ Does(c, r)
                /\ \/ r = NoRun
                   \/ /\ r.op = "learn" /\ r.at = "check" /\ r.scope = run[c].scope /\ r.alone = run[c].alone
                      /\ Len(run[c].todo) # 1 /\ r.todo = Tail(run[c].todo)
<1> DEFINE r == run[c]
           s == [r EXCEPT !.todo = Tail(@), !.at = "check"]
<1>1. RunType(r) /\ r.op = "learn"
  BY DEF IntelligenceType
<1>2. Does(c, IF Len(r.todo) = 1 THEN NoRun ELSE s)
  BY DEF NextSuggestion
<1>3. CASE Len(r.todo) = 1
  BY <1>2, <1>3, NoRunType
<1>4. CASE Len(r.todo) # 1
 <2>1. Does(c, s)
   BY <1>2, <1>4
 <2>2. /\ s = [x \in RunFields |-> s[x]] /\ s.at = "check" /\ s.todo = Tail(r.todo)
       /\ \A x \in RunFields \ {"at", "todo"} : s[x] = r[x]
   BY <1>1 DEF RunType, RunFields
 <2>3. Tail(r.todo) \in Seq(Suggestion) /\ Tail(r.todo) # <<>>
  <3>1. r.todo \in Seq(Suggestion) /\ r.todo # <<>>
    BY <1>1 DEF RunType
  <3>2. Tail(r.todo) \in Seq(Suggestion) /\ Len(Tail(r.todo)) = Len(r.todo) - 1 /\ Len(r.todo) \in Nat
    BY <3>1, HeadTailProperties, LenProperties
  <3>3. Len(Tail(r.todo)) # 0
    BY <1>4, <3>2
  <3> QED
    BY <3>2, <3>3, EmptySeq
 <2> HIDE DEF s, r
 <2>4. RunType(s)
  <3>1. "check" \in StepsOf("learn")
    BY StepsAre
  <3> QED
    BY <1>1, <2>2, <2>3, <3>1 DEF RunType, RunFields
 <2> QED
   BY <1>1, <1>4, <2>1, <2>2, <2>4 DEF RunFields, r
<1> QED
  BY <1>3, <1>4

LEMMA LearnsOn ==
  ASSUME IntelligenceType, NEW c \in Command, NEW r, RunType(r), r.op # "roll" \/ r.at = "done", Does(c, r)
  PROVE  /\ run' = [o \in Command |-> run'[o]] /\ \A o \in Command : RunType(run'[o])
         /\ NoRollBegins
<1>1. run'[c] = r /\ \A o \in Command \ {c} : run'[o] = run[o]
  BY DoesOne DEF IntelligenceType
<1>2. NoRollBegins
  BY <1>1 DEF NoRollBegins, Running
<1> QED
  BY <1>2, OneRunType

LEMMA NoRunDone == NoRun.at = "done" /\ NoRun.op = "none"
BY DEF NoRun

(* What CheckExisting makes of a command.                                      *)
LEMMA CheckIs ==
  ASSUME IntelligenceType, NEW c \in Command, CheckExisting(c)
  PROVE  /\ IntelligenceType' /\ NoRollBegins /\ run[c].op = "learn" /\ run[c].at = "check"
         /\ \E r : /\ RunType(r) /\ Does(c, r)
                   /\ \/ r = NoRun
                      \/ /\ r.op = "learn" /\ r.at = "check" /\ r.scope = run[c].scope /\ r.alone = run[c].alone
                         /\ Len(run[c].todo) # 1 /\ r.todo = Tail(run[c].todo)
                      \/ /\ r.op = "learn" /\ r.at = "create" /\ r.scope = run[c].scope /\ r.alone = run[c].alone
                         /\ r.todo = run[c].todo /\ ~Exists(r.scope, Head(r.todo).from)
<1>1. RunType(run[c]) /\ run[c].at = "check" /\ run[c].op = "learn"
  BY Steps DEF IntelligenceType, CheckExisting
<1>2. \E r : /\ RunType(r) /\ Does(c, r)
             /\ \/ r = NoRun
                \/ /\ r.op = "learn" /\ r.at = "check" /\ r.scope = run[c].scope /\ r.alone = run[c].alone
                   /\ Len(run[c].todo) # 1 /\ r.todo = Tail(run[c].todo)
                \/ /\ r.op = "learn" /\ r.at = "create" /\ r.scope = run[c].scope /\ r.alone = run[c].alone
                   /\ r.todo = run[c].todo /\ ~Exists(r.scope, Head(r.todo).from)
 <2>1. CASE Exists(run[c].scope, Head(run[c].todo).from)
  <3>1. NextSuggestion(c)
    BY <2>1 DEF CheckExisting
  <3> QED
    BY <1>1, <3>1, NextSuggestionIs
 <2>2. CASE ~Exists(run[c].scope, Head(run[c].todo).from)
  <3> DEFINE s == [run[c] EXCEPT !.at = "create"]
  <3>1. Does(c, s)
    BY <2>2 DEF CheckExisting
  <3>2. s = [x \in RunFields |-> s[x]] /\ s.at = "create" /\ \A x \in RunFields \ {"at"} : s[x] = run[c][x]
    BY <1>1 DEF RunType, RunFields
  <3> HIDE DEF s
  <3>3. "create" \in StepsOf("learn")
    BY StepsAre
  <3>4. RunType(s)
    BY <1>1, <3>2, <3>3 DEF RunType, RunFields
  <3>5. s.op = "learn" /\ s.scope = run[c].scope /\ s.alone = run[c].alone /\ s.todo = run[c].todo
    BY <1>1, <3>2 DEF RunFields
  <3> WITNESS s
  <3> QED
    BY <2>2, <3>1, <3>2, <3>4, <3>5
 <2> QED
   BY <2>1, <2>2
<1>3. PICK r : RunType(r) /\ Does(c, r) /\ (r = NoRun \/ r.op = "learn")
  BY <1>2
<1>4. r.op # "roll"
  BY <1>3, NoRunDone
<1>5. run' = [o \in Command |-> run'[o]] /\ (\A o \in Command : RunType(run'[o])) /\ NoRollBegins
  BY <1>3, <1>4, LearnsOn
<1>6. IntelligenceType'
  BY <1>5 DEF IntelligenceType, CheckExisting
<1> QED
  BY <1>1, <1>2, <1>5, <1>6

LEMMA CreateIs ==
  ASSUME IntelligenceType, NEW c \in Command, CreateRewrite(c)
  PROVE  /\ IntelligenceType' /\ NoRollBegins /\ run[c].op = "learn" /\ run[c].at = "create"
         /\ \E r : /\ RunType(r) /\ Does(c, r)
                   /\ \/ r = NoRun
                      \/ /\ r.op = "learn" /\ r.at = "check" /\ r.scope = run[c].scope /\ r.alone = run[c].alone
                         /\ Len(run[c].todo) # 1 /\ r.todo = Tail(run[c].todo)
<1>1. RunType(run[c]) /\ run[c].at = "create" /\ run[c].op = "learn"
  BY Steps DEF IntelligenceType, CreateRewrite
<1>2. PICK r : /\ RunType(r) /\ Does(c, r)
               /\ \/ r = NoRun
                  \/ /\ r.op = "learn" /\ r.at = "check" /\ r.scope = run[c].scope /\ r.alone = run[c].alone
                     /\ Len(run[c].todo) # 1 /\ r.todo = Tail(run[c].todo)
  BY <1>1, NextSuggestionIs DEF CreateRewrite
<1>3. r.op # "roll"
  BY <1>2, NoRunDone
<1>4. run' = [o \in Command |-> run'[o]] /\ (\A o \in Command : RunType(run'[o])) /\ NoRollBegins
  BY <1>2, <1>3, LearnsOn
<1> DEFINE s == Head(run[c].todo)
           w == [tenant |-> run[c].scope, from |-> s.from, to |-> s.to, active |-> TRUE,
                 of |-> s.of, alone |-> run[c].alone]
<1>5. s \in Suggestion
  BY <1>1, HeadTailProperties DEF RunType
<1>6. w \in Rewrite
  BY <1>1, <1>5 DEF RunType, Suggestion, Rewrite
<1>7. rewrites' = Append(rewrites, w)
  BY DEF CreateRewrite
<1> HIDE DEF w
<1>8. rewrites' \in Seq(Rewrite)
  BY <1>6, <1>7, AppendProperties DEF IntelligenceType
<1>9. IntelligenceType'
  BY <1>4, <1>8 DEF IntelligenceType, CreateRewrite
<1> QED
  BY <1>1, <1>2, <1>4, <1>9

(* BeginLearn: the suggestions are those of SuggestionsAre, and the commands   *)
(* that learn for the same tenant are no longer alone.                         *)
LEMMA BeginLearnIs ==
  ASSUME IntelligenceType, NEW c \in Command, BeginLearn(c)
  PROVE  /\ IntelligenceType' /\ NoRollBegins /\ ~Running(c)
         /\ \E scope \in Tenant, ds \in SUBSET Day : \E best \in [Sources(ds, scope) -> Query] :
              /\ \A z \in Sources(ds, scope) : best[z] \in Best(ds, scope, z)
              /\ run'[c].todo = Suggestions(ds, scope, best)
              /\ run'[c].op = "learn" /\ run'[c].at = "check" /\ run'[c].scope = scope
              /\ run'[c].alone = ({o \in Command : Learns(o, scope)} = {})
              /\ \A o \in Command \ {c} :
                   /\ \A x \in RunFields \ {"alone"} : run'[o][x] = run[o][x]
                   /\ run'[o].alone = (run[o].alone /\ ~Learns(o, scope))
<1>1. PICK scope \in Tenant :
       LET ds == Window(today, 30)  others == {o \in Command : Learns(o, scope)} IN
       \E best \in [Sources(ds, scope) -> Query] :
         /\ \A z \in Sources(ds, scope) : best[z] \in Best(ds, scope, z)
         /\ LET todo == Suggestions(ds, scope, best) IN
            /\ todo # <<>>
            /\ run' = [o \in Command |->
                         IF o = c THEN [NoRun EXCEPT !.op = "learn", !.at = "check", !.scope = scope,
                                                     !.todo = todo, !.alone = others = {}]
                         ELSE IF o \in others THEN [run[o] EXCEPT !.alone = FALSE] ELSE run[o]]
  BY DEF BeginLearn
<1> DEFINE ds == Window(today, 30)
           others == {o \in Command : Learns(o, scope)}
<1>2. PICK best \in [Sources(ds, scope) -> Query] :
         /\ \A z \in Sources(ds, scope) : best[z] \in Best(ds, scope, z)
         /\ LET todo == Suggestions(ds, scope, best) IN
            /\ todo # <<>>
            /\ run' = [o \in Command |->
                         IF o = c THEN [NoRun EXCEPT !.op = "learn", !.at = "check", !.scope = scope,
                                                     !.todo = todo, !.alone = others = {}]
                         ELSE IF o \in others THEN [run[o] EXCEPT !.alone = FALSE] ELSE run[o]]
  BY <1>1
<1>3. ds \in SUBSET Day
  BY DEF Window
<1> HIDE DEF ds
<1> DEFINE todo == Suggestions(ds, scope, best)
           mine == [NoRun EXCEPT !.op = "learn", !.at = "check", !.scope = scope,
                                 !.todo = todo, !.alone = others = {}]
           after == [o \in Command |-> IF o = c THEN mine
                                       ELSE IF o \in others THEN [run[o] EXCEPT !.alone = FALSE] ELSE run[o]]
<1>4. todo \in Seq(Suggestion)
  BY <1>2, <1>3, SuggestionsAre
<1>5. todo # <<>> /\ run' = after
  BY <1>2
<1> HIDE DEF todo
<1>6. /\ mine = [x \in RunFields |-> mine[x]] /\ mine.op = "learn" /\ mine.at = "check" /\ mine.scope = scope
      /\ mine.todo = todo /\ mine.alone = (others = {})
      /\ \A x \in RunFields \ {"op", "at", "scope", "todo", "alone"} : mine[x] = NoRun[x]
  BY DEF NoRun, RunFields
<1> HIDE DEF mine
<1>7. RunType(mine)
 <2>1. "check" \in StepsOf("learn")
   BY StepsAre
 <2>2. RunType(NoRun)
   BY NoRunType
 <2>3. mine.day = NoRun.day /\ mine.delete = NoRun.delete /\ mine.read = NoRun.read /\ mine.forms = NoRun.forms
   BY <1>6 DEF RunFields
 <2> QED
   BY <1>4, <1>5, <1>6, <2>1, <2>2, <2>3 DEF RunType
<1>8. ASSUME NEW o \in Command \ {c}
      PROVE  /\ RunType(run'[o])
             /\ \A x \in RunFields \ {"alone"} : run'[o][x] = run[o][x]
             /\ run'[o].alone = (run[o].alone /\ ~Learns(o, scope))
 <2>1. RunType(run[o]) /\ run[o] = [x \in RunFields |-> run[o][x]] /\ run[o].alone \in BOOLEAN
   BY DEF IntelligenceType, RunType
 <2>2. CASE o \in others
  <3> DEFINE s == [run[o] EXCEPT !.alone = FALSE]
  <3>1. run'[o] = s
    BY <1>5, <2>2
  <3>2. s = [x \in RunFields |-> s[x]] /\ s.alone = FALSE /\ \A x \in RunFields \ {"alone"} : s[x] = run[o][x]
    BY <2>1 DEF RunFields
  <3> HIDE DEF s
  <3>3. RunType(s)
    BY <2>1, <3>2 DEF RunType, RunFields
  <3> QED
    BY <2>2, <3>1, <3>2, <3>3
 <2>3. CASE o \notin others
  <3>1. run'[o] = run[o] /\ ~Learns(o, scope)
    BY <1>5, <2>3
  <3> QED
    BY <2>1, <3>1
 <2> QED
   BY <2>2, <2>3
<1>9. run'[c] = mine /\ run' = [o \in Command |-> run'[o]]
  BY <1>5
<1>10. \A o \in Command : RunType(run'[o])
  BY <1>7, <1>8, <1>9
<1>11. NoRollBegins
  BY <1>6, <1>8, <1>9 DEF NoRollBegins, Running, RunFields
<1>12. IntelligenceType'
  BY <1>9, <1>10 DEF IntelligenceType, BeginLearn
<1>13. ~Running(c)
  BY DEF BeginLearn
<1>14. /\ \A z \in Sources(ds, scope) : best[z] \in Best(ds, scope, z)
       /\ run'[c].todo = Suggestions(ds, scope, best)
       /\ run'[c].op = "learn" /\ run'[c].at = "check" /\ run'[c].scope = scope
       /\ run'[c].alone = ({o \in Command : Learns(o, scope)} = {})
  BY <1>2, <1>6, <1>9 DEF todo
<1>15. \A o \in Command \ {c} :
         /\ \A x \in RunFields \ {"alone"} : run'[o][x] = run[o][x]
         /\ run'[o].alone = (run[o].alone /\ ~Learns(o, scope))
  BY <1>8
<1>16. \E d2 \in SUBSET Day : \E b2 \in [Sources(d2, scope) -> Query] :
              /\ \A z \in Sources(d2, scope) : b2[z] \in Best(d2, scope, z)
              /\ run'[c].todo = Suggestions(d2, scope, b2)
  BY <1>3, <1>14
<1> QED
  BY <1>11, <1>12, <1>13, <1>14, <1>15, <1>16


LEMMA BeginRollIs ==
  ASSUME IntelligenceType, NEW c \in Command, BeginRoll(c)
  PROVE  /\ IntelligenceType' /\ ~Running(c) /\ UNCHANGED <<clicks, emptied>>
         /\ \A o \in Command \ {c} : run'[o] = run[o]
         /\ \E d \in Day :
              /\ \A e \in Day : spoilt[e] \subseteq spoilt'[e]
              /\ spoilt'[d] = {} => d \notin emptied /\ \A o \in Command : ~Rolls(o, d)
              /\ \/ run'[c].at = "done"
                 \/ LET r == run'[c] IN
                    /\ r.op = "roll" /\ r.day = d /\ r.read = [f \in Form |-> clicks[d][f].raw]
                    /\ r.forms = {f \in Form : r.read[f] > 0}
                    /\ r.at = "delete" => r.delete /\ r.forms = {}
<1>1. PICK d \in 0..today, delete \in BOOLEAN :
       LET read == [f \in Form |-> clicks[d][f].raw] IN
       /\ Does(c, AfterGroups([NoRun EXCEPT !.op = "roll", !.day = d, !.delete = delete, !.read = read,
                                            !.forms = {f \in Form : read[f] > 0}]))
       /\ spoilt' = [spoilt EXCEPT ![d] = @ \cup (IF \E o \in Command : Rolls(o, d) THEN {"overlap"} ELSE {})
                                            \cup (IF d \in emptied THEN {"again"} ELSE {})]
  BY DEF BeginRoll
<1> DEFINE read == [f \in Form |-> clicks[d][f].raw]
           forms == {f \in Form : read[f] > 0}
           r == [NoRun EXCEPT !.op = "roll", !.day = d, !.delete = delete, !.read = read, !.forms = forms]
<1>2. d \in Day
  BY MaxDayAssumption DEF IntelligenceType, Day
<1>3. read \in [Form -> Nat] /\ forms \in SUBSET Form
  BY <1>2 DEF IntelligenceType
<1>4. Does(c, AfterGroups(r))
  BY <1>1
<1> HIDE DEF read, forms
<1>5. /\ r = [x \in RunFields |-> r[x]] /\ r.op = "roll" /\ r.day = d /\ r.delete = delete /\ r.read = read
      /\ r.forms = forms /\ \A x \in RunFields \ {"op", "day", "delete", "read", "forms"} : r[x] = NoRun[x]
  BY DEF NoRun, RunFields
<1> HIDE DEF r
<1>6. r.scope \in Tenant /\ r.todo \in Seq(Suggestion) /\ r.alone \in BOOLEAN
 <2>1. r.scope = NoRun.scope /\ r.todo = NoRun.todo /\ r.alone = NoRun.alone
   BY <1>5 DEF RunFields
 <2> QED
   BY <2>1, NoRunType DEF RunType
<1>7. /\ RunType(AfterGroups(r))
      /\ \/ AfterGroups(r) = NoRun
         \/ LET s == AfterGroups(r) IN
            /\ s.op = "roll" /\ s.day = r.day /\ s.delete = r.delete /\ s.read = r.read /\ s.forms = r.forms
            /\ s.at \in {"group", "delete"} /\ (s.at = "delete" => r.delete /\ r.forms = {})
  BY <1>2, <1>3, <1>5, <1>6, AfterGroupsIs
<1>8. run'[c] = AfterGroups(r) /\ \A o \in Command \ {c} : run'[o] = run[o]
  BY <1>4, DoesOne DEF IntelligenceType
<1>9. run' = [o \in Command |-> run'[o]] /\ \A o \in Command : RunType(run'[o])
  BY <1>4, <1>7, OneRunType
<1>10. spoilt' \in [Day -> SUBSET {"between", "overlap", "again"}] /\ \A e \in Day : spoilt[e] \subseteq spoilt'[e]
  BY <1>1, <1>2 DEF IntelligenceType
<1>11. spoilt'[d] = {} => d \notin emptied /\ \A o \in Command : ~Rolls(o, d)
  BY <1>1, <1>2 DEF IntelligenceType
<1>12. IntelligenceType'
  BY <1>9, <1>10 DEF IntelligenceType, BeginRoll
<1>13. \/ run'[c].at = "done"
       \/ LET s == run'[c] IN
          /\ s.op = "roll" /\ s.day = d /\ s.read = [f \in Form |-> clicks[d][f].raw]
          /\ s.forms = {f \in Form : s.read[f] > 0}
          /\ s.at = "delete" => s.delete /\ s.forms = {}
  BY <1>5, <1>7, <1>8, NoRunDone DEF read, forms
<1> QED
  BY <1>2, <1>8, <1>10, <1>11, <1>12, <1>13 DEF BeginRoll

LEMMA WriteGroupIs ==
  ASSUME IntelligenceType, NEW c \in Command, WriteGroup(c)
  PROVE  /\ IntelligenceType' /\ Rolls(c, run[c].day) /\ run[c].day \in Day /\ UNCHANGED <<emptied, spoilt>>
         /\ \A o \in Command \ {c} : run'[o] = run[o]
         /\ \E f \in Form :
              /\ \A d \in Day, g \in Form :
                   clicks'[d][g] = IF d = run[c].day /\ g = f
                                   THEN [raw |-> clicks[d][g].raw, agg |-> run[c].read[f], made |-> clicks[d][g].made]
                                   ELSE clicks[d][g]
              /\ \/ run'[c].at = "done"
                 \/ LET r == run'[c] IN
                    /\ r.op = "roll" /\ r.day = run[c].day /\ r.read = run[c].read /\ r.delete = run[c].delete
                    /\ r.forms = run[c].forms \ {f}
                    /\ r.at = "delete" => r.delete /\ r.forms = {}
<1>1. PICK f \in run[c].forms :
       /\ clicks' = [clicks EXCEPT ![run[c].day][f].agg = run[c].read[f]]
       /\ Does(c, AfterGroups([run[c] EXCEPT !.forms = @ \ {f}]))
  BY DEF WriteGroup
<1> DEFINE q == run[c]
           r == [q EXCEPT !.forms = @ \ {f}]
<1>2. RunType(q) /\ q.op = "roll" /\ q.at = "group"
  BY Steps DEF IntelligenceType, WriteGroup
<1>3. q = [x \in RunFields |-> q[x]] /\ q.day \in Day /\ q.forms \in SUBSET Form /\ f \in Form /\ q.read \in [Form -> Nat]
  BY <1>2 DEF RunType
<1>4. Does(c, AfterGroups(r)) /\ clicks' = [clicks EXCEPT ![q.day][f].agg = q.read[f]]
  BY <1>1
<1> HIDE DEF q
<1>5. r = [x \in RunFields |-> r[x]] /\ r.forms = q.forms \ {f} /\ \A x \in RunFields \ {"forms"} : r[x] = q[x]
  BY <1>3 DEF RunFields
<1> HIDE DEF r
<1>6. /\ r.op = "roll" /\ r.day = q.day /\ r.delete = q.delete /\ r.read = q.read /\ r.scope = q.scope
      /\ r.todo = q.todo /\ r.alone = q.alone /\ r.forms \in SUBSET Form
  BY <1>2, <1>3, <1>5 DEF RunFields
<1>7. /\ RunType(AfterGroups(r))
      /\ \/ AfterGroups(r) = NoRun
         \/ LET s == AfterGroups(r) IN
            /\ s.op = "roll" /\ s.day = r.day /\ s.delete = r.delete /\ s.read = r.read /\ s.forms = r.forms
            /\ s.at \in {"group", "delete"} /\ (s.at = "delete" => r.delete /\ r.forms = {})
 <2>1. /\ r.scope \in Tenant /\ r.day \in Day /\ r.todo \in Seq(Suggestion) /\ r.alone \in BOOLEAN
       /\ r.delete \in BOOLEAN /\ r.read \in [Form -> Nat]
   BY <1>2, <1>6 DEF RunType
 <2> QED
   BY <1>5, <1>6, <2>1, AfterGroupsIs
<1>8. run'[c] = AfterGroups(r) /\ \A o \in Command \ {c} : run'[o] = run[o]
  BY <1>4, DoesOne DEF IntelligenceType
<1>9. run' = [o \in Command |-> run'[o]] /\ \A o \in Command : RunType(run'[o])
  BY <1>4, <1>7, OneRunType
<1>10. clicks \in [Day -> [Form -> ClickCounts]]
  BY DEF IntelligenceType, ClickCounts
<1>11. \A d \in Day, g \in Form :
         clicks'[d][g] = IF d = q.day /\ g = f
                         THEN [raw |-> clicks[d][g].raw, agg |-> q.read[f], made |-> clicks[d][g].made]
                         ELSE clicks[d][g]
 <2> SUFFICES ASSUME NEW d \in Day, NEW g \in Form
              PROVE  clicks'[d][g] = IF d = q.day /\ g = f
                       THEN [raw |-> clicks[d][g].raw, agg |-> q.read[f], made |-> clicks[d][g].made]
                       ELSE clicks[d][g]
   OBVIOUS
 <2>1. CASE d = q.day /\ g = f
  <3>1. clicks'[d][g] = [clicks[d][g] EXCEPT !.agg = q.read[f]] /\ clicks[d][g] \in ClickCounts
    BY <1>3, <1>4, <1>10, <2>1
  <3> QED
    BY <2>1, <3>1 DEF ClickCounts
 <2>2. CASE d # q.day
   BY <1>3, <1>4, <1>10, <2>2
 <2>3. CASE d = q.day /\ g # f
   BY <1>3, <1>4, <1>10, <2>3
 <2> QED
   BY <2>1, <2>2, <2>3
<1>12. clicks' \in [Day -> [Form -> ClickCounts]]
 <2> DEFINE w == [clicks EXCEPT ![q.day][f].agg = q.read[f]]
 <2>1. clicks' = w
   BY <1>4
 <2>2. w = [d \in Day |-> w[d]]
   BY <1>10
 <2>3. ASSUME NEW d \in Day PROVE w[d] = [g \in Form |-> w[d][g]]
   BY <1>3, <1>10
 <2> HIDE DEF w
 <2>4. w = [d \in Day |-> [g \in Form |-> w[d][g]]]
   BY <2>2, <2>3
 <2>5. ASSUME NEW d \in Day, NEW g \in Form PROVE w[d][g] \in ClickCounts
  <3>1. clicks[d][g] \in ClickCounts /\ q.read[f] \in Nat
    BY <1>3, <1>10
  <3>2. [raw |-> clicks[d][g].raw, agg |-> q.read[f], made |-> clicks[d][g].made] \in ClickCounts
    BY <3>1 DEF ClickCounts
  <3>3. clicks'[d][g] \in ClickCounts
    BY <1>11, <3>1, <3>2
  <3> QED
    BY <2>1, <3>3
 <2> QED
   BY <2>1, <2>4, <2>5
<1>13. IntelligenceType'
  BY <1>9, <1>12 DEF IntelligenceType, WriteGroup, ClickCounts
<1>14. Rolls(c, q.day)
  BY <1>2 DEF Rolls, Running, q
<1>15. \/ run'[c].at = "done"
       \/ LET s == run'[c] IN
          /\ s.op = "roll" /\ s.day = q.day /\ s.read = q.read /\ s.delete = q.delete
          /\ s.forms = q.forms \ {f}
          /\ s.at = "delete" => s.delete /\ s.forms = {}
  BY <1>5, <1>6, <1>7, <1>8, NoRunDone
<1>16. UNCHANGED <<emptied, spoilt>>
  BY DEF WriteGroup
<1> QED
  BY <1>3, <1>8, <1>11, <1>13, <1>14, <1>15, <1>16 DEF q

LEMMA DeleteRawIs ==
  ASSUME IntelligenceType, NEW c \in Command, DeleteRaw(c)
  PROVE  /\ IntelligenceType' /\ Rolls(c, run[c].day) /\ run[c].day \in Day /\ UNCHANGED spoilt
         /\ run[c].at = "delete" /\ emptied' = emptied \cup {run[c].day}
         /\ run'[c].at = "done" /\ \A o \in Command \ {c} : run'[o] = run[o]
         /\ \A d \in Day, g \in Form :
              clicks'[d][g] = IF d = run[c].day
                              THEN [raw |-> 0, agg |-> clicks[d][g].agg, made |-> clicks[d][g].made]
                              ELSE clicks[d][g]
<1>1. RunType(run[c]) /\ run[c].op = "roll" /\ run[c].at = "delete"
  BY Steps DEF IntelligenceType, DeleteRaw
<1>2. run[c].day \in Day
  BY <1>1 DEF RunType
<1>3. Does(c, NoRun)
  BY DEF DeleteRaw
<1>4. run'[c] = NoRun /\ \A o \in Command \ {c} : run'[o] = run[o]
  BY <1>3, DoesOne DEF IntelligenceType
<1>5. run' = [o \in Command |-> run'[o]] /\ \A o \in Command : RunType(run'[o])
  BY <1>3, NoRunType, OneRunType
<1>6. clicks \in [Day -> [Form -> ClickCounts]]
  BY DEF IntelligenceType, ClickCounts
<1>7. clicks' = [d \in Day |-> IF d = run[c].day
                               THEN [f \in Form |-> [clicks[d][f] EXCEPT !.raw = 0]] ELSE clicks[d]]
  BY DEF DeleteRaw, Deleted
<1>8. \A d \in Day, g \in Form :
        clicks'[d][g] = IF d = run[c].day
                        THEN [raw |-> 0, agg |-> clicks[d][g].agg, made |-> clicks[d][g].made]
                        ELSE clicks[d][g]
  BY <1>6, <1>7 DEF ClickCounts
<1>9. clicks' \in [Day -> [Form -> ClickCounts]]
 <2>1. clicks' = [d \in Day |-> clicks'[d]]
   BY <1>7
 <2>2. ASSUME NEW d \in Day PROVE clicks'[d] = [g \in Form |-> clicks'[d][g]]
   BY <1>6, <1>7
 <2>3. ASSUME NEW d \in Day, NEW g \in Form PROVE clicks'[d][g] \in ClickCounts
  <3>1. clicks[d][g] \in ClickCounts
    BY <1>6
  <3>2. [raw |-> 0, agg |-> clicks[d][g].agg, made |-> clicks[d][g].made] \in ClickCounts
    BY <3>1 DEF ClickCounts
  <3> QED
    BY <1>8, <3>1, <3>2
 <2>4. clicks' = [d \in Day |-> [g \in Form |-> clicks'[d][g]]]
   BY <2>1, <2>2
 <2> QED
   BY <2>3, <2>4
<1>10. emptied' = emptied \cup {run[c].day} /\ UNCHANGED spoilt
  BY DEF DeleteRaw
<1>11. IntelligenceType'
  BY <1>2, <1>5, <1>9, <1>10 DEF IntelligenceType, DeleteRaw, ClickCounts
<1>12. Rolls(c, run[c].day)
  BY <1>1 DEF Rolls, Running
<1> QED
  BY <1>1, <1>2, <1>4, <1>8, <1>10, <1>11, <1>12, NoRunDone

(* -------------------------------- clicks --------------------------------- *)

LEMMA InitClicks == IntelligenceInit => ClicksInv
<1> SUFFICES ASSUME IntelligenceInit PROVE ClicksInv
  OBVIOUS
<1>1. \A d \in Day, f \in Form : clicks[d][f] = [raw |-> 0, agg |-> 0, made |-> 0]
  BY DEF IntelligenceInit
<1>2. \A c \in Command : ~Running(c)
  BY NoRunDone DEF IntelligenceInit, Running
<1> QED
  BY <1>1, <1>2 DEF ClicksInv, Rolls

LEMMA ClickKeeps ==
  ASSUME IntelligenceType, ClicksInv, Click
  PROVE  ClicksInv'
<1>1. PICK f \in Form : \A d \in Day, g \in Form :
              clicks'[d][g] = IF d = today /\ g = f
                              THEN [raw |-> clicks[d][g].raw + 1, agg |-> clicks[d][g].agg, made |-> clicks[d][g].made + 1]
                              ELSE clicks[d][g]
  BY ClickIs
<1>2. UNCHANGED <<run, emptied>>
  BY DEF Click
<1>3. /\ \A d \in Day : spoilt[d] \subseteq spoilt'[d]
      /\ spoilt'[today] = {} => ~\E c \in Command : Rolls(c, today) /\ run[c].delete
  BY DEF Click, IntelligenceType
<1>4. ASSUME NEW d \in Day, NEW g \in Form
      PROVE  clicks[d][g] \in ClickCounts
  BY DEF IntelligenceType, ClickCounts
<1>8. ASSUME NEW d \in Day, NEW g \in Form
      PROVE  /\ clicks'[d][g].made = clicks[d][g].made \/ clicks'[d][g].made = clicks[d][g].made + 1
             /\ clicks'[d][g].agg = clicks[d][g].agg
             /\ d # today => clicks'[d][g] = clicks[d][g]
 <2>1. CASE d = today /\ g = f
  <3>1. clicks'[d][g] = [raw |-> clicks[d][g].raw + 1, agg |-> clicks[d][g].agg, made |-> clicks[d][g].made + 1]
    BY <1>1, <2>1
  <3> QED
    BY <2>1, <3>1
 <2>2. CASE ~(d = today /\ g = f)
  <3>1. clicks'[d][g] = clicks[d][g]
    BY <1>1, <2>2
  <3> QED
    BY <2>2, <3>1
 <2> QED
   BY <2>1, <2>2
<1>5. ASSUME NEW d \in Day, NEW g \in Form
      PROVE  LET k == clicks'[d][g] IN
             /\ k.agg <= k.made /\ k.raw <= k.made
             /\ d \notin emptied' => k.raw = k.made
             /\ spoilt'[d] = {} => k.made <= k.agg + k.raw
 <2> DEFINE j == clicks[d][g]
 <2>1. /\ j.agg <= j.made /\ j.raw <= j.made
       /\ d \notin emptied => j.raw = j.made
       /\ spoilt[d] = {} => j.made <= j.agg + j.raw
   BY DEF ClicksInv
 <2>2. j.raw \in Nat /\ j.agg \in Nat /\ j.made \in Nat
   BY <1>4 DEF ClickCounts
 <2>3. spoilt'[d] = {} => spoilt[d] = {}
   BY <1>3
 <2> HIDE DEF j
 <2>4. CASE d = today /\ g = f
  <3>1. clicks'[d][g] = [raw |-> j.raw + 1, agg |-> j.agg, made |-> j.made + 1]
    BY <1>1, <2>4 DEF j
  <3> QED
    BY <1>2, <2>1, <2>2, <2>3, <3>1
 <2>5. CASE ~(d = today /\ g = f)
  <3>1. clicks'[d][g] = j
    BY <1>1, <2>5 DEF j
  <3> QED
    BY <1>2, <2>1, <2>2, <2>3, <3>1
 <2> QED
   BY <2>4, <2>5
<1>6. ASSUME NEW c \in Command, (Running(c) /\ run[c].op = "roll")' PROVE RollHolds(run[c])'
 <2> DEFINE r == run[c]
 <2>1. Running(c) /\ r.op = "roll" /\ RollHolds(r) /\ run'[c] = r
   BY <1>2, <1>6 DEF ClicksInv, Running
 <2>2. r.day \in Day /\ r.read \in [Form -> Nat]
   BY DEF IntelligenceType, RunType
 <2>3. ASSUME NEW g \in Form PROVE r.read[g] <= clicks'[r.day][g].made
  <3>1. r.read[g] <= clicks[r.day][g].made /\ clicks[r.day][g].made \in Nat /\ r.read[g] \in Nat
    BY <1>4, <2>1, <2>2 DEF RollHolds, ClickCounts
  <3>2. clicks'[r.day][g].made = clicks[r.day][g].made \/ clicks'[r.day][g].made = clicks[r.day][g].made + 1
    BY <1>8, <2>2
  <3> QED
    BY <3>1, <3>2
 <2>4. ASSUME spoilt'[r.day] = {}, NEW g \in Form
       PROVE  /\ g \notin r.forms => r.read[g] <= clicks'[r.day][g].agg
              /\ r.delete => r.read[g] = clicks'[r.day][g].made
  <3>1. spoilt[r.day] = {}
    BY <1>3, <2>2, <2>4
  <3>2. /\ g \notin r.forms => r.read[g] <= clicks[r.day][g].agg
        /\ r.delete => r.read[g] = clicks[r.day][g].made
    BY <2>1, <3>1 DEF RollHolds
  <3>3. clicks'[r.day][g].agg = clicks[r.day][g].agg
    BY <1>8, <2>2
  <3>4. r.delete => r.day # today
    BY <1>3, <2>1, <2>4 DEF Rolls
  <3>5. r.day # today => clicks'[r.day][g] = clicks[r.day][g]
    BY <1>8, <2>2
  <3> QED
    BY <3>2, <3>3, <3>4, <3>5
 <2>5. r.at = "delete" => r.delete /\ r.forms = {}
   BY <2>1 DEF RollHolds
 <2>6. spoilt'[r.day] = {} => r.day \notin emptied'
   BY <1>2, <1>3, <2>1, <2>2 DEF RollHolds
 <2> QED
   BY <2>1, <2>3, <2>4, <2>5, <2>6 DEF RollHolds
<1>7. ASSUME NEW c \in Command, NEW o \in Command, NEW d \in Day, Rolls(c, d)', Rolls(o, d)', spoilt'[d] = {} PROVE c = o
 <2>1. Rolls(c, d) /\ Rolls(o, d) /\ spoilt[d] = {}
   BY <1>2, <1>3, <1>7 DEF Rolls, Running
 <2> QED
   BY <2>1 DEF ClicksInv
<1> QED
  BY <1>5, <1>6, <1>7 DEF ClicksInv

LEMMA BeginRollKeeps ==
  ASSUME IntelligenceType, ClicksInv, NEW c \in Command, BeginRoll(c)
  PROVE  ClicksInv'
<1>1. ~Running(c) /\ UNCHANGED <<clicks, emptied>> /\ \A o \in Command \ {c} : run'[o] = run[o]
  BY BeginRollIs
<1>2. PICK d \in Day :
              /\ \A e \in Day : spoilt[e] \subseteq spoilt'[e]
              /\ spoilt'[d] = {} => d \notin emptied /\ \A o \in Command : ~Rolls(o, d)
              /\ \/ run'[c].at = "done"
                 \/ LET r == run'[c] IN
                    /\ r.op = "roll" /\ r.day = d /\ r.read = [f \in Form |-> clicks[d][f].raw]
                    /\ r.forms = {f \in Form : r.read[f] > 0}
                    /\ r.at = "delete" => r.delete /\ r.forms = {}
  BY BeginRollIs
<1>3. \A e \in Day : spoilt'[e] = {} => spoilt[e] = {}
  BY <1>2
<1>4. ASSUME NEW e \in Day, NEW f \in Form
      PROVE  LET k == clicks'[e][f] IN
             /\ k.agg <= k.made /\ k.raw <= k.made
             /\ e \notin emptied' => k.raw = k.made
             /\ spoilt'[e] = {} => k.made <= k.agg + k.raw
  BY <1>1, <1>3 DEF ClicksInv
<1>5. ASSUME NEW o \in Command \ {c}, (Running(o) /\ run[o].op = "roll")' PROVE RollHolds(run[o])'
 <2>1. Running(o) /\ run[o].op = "roll" /\ run'[o] = run[o]
   BY <1>1, <1>5 DEF Running
 <2>2. RollHolds(run[o]) /\ run[o].day \in Day
   BY <2>1 DEF ClicksInv, IntelligenceType, RunType
 <2> QED
   BY <1>1, <1>3, <2>1, <2>2 DEF RollHolds
<1>6. ASSUME (Running(c) /\ run[c].op = "roll")' PROVE RollHolds(run[c])'
 <2> DEFINE r == run'[c]
 <2>1. /\ r.op = "roll" /\ r.day = d /\ r.read = [f \in Form |-> clicks[d][f].raw]
       /\ r.forms = {f \in Form : r.read[f] > 0}
       /\ r.at = "delete" => r.delete /\ r.forms = {}
   BY <1>2, <1>6 DEF Running
 <2> HIDE DEF r
 <2>2. ASSUME NEW f \in Form
       PROVE  /\ clicks[d][f] \in ClickCounts /\ r.read[f] = clicks[d][f].raw /\ clicks[d][f].raw <= clicks[d][f].made
              /\ d \notin emptied => clicks[d][f].raw = clicks[d][f].made
   BY <2>1 DEF ClicksInv, IntelligenceType, ClickCounts
 <2>3. ASSUME NEW f \in Form PROVE r.read[f] <= clicks'[r.day][f].made
   BY <1>1, <2>1, <2>2
 <2>4. ASSUME spoilt'[d] = {} PROVE d \notin emptied
   BY <1>2, <2>4
 <2>5. ASSUME spoilt'[d] = {}, NEW f \in Form
       PROVE  /\ f \notin r.forms => r.read[f] <= clicks'[r.day][f].agg
              /\ r.read[f] = clicks'[r.day][f].made
  <3>1. f \notin r.forms => r.read[f] = 0
    BY <2>1, <2>2 DEF ClickCounts
  <3>2. 0 <= clicks[d][f].agg
    BY <2>2 DEF ClickCounts
  <3> QED
    BY <1>1, <2>1, <2>2, <2>4, <2>5, <3>1, <3>2
 <2> QED
   BY <1>1, <2>1, <2>3, <2>4, <2>5 DEF RollHolds, r
<1>7. ASSUME NEW a \in Command, NEW o \in Command, NEW e \in Day, Rolls(a, e)', Rolls(o, e)', spoilt'[e] = {}, a # o
      PROVE  FALSE
 <2>1. \A b \in Command \ {c} : Rolls(b, e)' => Rolls(b, e)
   BY <1>1 DEF Rolls, Running
 <2>2. Rolls(c, e)' => e = d
   BY <1>2 DEF Rolls, Running
 <2>3. CASE a # c /\ o # c
   BY <1>3, <1>7, <2>1, <2>3 DEF ClicksInv
 <2>4. CASE a = c
   BY <1>2, <1>7, <2>1, <2>2, <2>4
 <2>5. CASE o = c
   BY <1>2, <1>7, <2>1, <2>2, <2>5
 <2> QED
   BY <2>3, <2>4, <2>5
<1> QED
  BY <1>4, <1>5, <1>6, <1>7 DEF ClicksInv

LEMMA WriteGroupKeeps ==
  ASSUME IntelligenceType, ClicksInv, NEW c \in Command, WriteGroup(c)
  PROVE  ClicksInv'
<1> DEFINE q == run[c]
<1>1. Rolls(c, q.day) /\ q.day \in Day /\ UNCHANGED <<emptied, spoilt>> /\ \A o \in Command \ {c} : run'[o] = run[o]
  BY WriteGroupIs
<1>2. PICK f \in Form :
              /\ \A d \in Day, g \in Form :
                   clicks'[d][g] = IF d = q.day /\ g = f
                                   THEN [raw |-> clicks[d][g].raw, agg |-> q.read[f], made |-> clicks[d][g].made]
                                   ELSE clicks[d][g]
              /\ \/ run'[c].at = "done"
                 \/ LET r == run'[c] IN
                    /\ r.op = "roll" /\ r.day = q.day /\ r.read = q.read /\ r.delete = q.delete
                    /\ r.forms = q.forms \ {f}
                    /\ r.at = "delete" => r.delete /\ r.forms = {}
  BY WriteGroupIs
<1>3. RollHolds(q)
  BY <1>1 DEF ClicksInv, Rolls
<1>4. \A d \in Day, g \in Form : clicks[d][g] \in ClickCounts
  BY DEF IntelligenceType, ClickCounts
<1>5. q.read \in [Form -> Nat] /\ q.forms \in SUBSET Form
  BY DEF IntelligenceType, RunType
<1> HIDE DEF q
<1>6. \A d \in Day, g \in Form :
        /\ clicks'[d][g].made = clicks[d][g].made /\ clicks'[d][g].raw = clicks[d][g].raw
        /\ clicks'[d][g].agg = IF d = q.day /\ g = f THEN q.read[f] ELSE clicks[d][g].agg
 <2> SUFFICES ASSUME NEW d \in Day, NEW g \in Form
              PROVE  /\ clicks'[d][g].made = clicks[d][g].made /\ clicks'[d][g].raw = clicks[d][g].raw
                     /\ clicks'[d][g].agg = IF d = q.day /\ g = f THEN q.read[f] ELSE clicks[d][g].agg
   OBVIOUS
 <2>1. CASE d = q.day /\ g = f
  <3>1. clicks'[d][g] = [raw |-> clicks[d][g].raw, agg |-> q.read[f], made |-> clicks[d][g].made]
    BY <1>2, <2>1
  <3> QED
    BY <2>1, <3>1
 <2>2. CASE ~(d = q.day /\ g = f)
  <3>1. clicks'[d][g] = clicks[d][g]
    BY <1>2, <2>2
  <3> QED
    BY <2>2, <3>1
 <2> QED
   BY <2>1, <2>2
<1>7. ASSUME NEW e \in Day, NEW g \in Form
      PROVE  LET k == clicks'[e][g] IN
             /\ k.agg <= k.made /\ k.raw <= k.made
             /\ e \notin emptied' => k.raw = k.made
             /\ spoilt'[e] = {} => k.made <= k.agg + k.raw
 <2> DEFINE j == clicks[e][g]
 <2>1. /\ j.agg <= j.made /\ j.raw <= j.made
       /\ e \notin emptied => j.raw = j.made
       /\ spoilt[e] = {} => j.made <= j.agg + j.raw
   BY DEF ClicksInv
 <2>2. j.raw \in Nat /\ j.agg \in Nat /\ j.made \in Nat
   BY <1>4 DEF ClickCounts
 <2>3. clicks'[e][g].made = j.made /\ clicks'[e][g].raw = j.raw /\ emptied' = emptied /\ spoilt' = spoilt
   BY <1>1, <1>6
 <2>4. CASE e = q.day /\ g = f
  <3>1. q.read[f] <= j.made /\ (spoilt[e] = {} => e \notin emptied)
    BY <1>3, <2>4 DEF RollHolds
  <3>2. clicks'[e][g].agg = q.read[f] /\ q.read[f] \in Nat
    BY <1>5, <1>6, <2>4
  <3> HIDE DEF j
  <3> QED
    BY <2>1, <2>2, <2>3, <3>1, <3>2
 <2>5. CASE ~(e = q.day /\ g = f)
  <3>1. clicks'[e][g].agg = j.agg
    BY <1>6, <2>5
  <3> HIDE DEF j
  <3> QED
    BY <2>1, <2>2, <2>3, <3>1
 <2> QED
   BY <2>4, <2>5
<1>8. ASSUME NEW o \in Command \ {c}, (Running(o) /\ run[o].op = "roll")' PROVE RollHolds(run[o])'
 <2> DEFINE r == run[o]
 <2>1. Running(o) /\ r.op = "roll" /\ run'[o] = r
   BY <1>1, <1>8 DEF Running
 <2>2. RollHolds(r) /\ r.day \in Day
   BY <2>1 DEF ClicksInv, IntelligenceType, RunType
 <2>3. spoilt[r.day] = {} => r.day # q.day
   BY <1>1, <2>1, <2>2 DEF ClicksInv, Rolls
 <2>4. \A g \in Form : clicks'[r.day][g].made = clicks[r.day][g].made
   BY <1>6, <2>2
 <2>5. \A g \in Form : spoilt[r.day] = {} => clicks'[r.day][g].agg = clicks[r.day][g].agg
   BY <1>6, <2>2, <2>3
 <2> HIDE DEF r
 <2>6. RollHolds(r)'
   BY <1>1, <2>1, <2>2, <2>4, <2>5 DEF RollHolds, r
 <2> QED
   BY <2>1, <2>6 DEF r
<1>9. ASSUME (Running(c) /\ run[c].op = "roll")' PROVE RollHolds(run[c])'
 <2> DEFINE r == run'[c]
 <2>1. /\ r.op = "roll" /\ r.day = q.day /\ r.read = q.read /\ r.delete = q.delete
       /\ r.forms = q.forms \ {f}
       /\ r.at = "delete" => r.delete /\ r.forms = {}
   BY <1>2, <1>9 DEF Running
 <2> HIDE DEF r
 <2>2. \A g \in Form : r.read[g] <= clicks'[r.day][g].made
   BY <1>1, <1>3, <1>6, <2>1 DEF RollHolds
 <2>3. ASSUME spoilt'[q.day] = {}, NEW g \in Form
       PROVE  /\ g \notin r.forms => r.read[g] <= clicks'[r.day][g].agg
              /\ r.delete => r.read[g] = clicks'[r.day][g].made
  <3>1. /\ g \notin q.forms => q.read[g] <= clicks[q.day][g].agg
        /\ q.delete => q.read[g] = clicks[q.day][g].made
    BY <1>1, <1>3, <2>3 DEF RollHolds
  <3>2. q.read[g] \in Nat
    BY <1>5
  <3>3. CASE g = f
    BY <1>1, <1>6, <2>1, <3>1, <3>2, <3>3
  <3>4. CASE g # f
    BY <1>1, <1>6, <2>1, <3>1, <3>4
  <3> QED
    BY <3>3, <3>4
 <2>4. spoilt'[q.day] = {} => q.day \notin emptied'
   BY <1>1, <1>3 DEF RollHolds
 <2> QED
   BY <2>1, <2>2, <2>3, <2>4 DEF RollHolds, r
<1>10. ASSUME NEW a \in Command, NEW o \in Command, NEW e \in Day, Rolls(a, e)', Rolls(o, e)', spoilt'[e] = {} PROVE a = o
 <2>1. \A b \in Command \ {c} : Rolls(b, e)' => Rolls(b, e)
   BY <1>1 DEF Rolls, Running
 <2>2. Rolls(c, e)' => Rolls(c, e)
   BY <1>1, <1>2 DEF Rolls, Running
 <2>3. Rolls(a, e) /\ Rolls(o, e) /\ spoilt[e] = {}
   BY <1>1, <1>10, <2>1, <2>2
 <2> QED
   BY <2>3 DEF ClicksInv
<1> QED
  BY <1>7, <1>8, <1>9, <1>10 DEF ClicksInv

LEMMA DeleteRawKeeps ==
  ASSUME IntelligenceType, ClicksInv, NEW c \in Command, DeleteRaw(c)
  PROVE  ClicksInv'
<1> DEFINE q == run[c]
<1>1. /\ Rolls(c, q.day) /\ q.day \in Day /\ UNCHANGED spoilt /\ q.at = "delete" /\ emptied' = emptied \cup {q.day}
      /\ run'[c].at = "done" /\ \A o \in Command \ {c} : run'[o] = run[o]
      /\ \A d \in Day, g \in Form :
              clicks'[d][g] = IF d = q.day
                              THEN [raw |-> 0, agg |-> clicks[d][g].agg, made |-> clicks[d][g].made]
                              ELSE clicks[d][g]
  BY DeleteRawIs
<1>2. RollHolds(q)
  BY <1>1 DEF ClicksInv, Rolls
<1>3. \A d \in Day, g \in Form : clicks[d][g] \in ClickCounts
  BY DEF IntelligenceType, ClickCounts
<1> HIDE DEF q
<1>4. \A d \in Day, g \in Form :
        /\ clicks'[d][g].made = clicks[d][g].made /\ clicks'[d][g].agg = clicks[d][g].agg
        /\ clicks'[d][g].raw = IF d = q.day THEN 0 ELSE clicks[d][g].raw
 <2> SUFFICES ASSUME NEW d \in Day, NEW g \in Form
              PROVE  /\ clicks'[d][g].made = clicks[d][g].made /\ clicks'[d][g].agg = clicks[d][g].agg
                     /\ clicks'[d][g].raw = IF d = q.day THEN 0 ELSE clicks[d][g].raw
   OBVIOUS
 <2>1. CASE d = q.day
  <3>1. clicks'[d][g] = [raw |-> 0, agg |-> clicks[d][g].agg, made |-> clicks[d][g].made]
    BY <1>1, <2>1
  <3> QED
    BY <2>1, <3>1
 <2>2. CASE d # q.day
  <3>1. clicks'[d][g] = clicks[d][g]
    BY <1>1, <2>2
  <3> QED
    BY <2>2, <3>1
 <2> QED
   BY <2>1, <2>2
<1>5. ASSUME NEW e \in Day, NEW g \in Form
      PROVE  LET k == clicks'[e][g] IN
             /\ k.agg <= k.made /\ k.raw <= k.made
             /\ e \notin emptied' => k.raw = k.made
             /\ spoilt'[e] = {} => k.made <= k.agg + k.raw
 <2> DEFINE j == clicks[e][g]
 <2>1. /\ j.agg <= j.made /\ j.raw <= j.made
       /\ e \notin emptied => j.raw = j.made
       /\ spoilt[e] = {} => j.made <= j.agg + j.raw
   BY DEF ClicksInv
 <2>2. j.raw \in Nat /\ j.agg \in Nat /\ j.made \in Nat
   BY <1>3 DEF ClickCounts
 <2>3. clicks'[e][g].made = j.made /\ clicks'[e][g].agg = j.agg /\ spoilt' = spoilt
   BY <1>1, <1>4
 <2>4. CASE e = q.day
  <3>1. spoilt[e] = {} => j.made <= j.agg
    BY <1>1, <1>2, <2>4 DEF RollHolds
  <3>2. clicks'[e][g].raw = 0 /\ e \in emptied'
    BY <1>1, <1>4, <2>4
  <3> HIDE DEF j
  <3> QED
    BY <2>1, <2>2, <2>3, <3>1, <3>2
 <2>5. CASE e # q.day
  <3>1. clicks'[e][g].raw = j.raw /\ (e \notin emptied' => e \notin emptied)
    BY <1>1, <1>4, <2>5
  <3> HIDE DEF j
  <3> QED
    BY <2>1, <2>2, <2>3, <3>1
 <2> QED
   BY <2>4, <2>5
<1>6. ASSUME NEW o \in Command, (Running(o) /\ run[o].op = "roll")' PROVE RollHolds(run[o])'
 <2> DEFINE r == run[o]
 <2>1. o # c /\ Running(o) /\ r.op = "roll" /\ run'[o] = r
   BY <1>1, <1>6 DEF Running
 <2>2. RollHolds(r) /\ r.day \in Day
   BY <2>1 DEF ClicksInv, IntelligenceType, RunType
 <2>3. spoilt[r.day] = {} => r.day # q.day
   BY <1>1, <2>1, <2>2 DEF ClicksInv, Rolls
 <2>4. \A g \in Form : clicks'[r.day][g].made = clicks[r.day][g].made /\ clicks'[r.day][g].agg = clicks[r.day][g].agg
   BY <1>4, <2>2
 <2> HIDE DEF r
 <2>5. RollHolds(r)'
   BY <1>1, <2>1, <2>2, <2>3, <2>4 DEF RollHolds, r
 <2> QED
   BY <2>1, <2>5 DEF r
<1>7. ASSUME NEW a \in Command, NEW o \in Command, NEW e \in Day, Rolls(a, e)', Rolls(o, e)', spoilt'[e] = {} PROVE a = o
 <2>1. a # c /\ o # c
   BY <1>1, <1>7 DEF Rolls, Running
 <2>2. Rolls(a, e) /\ Rolls(o, e) /\ spoilt[e] = {}
   BY <1>1, <1>7, <2>1 DEF Rolls, Running
 <2> QED
   BY <2>2 DEF ClicksInv
<1> QED
  BY <1>5, <1>6, <1>7 DEF ClicksInv

ReportActions(c) ==
  \/ BeginReport(c) \/ ReadWeeks(c) \/ ReadClicked(c) \/ ReadRows(c) \/ ReadStats(c)
  \/ ReadPairs(c) \/ ReadSearches(c) \/ ReadRatio(c) \/ ReadTop(c) \/ ReadTopRatio(c)

LEMMA TypeStep ==
  ASSUME IntelligenceType, [IntelligenceNext]_intelligenceVars
  PROVE  IntelligenceType'
<1>1. ASSUME NEW c \in Command, ReportActions(c) PROVE IntelligenceType'
  BY <1>1, ReportsOn, ReportsKeep DEF ReportActions, Data
<1>2. ASSUME NEW c \in Command,
             BeginLearn(c) \/ CheckExisting(c) \/ CreateRewrite(c) \/ BeginRoll(c) \/ WriteGroup(c) \/ DeleteRaw(c)
      PROVE  IntelligenceType'
  BY <1>2, BeginLearnIs, CheckIs, CreateIs, BeginRollIs, WriteGroupIs, DeleteRawIs
<1>3. CASE UNCHANGED intelligenceVars
  BY <1>3 DEF IntelligenceType, intelligenceVars
<1>4. CASE Search \/ Change \/ NextDay \/ clear_query_aggregates \/ Admin \/ Click \/ Kill
  BY <1>4, SearchType, ChangeType, NextDayType, ClearType, AdminType, ClickIs, KillKeeps
<1> QED
  BY <1>1, <1>2, <1>3, <1>4 DEF IntelligenceNext, ReportActions

LEMMA ClicksStep ==
  ASSUME IntelligenceType, ClicksInv, [IntelligenceNext]_intelligenceVars
  PROVE  ClicksInv'
<1>1. ASSUME NEW c \in Command, ReportActions(c) PROVE ClicksInv'
  BY <1>1, ReportsOn, ReportsKeep, NoRollKeeps DEF ReportActions, Data
<1>2. ASSUME NEW c \in Command, BeginLearn(c) \/ CheckExisting(c) \/ CreateRewrite(c) PROVE ClicksInv'
 <2>1. UNCHANGED <<clicks, emptied, spoilt>>
   BY <1>2 DEF BeginLearn, CheckExisting, CreateRewrite
 <2> QED
   BY <1>2, <2>1, BeginLearnIs, CheckIs, CreateIs, NoRollKeeps
<1>3. ASSUME NEW c \in Command, BeginRoll(c) \/ WriteGroup(c) \/ DeleteRaw(c) PROVE ClicksInv'
  BY <1>3, BeginRollKeeps, WriteGroupKeeps, DeleteRawKeeps
<1>4. CASE UNCHANGED intelligenceVars \/ Search \/ Change \/ NextDay \/ Admin
 <2>1. UNCHANGED <<run, clicks, emptied, spoilt>>
  <3>1. CASE Search
    BY <3>1 DEF Search
  <3> QED
    BY <1>4, <3>1 DEF intelligenceVars, Change, NextDay, Admin
 <2>2. NoRollBegins
   BY <2>1 DEF NoRollBegins, Running
 <2> QED
   BY <2>1, <2>2, NoRollKeeps
<1>5. CASE clear_query_aggregates \/ Kill
 <2>1. UNCHANGED <<clicks, emptied, spoilt>>
   BY <1>5 DEF clear_query_aggregates, Kill
 <2> QED
   BY <1>5, <2>1, ClearType, KillKeeps, NoRollKeeps
<1>6. CASE Click
  BY <1>6, ClickKeeps
<1> QED
  BY <1>1, <1>2, <1>3, <1>4, <1>5, <1>6 DEF IntelligenceNext, ReportActions

(* No click is counted twice by the roll-up, and none whose row was deleted is *)
(* lost, for any number of commands: a day is only wrong after a click came    *)
(* between its reading and its deleting, it was rolled up again after its rows *)
(* were deleted, or two commands were at it together                           *)
(* (icv_search_click_aggregate).                                               *)
THEOREM IntelligenceClicksKept == IntelligenceSpec => []ClicksKept
<1>1. IntelligenceInit => IntelligenceType /\ ClicksInv
  BY InitIntelligenceType, InitClicks
<1>2. IntelligenceType /\ ClicksInv /\ [IntelligenceNext]_intelligenceVars => IntelligenceType' /\ ClicksInv'
  BY TypeStep, ClicksStep
<1>3. IntelligenceType /\ ClicksInv => ClicksKept
  BY DEF ClicksInv, ClicksKept
<1> QED
  BY <1>1, <1>2, <1>3, PTL DEF IntelligenceSpec

(* ------------------------------- rewrites -------------------------------- *)

(* A count says what the tenant's documents answered, unless they changed      *)
(* since or a filter left none of them.                                        *)
CountsHold ==
  \A d \in Day, t \in Tenant, q \in Query :
    LET k == counts[d][t][q] IN
    /\ k.zero <= k.total
    /\ k.total > 0 => <<t, q>> \in counted
    /\ <<t, q>> \notin changed => /\ k.zero > 0 /\ <<t, q>> \notin narrowed => q \notin content[t]
                                  /\ k.zero < k.total => q \in content[t]

(* What a suggestion promises the one tenant whose searches it was drawn from. *)
Good(scope, s) ==
  \A t \in Tenant : (scope \in {t, ""} /\ s.of \subseteq {t}) =>
    /\ <<t, s.from>> \in counted /\ <<t, s.to>> \in counted
    /\ {<<t, s.from>>, <<t, s.to>>} \cap changed = {} /\ <<t, s.from>> \notin narrowed => Helps(s, t)

RewritesGood == \A i \in 1..Len(rewrites) : Good(rewrites[i].tenant, rewrites[i])
LearnersGood == \A c \in Command : Running(c) /\ run[c].op = "learn" =>
                  \A i \in 1..Len(run[c].todo) : Good(run[c].scope, run[c].todo[i])
LearnersAlone == \A c, o \in Command : \A scope \in Tenant :
                   Learns(c, scope) /\ Learns(o, scope) /\ c # o => ~run[c].alone
NotYet == \A c \in Command : Running(c) /\ run[c].op = "learn" /\ run[c].at = "create" /\ run[c].alone =>
            ~Exists(run[c].scope, Head(run[c].todo).from)

LearnInv == CountsHold /\ RewritesGood /\ LearnersGood /\ LearnersAlone /\ NotYet /\ OneRewrite

LEMMA InitLearn == IntelligenceInit => LearnInv
<1> SUFFICES ASSUME IntelligenceInit PROVE LearnInv
  OBVIOUS
<1>1. \A d \in Day, t \in Tenant, q \in Query : counts[d][t][q] = [total |-> 0, zero |-> 0]
  BY DEF IntelligenceInit
<1>2. CountsHold
  BY <1>1 DEF CountsHold
<1>3. rewrites = <<>>
  BY DEF IntelligenceInit
<1>4. \A c \in Command : ~Running(c)
  BY NoRunDone DEF IntelligenceInit, Running
<1>5. RewritesGood /\ OneRewrite
  BY <1>3 DEF RewritesGood, OneRewrite
<1>6. LearnersGood /\ LearnersAlone /\ NotYet
  BY <1>4 DEF LearnersGood, LearnersAlone, NotYet, Learns
<1> QED
  BY <1>2, <1>5, <1>6 DEF LearnInv

(* A command that learns did so before, and what it has to do was already so.  *)
NoLearnBegins ==
  \A c \in Command : (Running(c) /\ run[c].op = "learn")' =>
    /\ Running(c) /\ run[c].op = "learn" /\ run'[c].scope = run[c].scope /\ (run'[c].alone => run[c].alone)
    /\ \A i \in 1..Len(run'[c].todo) : \E j \in 1..Len(run[c].todo) : run'[c].todo[i] = run[c].todo[j]
    /\ run'[c].at = "create" => \/ run[c].at = "create" /\ run'[c].todo = run[c].todo
                                \/ ~Exists(run[c].scope, Head(run'[c].todo).from)

LEMMA NoLearnKeeps ==
  ASSUME LearnInv, NoLearnBegins, UNCHANGED <<content, rewrites, counted, narrowed, changed>>
  PROVE  RewritesGood' /\ LearnersGood' /\ LearnersAlone' /\ NotYet' /\ OneRewrite'
<1>1. \A scope, s : Good(scope, s)' <=> Good(scope, s)
  BY DEF Good, Helps
<1>2. RewritesGood' /\ OneRewrite'
  BY <1>1 DEF LearnInv, RewritesGood, OneRewrite
<1>3. LearnersGood'
 <2> SUFFICES ASSUME NEW c \in Command, (Running(c) /\ run[c].op = "learn")', NEW i \in 1..Len(run'[c].todo)
              PROVE  Good(run[c].scope, run[c].todo[i])'
   BY DEF LearnersGood
 <2>1. /\ Running(c) /\ run[c].op = "learn" /\ run'[c].scope = run[c].scope
       /\ \E j \in 1..Len(run[c].todo) : run'[c].todo[i] = run[c].todo[j]
   BY DEF NoLearnBegins
 <2>2. Good(run[c].scope, run'[c].todo[i])
   BY <2>1 DEF LearnInv, LearnersGood
 <2> DEFINE s == run'[c].todo[i]
            scope == run[c].scope
 <2>3. Good(scope, s)
   BY <2>2
 <2>4. run'[c].scope = scope
   BY <2>1
 <2> HIDE DEF s, scope
 <2>5. \A t \in Tenant : (scope \in {t, ""} /\ s.of \subseteq {t}) =>
         /\ <<t, s.from>> \in counted' /\ <<t, s.to>> \in counted'
         /\ {<<t, s.from>>, <<t, s.to>>} \cap changed' = {} /\ <<t, s.from>> \notin narrowed' => s.from \notin content'[t] /\ s.to \in content'[t]
   BY <2>3 DEF Good, Helps
 <2> QED
   BY <2>4, <2>5 DEF Good, Helps, s
<1>4. LearnersAlone'
 <2> SUFFICES ASSUME NEW c \in Command, NEW o \in Command, NEW scope \in Tenant,
                     Learns(c, scope)', Learns(o, scope)', c # o
              PROVE  ~run'[c].alone
   BY DEF LearnersAlone
 <2>1. Learns(c, scope) /\ Learns(o, scope) /\ (run'[c].alone => run[c].alone)
   BY DEF NoLearnBegins, Learns, Running
 <2> QED
   BY <2>1 DEF LearnInv, LearnersAlone
<1>5. NotYet'
 <2> SUFFICES ASSUME NEW c \in Command, (Running(c) /\ run[c].op = "learn" /\ run[c].at = "create" /\ run[c].alone)'
              PROVE  ~Exists(run[c].scope, Head(run[c].todo).from)'
   BY DEF NotYet
 <2>1. /\ Running(c) /\ run[c].op = "learn" /\ run'[c].scope = run[c].scope /\ run[c].alone
       /\ \/ run[c].at = "create" /\ run'[c].todo = run[c].todo
          \/ ~Exists(run[c].scope, Head(run'[c].todo).from)
   BY DEF NoLearnBegins
 <2>2. ~Exists(run'[c].scope, Head(run'[c].todo).from)
   BY <2>1 DEF LearnInv, NotYet
 <2> QED
   BY <2>2 DEF Exists
<1> QED
  BY <1>2, <1>3, <1>4, <1>5

(* One command does something else than learn, or stops.                       *)
LEMMA OtherDoes ==
  ASSUME IntelligenceType, NEW c \in Command, \A o \in Command \ {c} : run'[o] = run[o],
         run'[c].op # "learn" \/ run'[c].at = "done"
  PROVE  NoLearnBegins
BY DEF NoLearnBegins, Running

LEMMA TailsOf ==
  ASSUME NEW T, NEW s \in Seq(T), s # <<>>
  PROVE  \A i \in 1..Len(Tail(s)) : \E j \in 1..Len(s) : Tail(s)[i] = s[j]
<1>1. /\ Len(Tail(s)) = Len(s) - 1 /\ Len(s) \in Nat
      /\ \A i \in 1..Len(Tail(s)) : Tail(s)[i] = s[i + 1]
  BY HeadTailProperties, LenProperties
<1>2. ASSUME NEW i \in 1..Len(Tail(s)) PROVE \E j \in 1..Len(s) : Tail(s)[i] = s[j]
 <2>1. i + 1 \in 1..Len(s)
   BY <1>1
 <2> QED
   BY <1>1, <2>1
<1> QED
  BY <1>2

LEMMA CheckBegins ==
  ASSUME IntelligenceType, NEW c \in Command, CheckExisting(c)
  PROVE  NoLearnBegins
<1>1. run[c].op = "learn" /\ run[c].at = "check"
  BY CheckIs
<1>2. PICK r :     /\ RunType(r) /\ Does(c, r)
                   /\ \/ r = NoRun
                      \/ /\ r.op = "learn" /\ r.at = "check" /\ r.scope = run[c].scope /\ r.alone = run[c].alone
                         /\ Len(run[c].todo) # 1 /\ r.todo = Tail(run[c].todo)
                      \/ /\ r.op = "learn" /\ r.at = "create" /\ r.scope = run[c].scope /\ r.alone = run[c].alone
                         /\ r.todo = run[c].todo /\ ~Exists(r.scope, Head(r.todo).from)
  BY CheckIs
<1>3. run'[c] = r /\ \A o \in Command \ {c} : run'[o] = run[o]
  BY <1>2, DoesOne DEF IntelligenceType
<1>4. CASE r = NoRun
  BY <1>3, <1>4, NoRunDone, OtherDoes
<1>5. CASE r # NoRun
 <2>1. \A i \in 1..Len(r.todo) : \E j \in 1..Len(run[c].todo) : r.todo[i] = run[c].todo[j]
  <3>1. CASE r.todo = run[c].todo
    BY <3>1
  <3>2. CASE r.todo = Tail(run[c].todo)
   <4>1. run[c].todo \in Seq(Suggestion) /\ run[c].todo # <<>>
     BY <1>1 DEF IntelligenceType, RunType
   <4> QED
     BY <3>2, <4>1, TailsOf
  <3> QED
    BY <1>2, <1>5, <3>1, <3>2
 <2>2. Running(c) /\ r.scope = run[c].scope /\ r.alone = run[c].alone
   BY <1>1, <1>2, <1>5 DEF Running
 <2>3. r.at = "create" => ~Exists(run[c].scope, Head(r.todo).from)
   BY <1>2, <1>5, <2>2
 <2>4. /\ Running(c) /\ run[c].op = "learn" /\ run'[c].scope = run[c].scope /\ (run'[c].alone => run[c].alone)
       /\ \A i \in 1..Len(run'[c].todo) : \E j \in 1..Len(run[c].todo) : run'[c].todo[i] = run[c].todo[j]
       /\ run'[c].at = "create" => ~Exists(run[c].scope, Head(run'[c].todo).from)
   BY <1>1, <1>3, <2>1, <2>2, <2>3
 <2>5. ASSUME NEW o \in Command \ {c}, (Running(o) /\ run[o].op = "learn")'
       PROVE  /\ Running(o) /\ run[o].op = "learn" /\ run'[o].scope = run[o].scope /\ (run'[o].alone => run[o].alone)
              /\ \A i \in 1..Len(run'[o].todo) : \E j \in 1..Len(run[o].todo) : run'[o].todo[i] = run[o].todo[j]
              /\ run'[o].at = "create" => run[o].at = "create" /\ run'[o].todo = run[o].todo
   BY <1>3, <2>5 DEF Running
 <2> QED
   BY <2>4, <2>5 DEF NoLearnBegins
<1> QED
  BY <1>4, <1>5

(* What was counted stays so, and documents change for what is marked so.      *)
Remembers ==
  /\ counted \subseteq counted' /\ narrowed \subseteq narrowed' /\ changed \subseteq changed'
  /\ \A t \in Tenant, q \in Query : (<<t, q>> \in counted /\ <<t, q>> \notin changed') =>
       (q \in content'[t] <=> q \in content[t])

LEMMA GoodStays ==
  ASSUME IntelligenceType, Remembers
  PROVE  \A scope, s : Good(scope, s) => Good(scope, s)'
<1> SUFFICES ASSUME NEW scope, NEW s, Good(scope, s) PROVE Good(scope, s)'
  OBVIOUS
<1>1. SUFFICES ASSUME NEW t \in Tenant, scope \in {t, ""}, s.of \subseteq {t}
               PROVE  /\ <<t, s.from>> \in counted' /\ <<t, s.to>> \in counted'
                      /\ {<<t, s.from>>, <<t, s.to>>} \cap changed' = {} /\ <<t, s.from>> \notin narrowed' => s.from \notin content'[t] /\ s.to \in content'[t]
  BY DEF Good, Helps
<1>2. /\ <<t, s.from>> \in counted /\ <<t, s.to>> \in counted
      /\ {<<t, s.from>>, <<t, s.to>>} \cap changed = {} /\ <<t, s.from>> \notin narrowed => s.from \notin content[t] /\ s.to \in content[t]
  BY <1>1 DEF Good, Helps
<1>3. s.from \in Query /\ s.to \in Query
  BY <1>2 DEF IntelligenceType
<1> QED
  BY <1>2, <1>3 DEF Remembers

LEMMA RemembersKeeps ==
  ASSUME IntelligenceType, LearnInv, Remembers, UNCHANGED <<rewrites, run>>
  PROVE  RewritesGood' /\ LearnersGood' /\ LearnersAlone' /\ NotYet' /\ OneRewrite'
<1>1. \A scope, s : Good(scope, s) => Good(scope, s)'
  BY GoodStays
<1>2. LearnersAlone' /\ NotYet' /\ OneRewrite'
  BY DEF LearnInv, LearnersAlone, NotYet, OneRewrite, Learns, Running, Exists
<1>3. RewritesGood'
 <2> SUFFICES ASSUME NEW i \in 1..Len(rewrites) PROVE Good(rewrites[i].tenant, rewrites[i])'
   BY DEF RewritesGood
 <2> DEFINE s == rewrites[i]
            scope == s.tenant
 <2>1. Good(scope, s) /\ rewrites'[i] = s
   BY DEF LearnInv, RewritesGood
 <2> HIDE DEF s
 <2>2. \A t \in Tenant : (scope \in {t, ""} /\ s.of \subseteq {t}) =>
         /\ <<t, s.from>> \in counted' /\ <<t, s.to>> \in counted'
         /\ {<<t, s.from>>, <<t, s.to>>} \cap changed' = {} /\ <<t, s.from>> \notin narrowed' => s.from \notin content'[t] /\ s.to \in content'[t]
  <3>1. \A u \in {scope}, v \in {s} : Good(u, v) => Good(u, v)'
    BY <1>1
  <3>2. ASSUME NEW u \in {scope}, NEW v \in {s}, Good(u, v)'
        PROVE  \A t \in Tenant : (u \in {t, ""} /\ v.of \subseteq {t}) =>
                 /\ <<t, v.from>> \in counted' /\ <<t, v.to>> \in counted'
                 /\ {<<t, v.from>>, <<t, v.to>>} \cap changed' = {} /\ <<t, v.from>> \notin narrowed' => v.from \notin content'[t] /\ v.to \in content'[t]
    BY <3>2 DEF Good, Helps
  <3> QED
    BY <2>1, <3>1, <3>2
 <2> QED
   BY <2>1, <2>2 DEF Good, Helps
<1>4. LearnersGood'
 <2> SUFFICES ASSUME NEW c \in Command, (Running(c) /\ run[c].op = "learn")', NEW i \in 1..Len(run'[c].todo)
              PROVE  Good(run[c].scope, run[c].todo[i])'
   BY DEF LearnersGood
 <2> DEFINE s == run[c].todo[i]
            scope == run[c].scope
 <2>1. Good(scope, s) /\ run'[c].todo[i] = s /\ run'[c].scope = scope
   BY DEF LearnInv, LearnersGood, Running
 <2> HIDE DEF s, scope
 <2>2. \A t \in Tenant : (scope \in {t, ""} /\ s.of \subseteq {t}) =>
         /\ <<t, s.from>> \in counted' /\ <<t, s.to>> \in counted'
         /\ {<<t, s.from>>, <<t, s.to>>} \cap changed' = {} /\ <<t, s.from>> \notin narrowed' => s.from \notin content'[t] /\ s.to \in content'[t]
  <3>1. \A u \in {scope}, v \in {s} : Good(u, v) => Good(u, v)'
    BY <1>1
  <3>2. ASSUME NEW u \in {scope}, NEW v \in {s}, Good(u, v)'
        PROVE  \A t \in Tenant : (u \in {t, ""} /\ v.of \subseteq {t}) =>
                 /\ <<t, v.from>> \in counted' /\ <<t, v.to>> \in counted'
                 /\ {<<t, v.from>>, <<t, v.to>>} \cap changed' = {} /\ <<t, v.from>> \notin narrowed' => v.from \notin content'[t] /\ v.to \in content'[t]
    BY <3>2 DEF Good, Helps
  <3> QED
    BY <2>1, <3>1, <3>2
 <2> QED
   BY <2>1, <2>2 DEF Good, Helps
<1> QED
  BY <1>2, <1>3, <1>4

LEMMA SearchLearns ==
  ASSUME IntelligenceType, LearnInv, Search
  PROVE  LearnInv'
<1>1. UNCHANGED <<content, changed, rewrites, run>>
  BY DEF Search
<1>2. PICK t \in Tenant, q \in Query, found \in BOOLEAN :
           /\ counts' \in CountsType /\ counted' = counted \cup {<<t, q>>}
           /\ narrowed \subseteq narrowed'
           /\ found => q \in content[t]
           /\ q \in content[t] /\ ~found => <<t, q>> \in narrowed'
           /\ counts'[today][t][q] = [total |-> counts[today][t][q].total + 1,
                                      zero |-> IF found THEN counts[today][t][q].zero
                                               ELSE counts[today][t][q].zero + 1]
           /\ \A d \in Day, u \in Tenant, p \in Query :
                <<d, u, p>> # <<today, t, q>> => counts'[d][u][p] = counts[d][u][p]
  BY SearchCounts
<1>3. Remembers
  BY <1>1, <1>2 DEF Remembers
<1>4. ASSUME NEW d \in Day, NEW u \in Tenant, NEW p \in Query
      PROVE  LET k == counts'[d][u][p] IN
             /\ k.zero <= k.total
             /\ k.total > 0 => <<u, p>> \in counted'
             /\ <<u, p>> \notin changed' => /\ k.zero > 0 /\ <<u, p>> \notin narrowed' => p \notin content'[u]
                                            /\ k.zero < k.total => p \in content'[u]
 <2> DEFINE j == counts[d][u][p]
 <2>1. /\ j.zero <= j.total
       /\ j.total > 0 => <<u, p>> \in counted
       /\ <<u, p>> \notin changed => /\ j.zero > 0 /\ <<u, p>> \notin narrowed => p \notin content[u]
                                     /\ j.zero < j.total => p \in content[u]
   BY DEF LearnInv, CountsHold
 <2>2. j.zero \in Nat /\ j.total \in Nat
   BY DEF IntelligenceType, CountsType
 <2> HIDE DEF j
 <2>3. CASE <<d, u, p>> = <<today, t, q>>
  <3>1. counts'[d][u][p] = [total |-> j.total + 1, zero |-> IF found THEN j.zero ELSE j.zero + 1]
    BY <1>2, <2>3 DEF j
  <3>2. <<u, p>> \in counted'
    BY <1>2, <2>3
  <3>3. CASE found
   <4>1. counts'[d][u][p].total = j.total + 1 /\ counts'[d][u][p].zero = j.zero /\ p \in content[u]
     BY <1>2, <2>3, <3>1, <3>3
   <4>2. <<u, p>> \notin narrowed' => <<u, p>> \notin narrowed
     BY <1>2
   <4> QED
     BY <1>1, <2>1, <2>2, <3>2, <4>1, <4>2
  <3>4. CASE ~found
   <4>1. /\ counts'[d][u][p].total = j.total + 1 /\ counts'[d][u][p].zero = j.zero + 1
         /\ <<u, p>> \notin narrowed' => p \notin content[u]
     BY <1>2, <2>3, <3>1, <3>4
   <4> QED
     BY <1>1, <2>1, <2>2, <3>2, <4>1
  <3> QED
    BY <3>3, <3>4
 <2>4. CASE <<d, u, p>> # <<today, t, q>>
  <3>1. counts'[d][u][p] = j
    BY <1>2, <2>4 DEF j
  <3> QED
    BY <1>1, <1>2, <2>1, <3>1
 <2> QED
   BY <2>3, <2>4
<1>5. CountsHold'
  BY <1>4 DEF CountsHold
<1> QED
  BY <1>1, <1>3, <1>5, RemembersKeeps DEF LearnInv

LEMMA ChangeLearns ==
  ASSUME IntelligenceType, LearnInv, Change
  PROVE  LearnInv'
<1>1. UNCHANGED <<counts, counted, narrowed, rewrites, run>>
  BY DEF Change
<1>2. PICK t \in Tenant, q \in dep.queries :
       /\ content' = [content EXCEPT ![t] = IF q \in @ THEN @ \ {q} ELSE @ \cup {q}]
       /\ changed' = changed \cup (counted \cap {<<t, q>>})
  BY DEF Change
<1>3. ASSUME NEW u \in Tenant, NEW p \in Query, <<u, p>> \in counted, <<u, p>> \notin changed'
      PROVE  p \in content'[u] <=> p \in content[u]
 <2>1. u # t \/ p # q
   BY <1>2, <1>3
 <2> QED
   BY <1>2, <2>1 DEF IntelligenceType
<1>4. Remembers
  BY <1>1, <1>2, <1>3 DEF Remembers
<1>5. ASSUME NEW d \in Day, NEW u \in Tenant, NEW p \in Query
      PROVE  LET k == counts'[d][u][p] IN
             /\ k.zero <= k.total
             /\ k.total > 0 => <<u, p>> \in counted'
             /\ <<u, p>> \notin changed' => /\ k.zero > 0 /\ <<u, p>> \notin narrowed' => p \notin content'[u]
                                            /\ k.zero < k.total => p \in content'[u]
 <2> DEFINE j == counts[d][u][p]
 <2>1. /\ j.zero <= j.total
       /\ j.total > 0 => <<u, p>> \in counted
       /\ <<u, p>> \notin changed => /\ j.zero > 0 /\ <<u, p>> \notin narrowed => p \notin content[u]
                                     /\ j.zero < j.total => p \in content[u]
   BY DEF LearnInv, CountsHold
 <2>2. j.zero \in Nat /\ j.total \in Nat
   BY DEF IntelligenceType, CountsType
 <2>3. counts'[d][u][p] = j /\ counted' = counted /\ narrowed' = narrowed /\ (<<u, p>> \notin changed' => <<u, p>> \notin changed)
   BY <1>1, <1>2
 <2> HIDE DEF j
 <2>4. CASE <<u, p>> \in counted
   BY <1>3, <2>1, <2>3, <2>4
 <2>5. CASE <<u, p>> \notin counted
  <3>1. j.total = 0 /\ j.zero = 0
    BY <2>1, <2>2, <2>5
  <3> QED
    BY <2>3, <3>1
 <2> QED
   BY <2>4, <2>5
<1>6. CountsHold'
  BY <1>5 DEF CountsHold
<1> QED
  BY <1>1, <1>4, <1>6, RemembersKeeps DEF LearnInv

LEMMA SameCounts ==
  ASSUME CountsHold, UNCHANGED <<content, counts, counted, narrowed, changed>>
  PROVE  CountsHold'
BY DEF CountsHold

LEMMA ClearLearns ==
  ASSUME IntelligenceType, LearnInv, clear_query_aggregates
  PROVE  LearnInv'
<1>1. UNCHANGED <<content, counted, narrowed, changed, rewrites>>
  BY DEF clear_query_aggregates
<1>2. PICK older \in 0..MaxDay :
       counts' = [d \in Day |-> IF d + older < today
                                THEN [t \in Tenant |-> [q \in Query |-> [total |-> 0, zero |-> 0]]]
                                ELSE counts[d]]
  BY DEF clear_query_aggregates
<1>3. ASSUME NEW d \in Day, NEW u \in Tenant, NEW p \in Query
      PROVE  LET k == counts'[d][u][p] IN
             /\ k.zero <= k.total
             /\ k.total > 0 => <<u, p>> \in counted'
             /\ <<u, p>> \notin changed' => /\ k.zero > 0 /\ <<u, p>> \notin narrowed' => p \notin content'[u]
                                            /\ k.zero < k.total => p \in content'[u]
 <2>1. CASE d + older < today
  <3>1. counts'[d][u][p] = [total |-> 0, zero |-> 0]
    BY <1>2, <2>1
  <3> QED
    BY <3>1
 <2>2. CASE ~(d + older < today)
  <3>1. counts'[d][u][p] = counts[d][u][p]
    BY <1>2, <2>2
  <3> QED
    BY <1>1, <3>1 DEF LearnInv, CountsHold
 <2> QED
   BY <2>1, <2>2
<1>4. CountsHold'
  BY <1>3 DEF CountsHold
<1>5. ASSUME NEW c \in Command PROVE \A x \in RunFields \ {"whole"} : run'[c][x] = run[c][x]
 <2>1. run'[c] = [run[c] EXCEPT !.whole = FALSE] /\ run[c] = [x \in RunFields |-> run[c][x]]
   BY DEF clear_query_aggregates, IntelligenceType, RunType
 <2> QED
   BY <2>1
<1>6. ASSUME NEW c \in Command
      PROVE  /\ run'[c].op = run[c].op /\ run'[c].at = run[c].at /\ run'[c].scope = run[c].scope
             /\ run'[c].alone = run[c].alone /\ run'[c].todo = run[c].todo
  BY <1>5 DEF RunFields
<1>7. NoLearnBegins
  BY <1>6 DEF NoLearnBegins, Running
<1> QED
  BY <1>1, <1>4, <1>7, NoLearnKeeps DEF LearnInv

LEMMA AdminLearns ==
  ASSUME IntelligenceType, LearnInv, Admin
  PROVE  LearnInv'
<1>1. UNCHANGED <<content, counts, counted, narrowed, changed, run>>
  BY DEF Admin
<1>2. PICK i \in DOMAIN rewrites :
       \/ rewrites' = [rewrites EXCEPT ![i].active = ~@]
       \/ rewrites' = RemoveAt(rewrites, i)
  BY DEF Admin
<1> DEFINE n == Len(rewrites)
           m == Len(rewrites')
<1>3. rewrites \in Seq(Rewrite) /\ n \in Nat /\ i \in 1..n /\ DOMAIN rewrites = 1..n /\ \A j \in 1..n : rewrites[j] \in Rewrite
  BY ElementOfSeq, LenProperties DEF IntelligenceType
<1>4. \E old \in [1..m -> 1..n] :
        /\ m \in Nat /\ DOMAIN rewrites' = 1..m
        /\ \A j, k \in 1..m : j < k => old[j] < old[k]
        /\ \A j \in 1..m : LET a == rewrites[old[j]]  b == rewrites'[j] IN
             a.tenant = b.tenant /\ a.from = b.from /\ a.to = b.to /\ a.of = b.of /\ a.alone = b.alone
 <2>1. CASE rewrites' = [rewrites EXCEPT ![i].active = ~@]
  <3>1. rewrites' = [rewrites EXCEPT ![i] = [rewrites[i] EXCEPT !.active = ~@]]
    BY <2>1
  <3>2. [rewrites[i] EXCEPT !.active = ~@] \in Rewrite
    BY <1>3 DEF Rewrite
  <3>3. m = n /\ rewrites' \in Seq(Rewrite)
    BY <1>3, <3>1, <3>2, ExceptSeq
  <3>4. ASSUME NEW j \in 1..n
        PROVE  LET a == rewrites[j]  b == rewrites'[j] IN
               a.tenant = b.tenant /\ a.from = b.from /\ a.to = b.to /\ a.of = b.of /\ a.alone = b.alone
   <4>1. rewrites'[j] = IF j = i THEN [rewrites[i] EXCEPT !.active = ~@] ELSE rewrites[j]
     BY <1>3, <3>1, <3>2, ExceptSeq
   <4>2. rewrites[i] \in Rewrite
     BY <1>3
   <4>3. LET a == rewrites[i]  b == [rewrites[i] EXCEPT !.active = ~@] IN
         a.tenant = b.tenant /\ a.from = b.from /\ a.to = b.to /\ a.of = b.of /\ a.alone = b.alone
     BY <4>2 DEF Rewrite
   <4> QED
     BY <4>1, <4>3
  <3> DEFINE old == [j \in 1..m |-> j]
  <3>5. old \in [1..m -> 1..n]
    BY <3>3
  <3>6. DOMAIN rewrites' = 1..m /\ m \in Nat
    BY <3>3, LenProperties
  <3> HIDE DEF m, n
  <3>7. \A j \in 1..m : old[j] = j
    OBVIOUS
  <3> HIDE DEF old
  <3>8. \A j, k \in 1..m : j < k => old[j] < old[k]
    BY <3>7
  <3>9. \A j \in 1..m : LET a == rewrites[old[j]]  b == rewrites'[j] IN
           a.tenant = b.tenant /\ a.from = b.from /\ a.to = b.to /\ a.of = b.of /\ a.alone = b.alone
    BY <3>3, <3>4, <3>7
  <3> WITNESS old \in [1..m -> 1..n]
  <3> QED
    BY <3>6, <3>8, <3>9
 <2>2. CASE rewrites' = RemoveAt(rewrites, i)
  <3>1. /\ rewrites' \in Seq(Rewrite) /\ m = n - 1
        /\ \A j \in 1..n - 1 : rewrites'[j] = IF j < i THEN rewrites[j] ELSE rewrites[j + 1]
    BY <1>3, <2>2, RemoveAtIs
  <3>2. DOMAIN rewrites' = 1..m /\ m \in Nat
    BY <3>1, LenProperties
  <3> DEFINE old == [j \in 1..m |-> IF j < i THEN j ELSE j + 1]
  <3> HIDE DEF m, n
  <3>3. \A j \in 1..m : old[j] \in 1..n /\ old[j] = IF j < i THEN j ELSE j + 1
    BY <1>3, <3>1
  <3>4. old \in [1..m -> 1..n]
    BY <3>3
  <3> HIDE DEF old
  <3>5. \A j, k \in 1..m : j < k => old[j] < old[k]
    BY <1>3, <3>3
  <3>6. \A j \in 1..m : rewrites'[j] = rewrites[old[j]]
    BY <1>3, <3>1, <3>3
  <3> WITNESS old \in [1..m -> 1..n]
  <3> QED
    BY <3>2, <3>5, <3>6
 <2> QED
   BY <1>2, <2>1, <2>2
<1>5. PICK old \in [1..m -> 1..n] :
        /\ m \in Nat /\ DOMAIN rewrites' = 1..m
        /\ \A j, k \in 1..m : j < k => old[j] < old[k]
        /\ \A j \in 1..m : LET a == rewrites[old[j]]  b == rewrites'[j] IN
             a.tenant = b.tenant /\ a.from = b.from /\ a.to = b.to /\ a.of = b.of /\ a.alone = b.alone
  BY <1>4
<1>6. RewritesGood'
 <2> SUFFICES ASSUME NEW j \in 1..m PROVE Good(rewrites[j].tenant, rewrites[j])'
   BY DEF RewritesGood
 <2>1. Good(rewrites[old[j]].tenant, rewrites[old[j]])
   BY <1>5 DEF LearnInv, RewritesGood
 <2>2. LET a == rewrites[old[j]]  b == rewrites'[j] IN
       a.tenant = b.tenant /\ a.from = b.from /\ a.to = b.to /\ a.of = b.of /\ a.alone = b.alone
   BY <1>5
 <2> QED
   BY <1>1, <2>1, <2>2 DEF Good, Helps
<1>7. OneRewrite'
 <2> SUFFICES ASSUME NEW j \in 1..m, NEW k \in 1..m, j < k, rewrites'[j].tenant = rewrites'[k].tenant,
                     rewrites'[j].from = rewrites'[k].from
              PROVE  ~rewrites'[k].alone
   BY <1>5 DEF OneRewrite
 <2>1. old[j] < old[k] /\ old[j] \in DOMAIN rewrites /\ old[k] \in DOMAIN rewrites
   BY <1>3, <1>5
 <2>2. /\ rewrites[old[j]].tenant = rewrites[old[k]].tenant /\ rewrites[old[j]].from = rewrites[old[k]].from
       /\ rewrites'[k].alone = rewrites[old[k]].alone
   BY <1>5
 <2> QED
   BY <2>1, <2>2 DEF LearnInv, OneRewrite
<1>9. NotYet'
 <2> SUFFICES ASSUME NEW c \in Command, Running(c), run[c].op = "learn", run[c].at = "create", run[c].alone,
                     Exists(run[c].scope, Head(run[c].todo).from)'
              PROVE  FALSE
   BY <1>1 DEF NotYet, Running
 <2>1. \E j \in DOMAIN rewrites' : rewrites'[j].tenant = run[c].scope /\ rewrites'[j].from = Head(run[c].todo).from
   BY <1>1 DEF Exists
 <2>2. Exists(run[c].scope, Head(run[c].todo).from)
  <3> DEFINE scope == run[c].scope
             q == Head(run[c].todo).from
  <3>1. \E j \in DOMAIN rewrites' : rewrites'[j].tenant = scope /\ rewrites'[j].from = q
    BY <2>1
  <3> HIDE DEF scope, q
  <3>2. PICK j \in 1..m : rewrites'[j].tenant = scope /\ rewrites'[j].from = q
    BY <1>5, <3>1
  <3>3. old[j] \in DOMAIN rewrites /\ rewrites[old[j]].tenant = scope /\ rewrites[old[j]].from = q
    BY <1>3, <1>5, <3>2
  <3> QED
    BY <3>3 DEF Exists, scope, q
 <2> QED
   BY <2>2 DEF LearnInv, NotYet
<1>10. LearnersGood' /\ LearnersAlone'
  BY <1>1 DEF LearnInv, LearnersGood, LearnersAlone, Learns, Running, Good, Helps
<1>11. CountsHold'
  BY <1>1, SameCounts DEF LearnInv
<1> QED
  BY <1>6, <1>7, <1>9, <1>10, <1>11 DEF LearnInv

(* The suggestions are good ones: who has hardly a hit had none, who hits did. *)
LEMMA SuggestionsGood ==
  ASSUME IntelligenceType, CountsHold, NEW ds \in SUBSET Day, NEW scope \in Tenant,
         NEW z \in Sources(ds, scope), NEW b \in Best(ds, scope, z), NEW s,
         s.from = z, s.to = b, s.of = Evidence(ds, scope, {z, b})
  PROVE  Good(scope, s)
<1>1. /\ z \in Query /\ b \in Query
      /\ 2 * Zero(counts, ds, scope, z) > Volume(counts, ds, scope, z)
      /\ 5 * Zero(counts, ds, scope, b) < Volume(counts, ds, scope, b)
  BY BestIs
<1>2. /\ Zero(counts, ds, scope, z) \in Nat /\ Volume(counts, ds, scope, z) \in Nat
      /\ Zero(counts, ds, scope, b) \in Nat /\ Volume(counts, ds, scope, b) \in Nat
  BY <1>1, FiguresHold DEF IntelligenceType
<1>3. Zero(counts, ds, scope, z) > 0 /\ Zero(counts, ds, scope, b) < Volume(counts, ds, scope, b)
  BY <1>1, <1>2
<1>4. PICK d1 \in ds, t1 \in Scope(scope) : counts[d1][t1][z].zero > 0
  BY <1>1, <1>3, FiguresHold DEF IntelligenceType
<1>5. PICK d2 \in ds, t2 \in Scope(scope) : counts[d2][t2][b].zero < counts[d2][t2][b].total
  BY <1>1, <1>3, FiguresHold DEF IntelligenceType
<1>6. \A t \in Scope(scope) : t \in Tenant /\ scope \in {t, ""}
  BY DEF Scope
<1>7. /\ counts[d1][t1][z] \in [total : Nat, zero : Nat] /\ counts[d2][t2][b] \in [total : Nat, zero : Nat]
      /\ d1 \in Day /\ d2 \in Day /\ t1 \in Tenant /\ t2 \in Tenant
 <2>1. d1 \in Day /\ d2 \in Day /\ t1 \in Tenant /\ t2 \in Tenant
   BY <1>6
 <2>2. counts \in CountsType
   BY DEF IntelligenceType
 <2> QED
   BY <1>1, <2>1, <2>2 DEF CountsType
<1>8. counts[d1][t1][z].zero <= counts[d1][t1][z].total
  BY <1>1, <1>7 DEF CountsHold
<1>9. counts[d1][t1][z].total > 0 /\ counts[d2][t2][b].total > 0
  BY <1>4, <1>5, <1>7, <1>8
<1>10. t1 \in s.of /\ t2 \in s.of
  BY <1>6, <1>7, <1>9 DEF Evidence
<1>11. SUFFICES ASSUME NEW t \in Tenant, s.of \subseteq {t}
                PROVE  /\ <<t, z>> \in counted /\ <<t, b>> \in counted
                       /\ {<<t, z>>, <<t, b>>} \cap changed = {} /\ <<t, z>> \notin narrowed => z \notin content[t] /\ b \in content[t]
  BY DEF Good, Helps
<1>12. t1 = t /\ t2 = t
  BY <1>10, <1>11
<1> QED
  BY <1>1, <1>4, <1>5, <1>7, <1>9, <1>12 DEF CountsHold

LEMMA BeginLearns ==
  ASSUME IntelligenceType, LearnInv, NEW c \in Command, BeginLearn(c)
  PROVE  LearnInv'
<1>1. UNCHANGED <<content, counts, counted, narrowed, changed, rewrites>>
  BY DEF BeginLearn
<1>2. PICK scope \in Tenant, ds \in SUBSET Day : \E best \in [Sources(ds, scope) -> Query] :
              /\ \A z \in Sources(ds, scope) : best[z] \in Best(ds, scope, z)
              /\ run'[c].todo = Suggestions(ds, scope, best)
              /\ run'[c].op = "learn" /\ run'[c].at = "check" /\ run'[c].scope = scope
              /\ run'[c].alone = ({o \in Command : Learns(o, scope)} = {})
              /\ \A o \in Command \ {c} :
                   /\ \A x \in RunFields \ {"alone"} : run'[o][x] = run[o][x]
                   /\ run'[o].alone = (run[o].alone /\ ~Learns(o, scope))
  BY BeginLearnIs
<1>3. PICK best \in [Sources(ds, scope) -> Query] :
              /\ \A z \in Sources(ds, scope) : best[z] \in Best(ds, scope, z)
              /\ run'[c].todo = Suggestions(ds, scope, best)
              /\ run'[c].op = "learn" /\ run'[c].at = "check" /\ run'[c].scope = scope
              /\ run'[c].alone = ({o \in Command : Learns(o, scope)} = {})
              /\ \A o \in Command \ {c} :
                   /\ \A x \in RunFields \ {"alone"} : run'[o][x] = run[o][x]
                   /\ run'[o].alone = (run[o].alone /\ ~Learns(o, scope))
  BY <1>2
<1>4. ASSUME NEW o \in Command \ {c}
      PROVE  /\ run'[o].op = run[o].op /\ run'[o].at = run[o].at /\ run'[o].scope = run[o].scope
             /\ run'[o].todo = run[o].todo /\ run'[o].alone = (run[o].alone /\ ~Learns(o, scope))
  BY <1>3 DEF RunFields
<1>5. \A i \in 1..Len(run'[c].todo) : \E z \in Sources(ds, scope) :
        run'[c].todo[i] = [from |-> z, to |-> best[z], of |-> Evidence(ds, scope, {z, best[z]})]
 <2>1. \A z \in Sources(ds, scope) : best[z] \in Best(ds, scope, z)
   BY <1>3
 <2>2. \A i \in 1..Len(Suggestions(ds, scope, best)) : \E z \in Sources(ds, scope) :
         Suggestions(ds, scope, best)[i] = [from |-> z, to |-> best[z], of |-> Evidence(ds, scope, {z, best[z]})]
   BY <2>1, SuggestionsAre
 <2>3. run'[c].todo = Suggestions(ds, scope, best)
   BY <1>3
 <2> QED
   BY <2>2, <2>3
<1>6. ASSUME NEW i \in 1..Len(run'[c].todo) PROVE Good(scope, run'[c].todo[i])
 <2>1. PICK z \in Sources(ds, scope) :
         run'[c].todo[i] = [from |-> z, to |-> best[z], of |-> Evidence(ds, scope, {z, best[z]})]
   BY <1>5
 <2>2. best[z] \in Best(ds, scope, z)
   BY <1>3
 <2> DEFINE s == run'[c].todo[i]
            b == best[z]
 <2>3. s.from = z /\ s.to = b /\ s.of = Evidence(ds, scope, {z, b})
   BY <2>1
 <2> HIDE DEF s, b
 <2>4. Good(scope, s)
   BY <2>2, <2>3, SuggestionsGood DEF LearnInv, b
 <2> QED
   BY <2>4 DEF s
<1>7. ASSUME NEW o \in Command, (Running(o) /\ run[o].op = "learn")', NEW i \in 1..Len(run'[o].todo)
      PROVE  Good(run'[o].scope, run'[o].todo[i])
 <2>1. CASE o = c
   BY <1>3, <1>6, <1>7, <2>1
 <2>2. CASE o # c
   BY <1>4, <1>7, <2>2 DEF LearnInv, LearnersGood, Running
 <2> QED
   BY <2>1, <2>2
<1>8. LearnersGood'
 <2> SUFFICES ASSUME NEW o \in Command, (Running(o) /\ run[o].op = "learn")', NEW i \in 1..Len(run'[o].todo)
              PROVE  Good(run[o].scope, run[o].todo[i])'
   BY DEF LearnersGood
 <2>1. Good(run'[o].scope, run'[o].todo[i])
   BY <1>7
 <2> QED
   BY <1>1, <2>1 DEF Good, Helps
<1>9. LearnersAlone'
 <2> SUFFICES ASSUME NEW a \in Command, NEW o \in Command, NEW u \in Tenant,
                     Learns(a, u)', Learns(o, u)', a # o
              PROVE  ~run'[a].alone
   BY DEF LearnersAlone
 <2>1. /\ a # c => Learns(a, u) /\ run'[a].alone = (run[a].alone /\ ~Learns(a, scope))
       /\ o # c => Learns(o, u)
   BY <1>4 DEF Learns, Running
 <2>2. CASE a = c
  <3>1. u = scope /\ Learns(o, scope)
    BY <1>3, <2>1, <2>2 DEF Learns
  <3> QED
    BY <1>3, <2>2, <3>1
 <2>3. CASE o = c
  <3>1. u = scope
    BY <1>3, <2>3 DEF Learns
  <3> QED
    BY <2>1, <2>3, <3>1
 <2>4. CASE a # c /\ o # c
   BY <2>1, <2>4 DEF LearnInv, LearnersAlone
 <2> QED
   BY <2>2, <2>3, <2>4
<1>10. NotYet'
 <2> SUFFICES ASSUME NEW o \in Command, (Running(o) /\ run[o].op = "learn" /\ run[o].at = "create" /\ run[o].alone)'
              PROVE  ~Exists(run[o].scope, Head(run[o].todo).from)'
   BY DEF NotYet
 <2>1. o # c
   BY <1>3
 <2>2. Running(o) /\ run[o].op = "learn" /\ run[o].at = "create" /\ run[o].alone
   BY <1>4, <2>1 DEF Running
 <2>3. ~Exists(run[o].scope, Head(run[o].todo).from)
   BY <2>2 DEF LearnInv, NotYet
 <2> QED
   BY <1>1, <1>4, <2>1, <2>3 DEF Exists
<1>11. CountsHold' /\ OneRewrite'
  BY <1>1, SameCounts DEF LearnInv, OneRewrite
<1>12. RewritesGood'
  BY <1>1 DEF LearnInv, RewritesGood, Good, Helps
<1> QED
  BY <1>8, <1>9, <1>10, <1>11, <1>12 DEF LearnInv

LEMMA CreateLearns ==
  ASSUME IntelligenceType, LearnInv, NEW c \in Command, CreateRewrite(c)
  PROVE  LearnInv'
<1> DEFINE q == run[c]
           s == Head(q.todo)
           w == [tenant |-> q.scope, from |-> s.from, to |-> s.to, active |-> TRUE, of |-> s.of, alone |-> q.alone]
           n == Len(rewrites)
<1>1. UNCHANGED <<content, counts, counted, narrowed, changed>> /\ rewrites' = Append(rewrites, w)
  BY DEF CreateRewrite
<1>2. RunType(q) /\ q.op = "learn" /\ q.at = "create" /\ Running(c)
  BY CreateIs DEF IntelligenceType, Running
<1>3. PICK r : /\ RunType(r) /\ Does(c, r)
               /\ \/ r = NoRun
                  \/ /\ r.op = "learn" /\ r.at = "check" /\ r.scope = q.scope /\ r.alone = q.alone
                     /\ Len(q.todo) # 1 /\ r.todo = Tail(q.todo)
  BY CreateIs
<1>4. run'[c] = r /\ \A o \in Command \ {c} : run'[o] = run[o]
  BY <1>3, DoesOne DEF IntelligenceType
<1>5. q.todo \in Seq(Suggestion) /\ q.todo # <<>> /\ s = q.todo[1] /\ 1 \in 1..Len(q.todo) /\ s \in Suggestion
 <2>1. q.todo \in Seq(Suggestion) /\ q.todo # <<>>
   BY <1>2 DEF RunType
 <2>2. Len(q.todo) \in Nat /\ Len(q.todo) # 0
   BY <2>1, EmptySeq, LenProperties
 <2>3. 1 \in 1..Len(q.todo)
   BY <2>2
 <2>4. s = q.todo[1]
   BY <2>1
 <2>5. q.todo[1] \in Suggestion
   BY <2>1, <2>3, ElementOfSeq
 <2> QED
   BY <2>1, <2>3, <2>4, <2>5
<1>6. Good(q.scope, s)
  BY <1>2, <1>5 DEF LearnInv, LearnersGood
<1>7. q.scope \in Tenant
  BY <1>2 DEF RunType
<1>8. Learns(c, q.scope) /\ (q.alone => ~Exists(q.scope, s.from))
  BY <1>2 DEF Learns, LearnInv, NotYet
<1>9. w \in Rewrite
  BY <1>2, <1>5 DEF RunType, Suggestion, Rewrite
<1> HIDE DEF s
<1>10. w.tenant = q.scope /\ w.from = s.from /\ w.to = s.to /\ w.of = s.of /\ w.alone = q.alone
  OBVIOUS
<1> HIDE DEF w
<1>11. /\ n \in Nat /\ DOMAIN rewrites = 1..n /\ DOMAIN rewrites' = 1..n + 1 /\ Len(rewrites') = n + 1
       /\ rewrites'[n + 1] = w /\ \A i \in 1..n : rewrites'[i] = rewrites[i]
  BY <1>1, <1>9, AppendProperties, LenProperties DEF IntelligenceType
<1> HIDE DEF n
<1>12. ASSUME NEW i \in 1..n + 1 PROVE Good(rewrites'[i].tenant, rewrites'[i])
 <2>1. CASE i = n + 1
  <3>1. Good(w.tenant, w)
    BY <1>6, <1>10 DEF Good, Helps
  <3> QED
    BY <1>11, <2>1, <3>1
 <2>2. CASE i \in 1..n
   BY <1>11, <2>2 DEF LearnInv, RewritesGood, n
 <2> QED
   BY <1>11, <2>1, <2>2
<1>13. RewritesGood'
 <2> SUFFICES ASSUME NEW i \in 1..n + 1 PROVE Good(rewrites[i].tenant, rewrites[i])'
   BY <1>11 DEF RewritesGood
 <2>1. Good(rewrites'[i].tenant, rewrites'[i])
   BY <1>12
 <2> QED
   BY <1>1, <2>1 DEF Good, Helps
<1>14. OneRewrite'
 <2> SUFFICES ASSUME NEW j \in 1..n + 1, NEW k \in 1..n + 1, j < k, rewrites'[j].tenant = rewrites'[k].tenant,
                     rewrites'[j].from = rewrites'[k].from
              PROVE  ~rewrites'[k].alone
   BY <1>11 DEF OneRewrite
 <2>1. j \in 1..n /\ rewrites'[j] = rewrites[j]
   BY <1>11
 <2>2. CASE k = n + 1
  <3>1. Exists(q.scope, s.from)
    BY <1>10, <1>11, <2>1, <2>2 DEF Exists
  <3> QED
    BY <1>8, <1>10, <1>11, <2>2, <3>1
 <2>3. CASE k \in 1..n
   BY <1>11, <2>1, <2>3 DEF LearnInv, OneRewrite
 <2> QED
   BY <1>11, <2>2, <2>3
<1>15. ASSUME NEW o \in Command, (Running(o) /\ run[o].op = "learn")'
       PROVE  /\ Running(o) /\ run[o].op = "learn" /\ run'[o].scope = run[o].scope /\ run'[o].alone = run[o].alone
              /\ \A i \in 1..Len(run'[o].todo) : \E j \in 1..Len(run[o].todo) : run'[o].todo[i] = run[o].todo[j]
              /\ run'[o].at = "create" => o # c
 <2>1. CASE o = c
  <3>1. r.op = "learn" /\ r.at # "done"
    BY <1>4, <1>15, <2>1 DEF Running
  <3>2. r.at = "check" /\ r.scope = q.scope /\ r.alone = q.alone /\ r.todo = Tail(q.todo)
    BY <1>3, <3>1, NoRunDone
  <3>3. \A i \in 1..Len(Tail(q.todo)) : \E j \in 1..Len(q.todo) : Tail(q.todo)[i] = q.todo[j]
    BY <1>5, TailsOf
  <3>4. run'[o] = r /\ run[o] = q
    BY <1>4, <2>1
  <3> HIDE DEF q
  <3>5. \A i \in 1..Len(run'[o].todo) : \E j \in 1..Len(run[o].todo) : run'[o].todo[i] = run[o].todo[j]
   <4>1. run'[o].todo = Tail(q.todo) /\ run[o].todo = q.todo
     BY <3>2, <3>4
   <4> QED
     BY <3>3, <4>1
  <3>6. run[o].op = "learn" /\ run'[o].scope = run[o].scope /\ run'[o].alone = run[o].alone /\ run'[o].at = "check"
    BY <1>2, <3>2, <3>4
  <3> QED
    BY <1>2, <2>1, <3>5, <3>6
 <2>2. CASE o # c
   BY <1>4, <1>15, <2>2 DEF Running
 <2> QED
   BY <2>1, <2>2
<1>16. LearnersGood'
 <2> SUFFICES ASSUME NEW o \in Command, (Running(o) /\ run[o].op = "learn")', NEW i \in 1..Len(run'[o].todo)
              PROVE  Good(run[o].scope, run[o].todo[i])'
   BY DEF LearnersGood
 <2>1. Good(run'[o].scope, run'[o].todo[i])
   BY <1>15 DEF LearnInv, LearnersGood
 <2> QED
   BY <1>1, <2>1 DEF Good, Helps
<1>17. LearnersAlone'
 <2> SUFFICES ASSUME NEW a \in Command, NEW o \in Command, NEW u \in Tenant,
                     Learns(a, u)', Learns(o, u)', a # o
              PROVE  ~run'[a].alone
   BY DEF LearnersAlone
 <2>1. Learns(a, u) /\ Learns(o, u) /\ run'[a].alone = run[a].alone
   BY <1>15 DEF Learns
 <2> QED
   BY <2>1 DEF LearnInv, LearnersAlone
<1>18. NotYet'
 <2> SUFFICES ASSUME NEW o \in Command, (Running(o) /\ run[o].op = "learn" /\ run[o].at = "create" /\ run[o].alone)',
                     Exists(run[o].scope, Head(run[o].todo).from)'
              PROVE  FALSE
   BY DEF NotYet
 <2> DEFINE scope == run[o].scope
            p == Head(run[o].todo).from
 <2>1. o # c /\ run'[o] = run[o]
   BY <1>4, <1>15
 <2>2. Running(o) /\ run[o].op = "learn" /\ run[o].at = "create" /\ run[o].alone /\ scope \in Tenant
   BY <2>1 DEF Running, IntelligenceType, RunType
 <2>3. ~Exists(scope, p)
   BY <2>2 DEF LearnInv, NotYet
 <2>4. \E j \in DOMAIN rewrites' : rewrites'[j].tenant = scope /\ rewrites'[j].from = p
   BY <2>1 DEF Exists
 <2>5. Learns(o, scope)
   BY <2>2 DEF Learns
 <2> HIDE DEF p
 <2>6. PICK j \in 1..n + 1 : rewrites'[j].tenant = scope /\ rewrites'[j].from = p
   BY <1>11, <2>4
 <2>7. CASE j \in 1..n
   BY <1>11, <2>3, <2>6, <2>7 DEF Exists
 <2>8. CASE j = n + 1
  <3>1. q.scope = scope
    BY <1>10, <1>11, <2>6, <2>8
  <3> QED
    BY <1>8, <2>1, <2>2, <2>5, <3>1 DEF LearnInv, LearnersAlone
 <2> QED
   BY <1>11, <2>7, <2>8
<1>19. CountsHold'
  BY <1>1, SameCounts DEF LearnInv
<1> QED
  BY <1>13, <1>14, <1>16, <1>17, <1>18, <1>19 DEF LearnInv

LEMMA LearnStep ==
  ASSUME IntelligenceType, LearnInv, [IntelligenceNext]_intelligenceVars
  PROVE  LearnInv'
<1>1. ASSUME NoLearnBegins, UNCHANGED <<content, counts, rewrites, counted, narrowed, changed>> PROVE LearnInv'
  BY <1>1, NoLearnKeeps, SameCounts DEF LearnInv
<1>2. ASSUME NEW c \in Command, ReportActions(c) PROVE LearnInv'
 <2>1. Reports(c) /\ UNCHANGED <<content, counts, rewrites, counted, narrowed, changed>>
   BY <1>2, ReportsOn DEF ReportActions
 <2>2. PICK r : r.op \in Report /\ Does(c, r)
   BY <2>1 DEF Reports
 <2>3. run'[c] = r /\ (\A o \in Command \ {c} : run'[o] = run[o]) /\ r.op # "learn"
   BY <2>2, DoesOne DEF IntelligenceType, Report
 <2> QED
   BY <1>1, <2>1, <2>3, OtherDoes
<1>3. ASSUME NEW c \in Command, CheckExisting(c) PROVE LearnInv'
 <2>1. UNCHANGED <<content, counts, rewrites, counted, narrowed, changed>>
   BY <1>3 DEF CheckExisting
 <2> QED
   BY <1>1, <1>3, <2>1, CheckBegins
<1>4. ASSUME NEW c \in Command, BeginRoll(c) PROVE LearnInv'
 <2>1. UNCHANGED <<content, counts, rewrites, counted, narrowed, changed>>
   BY <1>4 DEF BeginRoll
 <2>2. (\A o \in Command \ {c} : run'[o] = run[o]) /\ (run'[c].at = "done" \/ run'[c].op = "roll")
   BY <1>4, BeginRollIs
 <2> QED
   BY <1>1, <2>1, <2>2, OtherDoes
<1>5. ASSUME NEW c \in Command, WriteGroup(c) PROVE LearnInv'
 <2>1. UNCHANGED <<content, counts, rewrites, counted, narrowed, changed>>
   BY <1>5 DEF WriteGroup
 <2>2. (\A o \in Command \ {c} : run'[o] = run[o]) /\ (run'[c].at = "done" \/ run'[c].op = "roll")
   BY <1>5, WriteGroupIs
 <2> QED
   BY <1>1, <2>1, <2>2, OtherDoes
<1>6. ASSUME NEW c \in Command, DeleteRaw(c) PROVE LearnInv'
 <2>1. UNCHANGED <<content, counts, rewrites, counted, narrowed, changed>>
   BY <1>6 DEF DeleteRaw
 <2>2. (\A o \in Command \ {c} : run'[o] = run[o]) /\ run'[c].at = "done"
   BY <1>6, DeleteRawIs
 <2> QED
   BY <1>1, <2>1, <2>2, OtherDoes
<1>7. CASE Kill
 <2>1. UNCHANGED <<content, counts, rewrites, counted, narrowed, changed>>
   BY <1>7 DEF Kill
 <2>2. PICK c \in Command : Does(c, NoRun)
   BY <1>7 DEF Kill
 <2>3. (\A o \in Command \ {c} : run'[o] = run[o]) /\ run'[c].at = "done"
   BY <2>2, DoesOne, NoRunDone DEF IntelligenceType
 <2> QED
   BY <1>1, <2>1, <2>3, OtherDoes
<1>8. CASE UNCHANGED intelligenceVars \/ NextDay \/ Click
 <2>1. UNCHANGED <<content, counts, rewrites, counted, narrowed, changed, run>>
   BY <1>8 DEF intelligenceVars, NextDay, Click
 <2>2. NoLearnBegins
   BY <2>1 DEF NoLearnBegins, Running
 <2> QED
   BY <1>1, <2>1, <2>2
<1>9. CASE Search \/ Change \/ clear_query_aggregates \/ Admin
  BY <1>9, SearchLearns, ChangeLearns, ClearLearns, AdminLearns
<1>10. ASSUME NEW c \in Command, BeginLearn(c) \/ CreateRewrite(c) PROVE LearnInv'
  BY <1>10, BeginLearns, CreateLearns
<1> QED
  BY <1>2, <1>3, <1>4, <1>5, <1>6, <1>7, <1>8, <1>9, <1>10 DEF IntelligenceNext, ReportActions

(* Whatever users search and editors switch on and off meanwhile, and however  *)
(* many commands learn: a learned rewrite takes a query that finds nothing to  *)
(* one that finds something, unless the searches of several tenants were summed*)
(* up for it, the documents changed since, or the query had been searched with *)
(* a filter that left nothing; and one command alone never creates a second    *)
(* rewrite of a query (suggest_synonyms, auto_create_rewrites).                *)
THEOREM IntelligenceRewritesRight == IntelligenceSpec => []RewritesRight
<1>1. IntelligenceInit => IntelligenceType /\ LearnInv
  BY InitIntelligenceType, InitLearn
<1>2. IntelligenceType /\ LearnInv /\ [IntelligenceNext]_intelligenceVars => IntelligenceType' /\ LearnInv'
  BY TypeStep, LearnStep
<1>3. ASSUME IntelligenceType, LearnInv PROVE RewritesRight
 <2>1. DOMAIN rewrites = 1..Len(rewrites)
   BY LenProperties DEF IntelligenceType
 <2>2. RewritesHelp
   BY <1>3, <2>1 DEF RewritesHelp, LearnInv, RewritesGood, Good
 <2> QED
   BY <1>3, <2>2 DEF RewritesRight, LearnInv
<1> QED
  BY <1>1, <1>2, <1>3, PTL DEF IntelligenceSpec

(* -------------------------------- reports -------------------------------- *)

(* What is counted in F is counted in G, each under a name of its own, and no  *)
(* less of it.                                                                 *)
LEMMA SumThrough ==
  ASSUME NEW F, NEW S, NEW G, NEW T, NEW f, Numbers(F, S), Numbers(G, T),
         \A x \in S : F[x] > 0 => f[x] \in T /\ F[x] <= G[f[x]],
         \A x, y \in S : F[x] > 0 /\ F[y] > 0 /\ f[x] = f[y] => x = y
  PROVE  SumFunctionOnSet(F, S) <= SumFunctionOnSet(G, T)
<1> DEFINE a(U) == SumFunctionOnSet(F, U)
           b(V) == SumFunctionOnSet(G, V)
           Into(U, V) == \A x \in U : F[x] > 0 => f[x] \in V
           N == {U \in SUBSET S : \A V \in SUBSET T : Into(U, V) => a(U) <= b(V)}
<1>1. /\ \A U \in SUBSET S : a(U) \in Nat
      /\ a({}) = 0
      /\ \A U \in SUBSET S : \A x \in U : a(U) = F[x] + a(U \ {x})
  BY SumStep
<1>2. /\ \A V \in SUBSET T : b(V) \in Nat
      /\ \A V \in SUBSET T : \A y \in V : b(V) = G[y] + b(V \ {y})
  BY SumStep
<1>3. IsFiniteSet(S) /\ (\A x \in S : F[x] \in Nat) /\ \A y \in T : G[y] \in Nat
  BY DEF Numbers
<1> HIDE DEF a, b
<1>4. ASSUME NEW U \in SUBSET S, \A x \in U : U \ {x} \in N, NEW V \in SUBSET T, Into(U, V) PROVE a(U) <= b(V)
 <2>1. CASE U = {}
   BY <1>1, <1>2, <2>1
 <2>2. CASE U # {}
  <3>1. PICK x \in U : TRUE
    BY <2>2
  <3>2. U \ {x} \in N /\ U \ {x} \in SUBSET S /\ x \in S
    BY <1>4, <3>1
  <3>3. a(U) = F[x] + a(U \ {x}) /\ F[x] \in Nat /\ a(U \ {x}) \in Nat
    BY <1>1, <1>3, <3>2
  <3>4. CASE F[x] = 0
   <4>1. Into(U \ {x}, V)
     BY <1>4
   <4>2. a(U \ {x}) <= b(V)
     BY <3>2, <4>1
   <4> QED
     BY <3>3, <3>4, <4>2
  <3>5. CASE F[x] > 0
   <4>1. f[x] \in V /\ F[x] <= G[f[x]] /\ f[x] \in T
     BY <1>4, <3>1, <3>2, <3>5
   <4>2. V \ {f[x]} \in SUBSET T
     OBVIOUS
   <4>3. Into(U \ {x}, V \ {f[x]})
     BY <1>4, <3>2, <3>5
   <4>4. a(U \ {x}) <= b(V \ {f[x]})
     BY <3>2, <4>2, <4>3
   <4>5. b(V) = G[f[x]] + b(V \ {f[x]}) /\ b(V \ {f[x]}) \in Nat /\ G[f[x]] \in Nat
     BY <1>2, <1>3, <4>1, <4>2
   <4> QED
     BY <3>3, <4>1, <4>4, <4>5
  <3> QED
    BY <3>3, <3>4, <3>5
 <2> QED
   BY <2>1, <2>2
<1>5. \A U \in SUBSET S : (\A x \in U : U \ {x} \in N) => U \in N
  BY <1>4
<1>6. N \in SUBSET (SUBSET S)
  OBVIOUS
<1>7. S \in N
 <2> HIDE DEF N
 <2>1. N = SUBSET S
   BY <1>3, <1>5, <1>6, OneMore
 <2> QED
   BY <2>1
<1>8. Into(S, T) /\ T \in SUBSET T
  OBVIOUS
<1>9. a(S) <= b(T)
  BY <1>7, <1>8
<1> QED
  BY <1>9 DEF a, b

(* Parts that share nothing add up to no more than the whole.                  *)
LEMMA SumParts ==
  ASSUME NEW F, NEW S, Numbers(F, S), NEW A \in SUBSET S, NEW B \in SUBSET S, A \cap B = {}
  PROVE  SumFunctionOnSet(F, A) + SumFunctionOnSet(F, B) <= SumFunctionOnSet(F, S)
<1> DEFINE a(U) == SumFunctionOnSet(F, U)
           N == {U \in SUBSET S : a(U \cap A) + a(U \cap B) <= a(U)}
<1>1. /\ \A U \in SUBSET S : a(U) \in Nat
      /\ a({}) = 0
      /\ \A U \in SUBSET S : \A x \in U : a(U) = F[x] + a(U \ {x})
  BY SumStep
<1>2. IsFiniteSet(S) /\ \A x \in S : F[x] \in Nat
  BY DEF Numbers
<1> HIDE DEF a
<1>3. ASSUME NEW U \in SUBSET S, \A x \in U : U \ {x} \in N PROVE a(U \cap A) + a(U \cap B) <= a(U)
 <2>1. CASE U = {}
  <3>1. U \cap A = {} /\ U \cap B = {}
    BY <2>1
  <3> QED
    BY <1>1, <2>1, <3>1
 <2>2. CASE U # {}
  <3>1. PICK x \in U : TRUE
    BY <2>2
  <3> DEFINE W == U \ {x}
  <3>2. a(W \cap A) + a(W \cap B) <= a(W)
    BY <1>3, <3>1
  <3>3. a(U) = F[x] + a(W) /\ F[x] \in Nat /\ x \in S
    BY <1>1, <1>2, <3>1
  <3>4. ASSUME NEW K \in SUBSET S
        PROVE  a(U \cap K) = (IF x \in K THEN F[x] ELSE 0) + a(W \cap K) /\ a(W \cap K) \in Nat
   <4>1. CASE x \in K
    <5>1. x \in U \cap K /\ (U \cap K) \ {x} = W \cap K
      BY <3>1, <4>1
    <5>2. U \cap K \in SUBSET S /\ W \cap K \in SUBSET S
      OBVIOUS
    <5> HIDE DEF W
    <5> QED
      BY <1>1, <4>1, <5>1, <5>2
   <4>2. CASE x \notin K
    <5>1. U \cap K = W \cap K /\ W \cap K \in SUBSET S
      BY <4>2
    <5>2. a(W \cap K) \in Nat
      BY <1>1, <5>1
    <5>3. a(U \cap K) = a(W \cap K)
      BY <5>1
    <5> QED
      BY <4>2, <5>2, <5>3
   <4> QED
     BY <4>1, <4>2
  <3>5. a(W) \in Nat
    BY <1>1
  <3> HIDE DEF W
  <3>6. CASE x \in A
   <4>1. x \notin B
     BY <3>6
   <4> QED
     BY <3>2, <3>3, <3>4, <3>5, <3>6, <4>1
  <3>7. CASE x \notin A
    BY <3>2, <3>3, <3>4, <3>5, <3>7
  <3> QED
    BY <3>6, <3>7
 <2> QED
   BY <2>1, <2>2
<1>4. \A U \in SUBSET S : (\A x \in U : U \ {x} \in N) => U \in N
  BY <1>3
<1>5. N \in SUBSET (SUBSET S)
  OBVIOUS
<1>6. S \in N
 <2> HIDE DEF N
 <2>1. N = SUBSET S
   BY <1>2, <1>4, <1>5, OneMore
 <2> QED
   BY <2>1
<1>7. S \cap A = A /\ S \cap B = B
  OBVIOUS
<1>8. a(S \cap A) + a(S \cap B) <= a(S)
  BY <1>6
<1> QED
  BY <1>7, <1>8 DEF a

(* Nothing was counted in cs that is not counted in now.                       *)
Below(cs, now) ==
  \A d \in Day, t \in Tenant, q \in Query :
    cs[d][t][q].total <= now[d][t][q].total /\ cs[d][t][q].zero <= now[d][t][q].zero

(* Figures grow with the counts and with the days.                             *)
LEMMA FiguresGrow ==
  ASSUME NEW cs \in CountsType, NEW now \in CountsType, Below(cs, now), NEW es \in SUBSET Day, NEW ds \in SUBSET es,
         NEW scope \in Tenant, NEW q \in Query
  PROVE  /\ Volume(cs, ds, scope, q) <= Volume(now, es, scope, q)
         /\ Zero(cs, ds, scope, q) <= Zero(now, es, scope, q)
<1> DEFINE S == ds \X Scope(scope)
           T == es \X Scope(scope)
           f == [x \in S |-> x]
           F == Totals(cs, ds, scope, q)
           G == Totals(now, es, scope, q)
           Y == Zeros(cs, ds, scope, q)
           Z == Zeros(now, es, scope, q)
<1>1. ds \in SUBSET Day
  OBVIOUS
<1>2. /\ Numbers(F, S) /\ Numbers(Y, S)
      /\ Volume(cs, ds, scope, q) = SumFunctionOnSet(F, S) /\ Zero(cs, ds, scope, q) = SumFunctionOnSet(Y, S)
  BY <1>1, FiguresAre
<1>3. /\ Numbers(G, T) /\ Numbers(Z, T)
      /\ Volume(now, es, scope, q) = SumFunctionOnSet(G, T) /\ Zero(now, es, scope, q) = SumFunctionOnSet(Z, T)
  BY FiguresAre
<1>4. ASSUME NEW x \in S PROVE x \in T /\ f[x] = x /\ F[x] <= G[x] /\ Y[x] <= Z[x]
 <2>1. x \in T /\ x[1] \in Day /\ x[2] \in Tenant
   BY DEF Scope
 <2>2. /\ cs[x[1]][x[2]][q].total <= now[x[1]][x[2]][q].total
       /\ cs[x[1]][x[2]][q].zero <= now[x[1]][x[2]][q].zero
   BY <2>1 DEF Below
 <2> QED
   BY <2>1, <2>2 DEF Totals, Zeros
<1> HIDE DEF S, T, f, F, G, Y, Z
<1>5. SumFunctionOnSet(F, S) <= SumFunctionOnSet(G, T)
  BY <1>2, <1>3, <1>4, SumThrough
<1>6. SumFunctionOnSet(Y, S) <= SumFunctionOnSet(Z, T)
  BY <1>2, <1>3, <1>4, SumThrough
<1> QED
  BY <1>2, <1>3, <1>5, <1>6

LEMMA RowsGrow ==
  ASSUME NEW cs \in CountsType, NEW now \in CountsType, Below(cs, now), NEW ds \in SUBSET Day, NEW scope \in Tenant
  PROVE  Rows(cs, ds, scope) \subseteq Rows(now, ds, scope)
<1>1. SUFFICES ASSUME NEW q \in Query, NEW d \in ds, NEW t \in Scope(scope), cs[d][t][q].total > 0
               PROVE  now[d][t][q].total > 0
  BY DEF Rows
<1>2. d \in Day /\ t \in Tenant
  BY DEF Scope
<1>3. /\ cs[d][t][q] \in [total : Nat, zero : Nat] /\ now[d][t][q] \in [total : Nat, zero : Nat]
      /\ cs[d][t][q].total <= now[d][t][q].total
  BY <1>2 DEF CountsType, Below
<1> QED
  BY <1>1, <1>3

(* The rows are the queries that were counted at all.                          *)
LEMMA RowsAre ==
  ASSUME NEW cs \in CountsType, NEW ds \in SUBSET Day, NEW scope \in Tenant
  PROVE  /\ Rows(cs, ds, scope) \in SUBSET Query
         /\ \A q \in Query : q \in Rows(cs, ds, scope) <=> Volume(cs, ds, scope, q) > 0
<1>1. ASSUME NEW q \in Query PROVE q \in Rows(cs, ds, scope) <=> Volume(cs, ds, scope, q) > 0
 <2> DEFINE S == ds \X Scope(scope)
            F == Totals(cs, ds, scope, q)
 <2>1. Numbers(F, S) /\ Volume(cs, ds, scope, q) = SumFunctionOnSet(F, S)
   BY FiguresAre
 <2>2. \A x \in S : x[1] \in ds /\ x[2] \in Scope(scope) /\ F[x] = cs[x[1]][x[2]][q].total
   BY DEF Totals
 <2>3. ASSUME NEW d \in ds, NEW t \in Scope(scope) PROVE <<d, t>> \in S /\ F[<<d, t>>] = cs[d][t][q].total
   BY DEF Totals
 <2> HIDE DEF S, F
 <2>4. SumFunctionOnSet(F, S) \in Nat /\ \A x \in S : F[x] \in Nat /\ F[x] <= SumFunctionOnSet(F, S)
   BY <2>1, SumHolds DEF Numbers
 <2>5. ASSUME NEW d \in ds, NEW t \in Scope(scope), cs[d][t][q].total > 0 PROVE SumFunctionOnSet(F, S) > 0
  <3>1. <<d, t>> \in S /\ F[<<d, t>>] > 0
    BY <2>3, <2>5
  <3> DEFINE n == F[<<d, t>>]
  <3>2. n \in Nat /\ n > 0 /\ n <= SumFunctionOnSet(F, S)
    BY <2>4, <3>1
  <3> HIDE DEF n
  <3> QED
    BY <2>4, <3>2
 <2>6. ASSUME SumFunctionOnSet(F, S) > 0 PROVE \E d \in ds, t \in Scope(scope) : cs[d][t][q].total > 0
  <3>1. PICK x \in S : F[x] > 0
    BY <2>1, <2>6, SumHolds
  <3> QED
    BY <2>2, <3>1
 <2> QED
   BY <2>1, <2>5, <2>6 DEF Rows
<1> QED
  BY <1>1 DEF Rows

(* Searches without hits are searches.                                         *)
Fails(cs) == \A d \in Day, t \in Tenant, q \in Query : cs[d][t][q].zero <= cs[d][t][q].total

LEMMA ZeroPart ==
  ASSUME NEW cs \in CountsType, Fails(cs), NEW ds \in SUBSET Day, NEW scope \in Tenant, NEW q \in Query
  PROVE  Zero(cs, ds, scope, q) <= Volume(cs, ds, scope, q)
<1> DEFINE S == ds \X Scope(scope)
           F == Totals(cs, ds, scope, q)
           Z == Zeros(cs, ds, scope, q)
<1>1. /\ Numbers(F, S) /\ Numbers(Z, S)
      /\ Volume(cs, ds, scope, q) = SumFunctionOnSet(F, S) /\ Zero(cs, ds, scope, q) = SumFunctionOnSet(Z, S)
  BY FiguresAre
<1>2. ASSUME NEW x \in S PROVE Z[x] <= F[x]
 <2>1. x[1] \in Day /\ x[2] \in Tenant
   BY DEF Scope
 <2> QED
   BY <2>1 DEF Fails, Totals, Zeros
<1> HIDE DEF S, F, Z
<1>3. SumFunctionOnSet(Z, S) <= SumFunctionOnSet(F, S)
  BY <1>1, <1>2, SumLess
<1> QED
  BY <1>1, <1>3

(* Two stretches of days within a longer one.                                  *)
LEMMA VolumeParts ==
  ASSUME NEW cs \in CountsType, NEW es \in SUBSET Day, NEW A \in SUBSET es, NEW B \in SUBSET es, A \cap B = {},
         NEW scope \in Tenant, NEW q \in Query
  PROVE  Volume(cs, A, scope, q) + Volume(cs, B, scope, q) <= Volume(cs, es, scope, q)
<1> DEFINE S == es \X Scope(scope)
           SA == A \X Scope(scope)
           SB == B \X Scope(scope)
           F == Totals(cs, es, scope, q)
<1>1. Numbers(F, S) /\ Volume(cs, es, scope, q) = SumFunctionOnSet(F, S)
  BY FiguresAre
<1>2. ASSUME NEW ds \in SUBSET es
      PROVE  /\ Volume(cs, ds, scope, q) <= SumFunctionOnSet(F, ds \X Scope(scope))
             /\ Volume(cs, ds, scope, q) \in Nat /\ SumFunctionOnSet(F, ds \X Scope(scope)) \in Nat
 <2> DEFINE D == ds \X Scope(scope)
            G == Totals(cs, ds, scope, q)
 <2>1. ds \in SUBSET Day /\ D \in SUBSET S
   OBVIOUS
 <2>2. Numbers(G, D) /\ Volume(cs, ds, scope, q) = SumFunctionOnSet(G, D)
   BY <2>1, FiguresAre
 <2>3. \A x \in D : G[x] = F[x]
   BY DEF Totals
 <2> HIDE DEF D, F, G, S
 <2>4. IsFiniteSet(D) /\ (\A x \in D : G[x] \in Nat) /\ \A x \in S : F[x] \in Nat
   BY <1>1, <2>2 DEF Numbers
 <2>5. Numbers(F, D)
   BY <2>1, <2>4 DEF Numbers
 <2>6. \A x \in D : G[x] <= F[x]
   BY <2>3, <2>4
 <2>7. SumFunctionOnSet(G, D) <= SumFunctionOnSet(F, D) /\ SumFunctionOnSet(G, D) \in Nat /\ SumFunctionOnSet(F, D) \in Nat
   BY <2>2, <2>5, <2>6, SumLess, SumHolds
 <2> QED
   BY <2>2, <2>7 DEF D
<1>3. SA \in SUBSET S /\ SB \in SUBSET S /\ SA \cap SB = {}
  OBVIOUS
<1>4. /\ Volume(cs, A, scope, q) <= SumFunctionOnSet(F, SA) /\ Volume(cs, A, scope, q) \in Nat
      /\ Volume(cs, B, scope, q) <= SumFunctionOnSet(F, SB) /\ Volume(cs, B, scope, q) \in Nat
      /\ SumFunctionOnSet(F, SA) \in Nat /\ SumFunctionOnSet(F, SB) \in Nat
  BY <1>2
<1> HIDE DEF SA, SB, S, F
<1>5. SumFunctionOnSet(F, SA) + SumFunctionOnSet(F, SB) <= SumFunctionOnSet(F, S) /\ SumFunctionOnSet(F, S) \in Nat
  BY <1>1, <1>3, SumParts, SumHolds
<1> QED
  BY <1>1, <1>4, <1>5

(* s lists S in the order of R.                                                *)
Listed(s, S, R) ==
  /\ \A i, j \in 1..Cardinality(S) : i < j => <<s[i], s[j]>> \in R
  /\ s \in Seq(S) /\ Len(s) = Cardinality(S) /\ \A i, j \in 1..Cardinality(S) : s[i] = s[j] => i = j
  /\ \A x \in S : \E i \in 1..Cardinality(S) : s[i] = x

LEMMA SortedList ==
  ASSUME NEW S, IsFiniteSet(S), NEW R, Orders(R, S)
  PROVE  Listed(SortedBy(S, R), S, R)
BY Sorted, ListOfSet DEF Listed

(* A list by two figures: each member once, the higher figures first.          *)
LEMMA Ranking ==
  ASSUME NEW S, IsFiniteSet(S), NEW R, NEW a \in [S -> Nat], NEW b \in [S -> Nat],
         \A x, y \in S : b[x] = b[y] => x = y,
         \A x, y \in S : <<x, y>> \in R <=> (a[x] > a[y] \/ (a[x] = a[y] /\ b[x] < b[y])),
         NEW s, s = SortedBy(S, R)
  PROVE  /\ s \in Seq(S) /\ Len(s) = Cardinality(S)
         /\ \A i, j \in 1..Len(s) : s[i] = s[j] => i = j
         /\ \A x \in S : \E i \in 1..Len(s) : s[i] = x
         /\ \A i, j \in 1..Len(s) : i < j => a[s[i]] >= a[s[j]]
<1> DEFINE n == Cardinality(S)
<1>1. Orders(R, S)
  BY ByFigure
<1>2. Listed(s, S, R)
  BY <1>1, SortedList
<1>3. /\ \A i, j \in 1..n : i < j => <<s[i], s[j]>> \in R
      /\ s \in Seq(S) /\ Len(s) = n /\ \A i, j \in 1..n : s[i] = s[j] => i = j
      /\ \A x \in S : \E i \in 1..n : s[i] = x
  BY <1>2 DEF Listed
<1>4. ASSUME NEW i \in 1..n, NEW j \in 1..n, i < j PROVE a[s[i]] >= a[s[j]]
 <2>1. s[i] \in S /\ s[j] \in S /\ <<s[i], s[j]>> \in R
   BY <1>3, <1>4, ElementOfSeq
 <2>2. a[s[i]] > a[s[j]] \/ a[s[i]] = a[s[j]]
   BY <2>1
 <2>3. a[s[i]] \in Nat /\ a[s[j]] \in Nat
   BY <2>1
 <2> QED
   BY <2>2, <2>3
<1> QED
  BY <1>3, <1>4

LEMMA Windows == ASSUME NEW d, NEW n PROVE Window(d, n) \in SUBSET Day
BY DEF Window

(* What steps of R lead to: it holds where one starts and what R leads to from *)
(* it, and every such set holds it.                                            *)
Closed(T, R) == \A p \in R : p[1] \in T => p[2] \in T

LEMMA ClosureIs ==
  ASSUME NEW S \in SUBSET Query, NEW R \in SUBSET (Query \X Query)
  PROVE  /\ S \subseteq Closure(S, R) /\ Closure(S, R) \in SUBSET Query
         /\ Closed(Closure(S, R), R)
         /\ \A T \in SUBSET Query : S \subseteq T /\ Closed(T, R) => Closure(S, R) \subseteq T
<1>1. S \subseteq Closure(S, R) /\ Closure(S, R) \in SUBSET Query
  BY DEF Closure
<1>2. \A T \in SUBSET Query : S \subseteq T /\ Closed(T, R) => Closure(S, R) \subseteq T
  BY DEF Closure, Closed
<1>3. ASSUME NEW p \in R, p[1] \in Closure(S, R) PROVE p[2] \in Closure(S, R)
 <2>1. p[2] \in Query
   OBVIOUS
 <2>2. ASSUME NEW T \in SUBSET Query, S \subseteq T, \A x \in R : x[1] \in T => x[2] \in T PROVE p[2] \in T
  <3>1. p[1] \in T
    BY <1>3, <2>2 DEF Closure
  <3> QED
    BY <2>2, <3>1
 <2> QED
   BY <2>1, <2>2 DEF Closure
<1> QED
  BY <1>1, <1>2, <1>3 DEF Closed

LEMMA ClosureGrows ==
  ASSUME NEW S \in SUBSET Query, NEW R \in SUBSET (Query \X Query), NEW Q \in SUBSET R
  PROVE  Closure(S, Q) \subseteq Closure(S, R)
<1>1. Closed(Closure(S, R), Q)
  BY ClosureIs DEF Closed
<1> QED
  BY <1>1, ClosureIs

(* Chains can be put behind each other, and turned round when R can.           *)
Turns(R) == \A p \in R : <<p[2], p[1]>> \in R

LEMMA Chains ==
  ASSUME NEW R \in SUBSET (Query \X Query), Turns(R), NEW a \in Query, NEW b \in Closure({a}, R)
  PROVE  /\ b \in Query /\ a \in Closure({b}, R)
         /\ \A c \in Closure({b}, R) : c \in Closure({a}, R)
<1>1. \A x \in Query : /\ {x} \subseteq Closure({x}, R) /\ Closure({x}, R) \in SUBSET Query
                       /\ Closed(Closure({x}, R), R)
                       /\ \A T \in SUBSET Query : {x} \subseteq T /\ Closed(T, R) => Closure({x}, R) \subseteq T
  BY ClosureIs
<1>2. \A x \in Query : \A y \in Closure({x}, R) : y \in Query /\ Closure({y}, R) \subseteq Closure({x}, R)
  BY <1>1
<1> DEFINE T == {x \in Query : a \in Closure({x}, R)}
<1>3. a \in T
  BY <1>1
<1>4. ASSUME NEW p \in R, p[1] \in T PROVE p[2] \in T
 <2>1. p[1] \in Query /\ p[2] \in Query /\ <<p[2], p[1]>> \in R
   BY DEF Turns
 <2> DEFINE r == <<p[2], p[1]>>
 <2>2. p[2] \in Closure({p[2]}, R)
   BY <1>1, <2>1
 <2>3. r \in R /\ r[1] = p[2] /\ r[2] = p[1]
   BY <2>1
 <2>4. p[1] \in Closure({p[2]}, R)
   BY <1>1, <2>1, <2>2, <2>3 DEF Closed
 <2>5. a \in Closure({p[1]}, R)
   BY <1>4
 <2> QED
   BY <1>2, <2>1, <2>4, <2>5
<1>5. Closed(T, R)
  BY <1>4 DEF Closed
<1>6. b \in T
 <2> HIDE DEF T
 <2>1. T \in SUBSET Query
   BY DEF T
 <2> QED
   BY <1>1, <1>3, <1>5, <2>1
<1> QED
  BY <1>2, <1>6

(* ------------------------------ union-find ------------------------------- *)

Parents == [Query -> Query]
Links(parent) == {<<q, parent[q]>> : q \in Query}

(* root has the root of every query's tree.                                    *)
Rooted(parent, root) ==
  /\ parent \in Parents /\ root \in Parents
  /\ \A q \in Query : /\ root[parent[q]] = root[q] /\ parent[root[q]] = root[q] /\ root[root[q]] = root[q]
                      /\ parent[q] = q => root[q] = q
                      /\ root[q] \in Closure({q}, Links(parent))

LEMMA LinksAre ==
  ASSUME NEW parent \in Parents
  PROVE  /\ Links(parent) \in SUBSET (Query \X Query)
         /\ \A T : Closed(T, Links(parent)) <=> \A q \in Query : q \in T => parent[q] \in T
<1>1. Links(parent) \in SUBSET (Query \X Query)
  BY DEF Links, Parents
<1>2. ASSUME NEW T, Closed(T, Links(parent)), NEW q \in Query, q \in T PROVE parent[q] \in T
 <2> DEFINE p == <<q, parent[q]>>
 <2>1. p \in Links(parent) /\ p[1] = q /\ p[2] = parent[q]
   BY DEF Links
 <2> HIDE DEF p
 <2> QED
   BY <1>2, <2>1 DEF Closed
<1>3. ASSUME NEW T, \A q \in Query : q \in T => parent[q] \in T, NEW p \in Links(parent), p[1] \in T PROVE p[2] \in T
  BY <1>3 DEF Links
<1> QED
  BY <1>1, <1>2, <1>3 DEF Closed

LEMMA FindIs ==
  ASSUME NEW parent, NEW root, Rooted(parent, root), NEW x \in Query
  PROVE  Find(parent, x) = root[x]
<1> DEFINE K == Closure({x}, Links(parent))
           T == {q \in Query : root[q] = root[x]}
<1>1. parent \in Parents /\ root \in Parents /\ Links(parent) \in SUBSET (Query \X Query)
  BY LinksAre DEF Rooted
<1>2. Closed(T, Links(parent)) /\ x \in T /\ T \in SUBSET Query
 <2>1. \A q \in Query : q \in T => parent[q] \in T
   BY <1>1 DEF Rooted, Parents
 <2> HIDE DEF T
 <2>2. Closed(T, Links(parent))
   BY <1>1, <2>1, LinksAre
 <2> QED
   BY <2>2 DEF T
<1>3. K \subseteq T
 <2> HIDE DEF T
 <2> QED
   BY <1>1, <1>2, ClosureIs
<1>4. root[x] \in K /\ parent[root[x]] = root[x]
  BY DEF Rooted
<1>5. \A r \in K : parent[r] = r => r = root[x]
  BY <1>3 DEF Rooted
<1>6. Find(parent, x) = CHOOSE r \in K : parent[r] = r
  BY DEF Find, Links
<1> HIDE DEF K
<1> QED
  BY <1>4, <1>5, <1>6

(* Joining two trees hangs the root of one up on that of the other.            *)
Joined(root, x, y) == [q \in Query |-> IF root[q] = root[y] THEN root[x] ELSE root[q]]

LEMMA UnionIs ==
  ASSUME NEW parent, NEW root, Rooted(parent, root), NEW x \in Query, NEW y \in Query
  PROVE  Rooted(Union(parent, x, y), Joined(root, x, y))
<1> DEFINE rx == root[x]
           ry == root[y]
           p == [parent EXCEPT ![ry] = rx]
           r == Joined(root, x, y)
           L == Links(p)
<1>1. /\ parent \in Parents /\ root \in Parents
      /\ \A q \in Query : /\ root[parent[q]] = root[q] /\ parent[root[q]] = root[q] /\ root[root[q]] = root[q]
                          /\ parent[q] = q => root[q] = q
                          /\ root[q] \in Closure({q}, Links(parent))
  BY DEF Rooted
<1>2. Union(parent, x, y) = p
  BY FindIs DEF Union
<1>3. rx \in Query /\ ry \in Query /\ root[rx] = rx /\ root[ry] = ry /\ parent[rx] = rx /\ parent[ry] = ry
  BY <1>1 DEF Parents
<1> HIDE DEF rx, ry
<1>4. /\ p \in Parents /\ p[ry] = rx /\ \A q \in Query : q # ry => p[q] = parent[q]
      /\ \A q \in Query : q \in Query /\ root[q] \in Query /\ parent[q] \in Query
  BY <1>1, <1>3 DEF Parents
<1>5. r \in Parents /\ \A q \in Query : r[q] = IF root[q] = ry THEN rx ELSE root[q]
  BY <1>3, <1>4 DEF Joined, Parents, rx, ry
<1> HIDE DEF p, r
<1>6. ASSUME NEW q \in Query
      PROVE  r[p[q]] = r[q] /\ p[r[q]] = r[q] /\ r[r[q]] = r[q] /\ (p[q] = q => r[q] = q)
 <2>1. r[p[q]] = r[q]
  <3>1. CASE q = ry
    BY <1>3, <1>4, <1>5, <3>1
  <3>2. CASE q # ry
   <4>1. p[q] = parent[q] /\ parent[q] \in Query /\ root[parent[q]] = root[q]
     BY <1>1, <1>4, <3>2
   <4> QED
     BY <1>5, <4>1
  <3> QED
    BY <3>1, <3>2
 <2>2. p[r[q]] = r[q] /\ r[r[q]] = r[q]
  <3>1. CASE root[q] = ry
    BY <1>3, <1>4, <1>5, <3>1
  <3>2. CASE root[q] # ry
    BY <1>1, <1>3, <1>4, <1>5, <3>2
  <3> QED
    BY <3>1, <3>2
 <2>3. ASSUME p[q] = q PROVE r[q] = q
  <3>1. CASE q = ry
    BY <1>3, <1>4, <1>5, <2>3, <3>1
  <3>2. CASE q # ry
   <4>1. root[q] = q
     BY <1>1, <1>4, <2>3, <3>2
   <4> QED
     BY <1>5, <3>2, <4>1
  <3> QED
    BY <3>1, <3>2
 <2> QED
   BY <2>1, <2>2, <2>3
<1>7. ASSUME NEW q \in Query, NEW T \in SUBSET Query, q \in T, \A z \in Query : z \in T => p[z] \in T
      PROVE  r[q] \in T
 <2> DEFINE U == {z \in Query : z \in T \/ root[z] # root[q]}
 <2>1. ASSUME ry \notin T PROVE root[q] \in T
  <3>1. ASSUME NEW z \in Query, z \in U PROVE parent[z] \in U
   <4>1. CASE root[z] # root[q]
     BY <1>1, <1>4, <4>1
   <4>2. CASE z \in T
    <5>1. z # ry
      BY <2>1, <4>2
    <5> QED
      BY <1>4, <1>7, <4>2, <5>1
   <4> QED
     BY <3>1, <4>1, <4>2
  <3>2. U \in SUBSET Query /\ {q} \subseteq U
    BY <1>7
  <3> HIDE DEF U
  <3>3. Closed(U, Links(parent))
    BY <1>1, <3>1, LinksAre
  <3>4. Closure({q}, Links(parent)) \subseteq U
    BY <1>1, <3>2, <3>3, ClosureIs, LinksAre
  <3>5. root[q] \in U
    BY <1>1, <3>4
  <3> QED
    BY <1>1, <3>5 DEF U
 <2>2. CASE root[q] = ry
  <3>1. ry \in T
    BY <2>1, <2>2
  <3> QED
    BY <1>3, <1>4, <1>5, <1>7, <2>2, <3>1
 <2>3. CASE root[q] # ry
  <3>1. ASSUME NEW z \in Query, z \in U PROVE parent[z] \in U
   <4>1. CASE root[z] # root[q]
     BY <1>1, <1>4, <4>1
   <4>2. CASE root[z] = root[q]
    <5>1. z \in T /\ z # ry
      BY <1>3, <2>3, <3>1, <4>2
    <5> QED
      BY <1>4, <1>7, <5>1
   <4> QED
     BY <4>1, <4>2
  <3>2. U \in SUBSET Query /\ {q} \subseteq U
    BY <1>7
  <3> HIDE DEF U
  <3>3. Closed(U, Links(parent))
    BY <1>1, <3>1, LinksAre
  <3>4. Closure({q}, Links(parent)) \subseteq U
    BY <1>1, <3>2, <3>3, ClosureIs, LinksAre
  <3>5. root[q] \in U
    BY <1>1, <3>4
  <3> QED
    BY <1>1, <1>5, <2>3, <3>5 DEF U
 <2> QED
   BY <2>2, <2>3
<1>8. ASSUME NEW q \in Query PROVE r[q] \in Closure({q}, L)
 <2> DEFINE K == Closure({q}, L)
 <2>1. L \in SUBSET (Query \X Query)
   BY <1>4, LinksAre
 <2>2. {q} \subseteq K /\ K \in SUBSET Query /\ Closed(K, L)
  <3> HIDE DEF L
  <3> QED
    BY <2>1, ClosureIs
 <2> HIDE DEF K
 <2>3. \A z \in Query : z \in K => p[z] \in K
   BY <1>4, <2>2, LinksAre
 <2> QED
   BY <1>7, <2>2, <2>3 DEF K
<1> QED
  BY <1>2, <1>4, <1>5, <1>6, <1>8 DEF Rooted, r

LEMMA StepByStep ==
  ASSUME NEW L \in Nat, NEW N, 0 \in N, \A n \in 0..L : n < L /\ n \in N => n + 1 \in N
  PROVE  \A n \in 0..L : n \in N
<1> DEFINE I == {n \in 0..L : n \notin N}
<1>1. SUFFICES ASSUME I # {} PROVE FALSE
  OBVIOUS
<1>2. IsFiniteSet(I) /\ I \in SUBSET Nat
 <2>1. IsFiniteSet(0..L)
   BY FS_Interval
 <2>2. I \in SUBSET (0..L) /\ I \in SUBSET Nat
   OBVIOUS
 <2> HIDE DEF I
 <2> QED
   BY <2>1, <2>2, FS_Subset
<1>3. PICK i \in I : \A j \in I : i <= j
 <2> HIDE DEF I
 <2> QED
   BY <1>1, <1>2, LeastOf
<1>4. i # 0 /\ i - 1 \in 0..L /\ i - 1 < L /\ i - 1 \notin I
  BY <1>3
<1>5. (i - 1) + 1 \in N
  BY <1>4
<1> QED
  BY <1>3, <1>5

(* j[n] is what the first n unions have made.                                  *)
Unions(j, pairs, m) ==
  j = [n \in 0..m |-> IF n = 0 THEN [q \in Query |-> q] ELSE Union(j[n - 1], pairs[n][1], pairs[n][2])]

LEMMA UnionsExist ==
  ASSUME NEW pairs \in Seq(Query \X Query)
  PROVE  \E j : Unions(j, pairs, Len(pairs)) /\ UnionAll(pairs) = j[Len(pairs)]
<1> DEFINE L == Len(pairs)
           Next_of(j, n) == IF n = 0 THEN [q \in Query |-> q] ELSE Union(j[n - 1], pairs[n][1], pairs[n][2])
           N == {m \in 0..L : \E j : Unions(j, pairs, m)}
<1>1. L \in Nat
  BY LenProperties
<1>2. 0 \in N
 <2> DEFINE j == [n \in 0..0 |-> [q \in Query |-> q]]
 <2>1. \A n \in 0..0 : n = 0
   OBVIOUS
 <2>2. j = [n \in 0..0 |-> Next_of(j, n)]
   BY <2>1
 <2>3. Unions(j, pairs, 0)
   BY <2>2 DEF Unions
 <2> QED
   BY <1>1, <2>3
<1>3. ASSUME NEW m \in 0..L, m < L, m \in N PROVE m + 1 \in N
 <2>1. PICK j : Unions(j, pairs, m)
   BY <1>3
 <2> DEFINE k == [n \in 0..(m + 1) |-> IF n = m + 1 THEN Next_of(j, m + 1) ELSE j[n]]
 <2>2. \A n \in 0..m : j[n] = Next_of(j, n)
  <3> HIDE DEF Next_of
  <3>1. j = [n \in 0..m |-> Next_of(j, n)]
    BY <2>1 DEF Unions, Next_of
  <3> QED
    BY <3>1
 <2>3. \A n \in 0..m : k[n] = j[n]
  <3> HIDE DEF Next_of
  <3> QED
    BY <1>1, <1>3
 <2>4. ASSUME NEW n \in 0..(m + 1) PROVE k[n] = Next_of(k, n)
  <3>1. n # 0 => k[n - 1] = j[n - 1]
   <4>1. n # 0 => n - 1 \in 0..m
     BY <1>1, <1>3
   <4> HIDE DEF k
   <4> QED
     BY <2>3, <4>1
  <3>2. Next_of(k, n) = Next_of(j, n)
   <4> HIDE DEF k
   <4> QED
     BY <3>1
  <3>3. k[n] = Next_of(j, n)
   <4>1. CASE n = m + 1
    <5> HIDE DEF Next_of
    <5> QED
      BY <4>1
   <4>2. CASE n # m + 1
    <5>1. n \in 0..m
      BY <1>1, <1>3, <4>2
    <5> HIDE DEF k, Next_of
    <5> QED
      BY <2>2, <2>3, <5>1
   <4> QED
     BY <4>1, <4>2
  <3> HIDE DEF k, Next_of
  <3> QED
    BY <3>2, <3>3
 <2>5. k = [n \in 0..(m + 1) |-> k[n]]
   OBVIOUS
 <2>6. k = [n \in 0..(m + 1) |-> Next_of(k, n)]
  <3> HIDE DEF k, Next_of
  <3> QED
    BY <2>4, <2>5
 <2>7. Unions(k, pairs, m + 1)
  <3> HIDE DEF k
  <3> QED
    BY <2>6 DEF Unions
 <2> HIDE DEF k
 <2>8. m + 1 \in 0..L
   BY <1>1, <1>3
 <2> QED
   BY <2>7, <2>8
<1>4. L \in N
 <2> HIDE DEF N, L
 <2>1. \A m \in 0..L : m < L /\ m \in N => m + 1 \in N
   BY <1>3
 <2>2. \A m \in 0..L : m \in N
   BY <1>1, <1>2, <2>1, StepByStep
 <2> QED
   BY <1>1, <2>2
<1> DEFINE j == CHOOSE j : Unions(j, pairs, L)
<1>5. Unions(j, pairs, L)
  BY <1>4
<1>6. UnionAll(pairs) = j[L]
  BY DEF UnionAll, Unions
<1> QED
  BY <1>5, <1>6

(* Who has one root is together: the two of each pair are, and nobody but whom *)
(* a chain of pairs joins.                                                     *)
Together(root, pairs, n, R) ==
  /\ \A i \in 1..n : root[pairs[i][1]] = root[pairs[i][2]]
  /\ \A a, b \in Query : root[a] = root[b] => b \in Closure({a}, R)

LEMMA TogetherStays ==
  ASSUME NEW R \in SUBSET (Query \X Query), Turns(R), NEW pairs, NEW n \in Nat, NEW root \in Parents,
         Together(root, pairs, n, R), \A i \in 1..(n + 1) : pairs[i] \in R
  PROVE  Together(Joined(root, pairs[n + 1][1], pairs[n + 1][2]), pairs, n + 1, R)
<1> DEFINE p == pairs[n + 1]
           x == p[1]
           y == p[2]
           r == Joined(root, x, y)
<1>1. p \in R /\ x \in Query /\ y \in Query
  BY DEF Together
<1>2. \A q \in Query : r[q] = IF root[q] = root[y] THEN root[x] ELSE root[q]
  BY DEF Joined
<1> HIDE DEF r
<1>3. ASSUME NEW i \in 1..(n + 1) PROVE r[pairs[i][1]] = r[pairs[i][2]]
 <2>1. CASE i = n + 1
   BY <1>1, <1>2, <2>1
 <2>2. CASE i # n + 1
  <3>1. i \in 1..n /\ pairs[i][1] \in Query /\ pairs[i][2] \in Query
    BY <2>2
  <3>2. root[pairs[i][1]] = root[pairs[i][2]]
    BY <3>1 DEF Together
  <3> QED
    BY <1>2, <3>1, <3>2
 <2> QED
   BY <2>1, <2>2
<1>4. x \in Closure({y}, R) /\ y \in Closure({x}, R)
 <2>1. {x} \subseteq Closure({x}, R) /\ Closed(Closure({x}, R), R)
   BY <1>1, ClosureIs
 <2>2. y \in Closure({x}, R)
   BY <1>1, <2>1 DEF Closed
 <2> HIDE DEF x, y
 <2> QED
   BY <1>1, <2>2, Chains
<1> HIDE DEF x, y
<1>5. ASSUME NEW a \in Query, NEW b \in Query, r[a] = r[b] PROVE b \in Closure({a}, R)
 <2>1. \A c, d \in Query : root[c] = root[d] => d \in Closure({c}, R)
   BY DEF Together
 <2>2. CASE root[a] = root[b]
   BY <2>1, <2>2
 <2>3. CASE root[a] # root[b]
  <3>1. (root[a] = root[y] /\ root[x] = root[b]) \/ (root[a] = root[x] /\ root[y] = root[b])
    BY <1>2, <1>5, <2>3
  <3>2. \A c, d, e \in Query : d \in Closure({c}, R) /\ e \in Closure({d}, R) => e \in Closure({c}, R)
    BY Chains
  <3>3. (y \in Closure({a}, R) /\ b \in Closure({x}, R)) \/ (x \in Closure({a}, R) /\ b \in Closure({y}, R))
    BY <1>1, <2>1, <3>1
  <3> QED
    BY <1>1, <1>4, <3>2, <3>3
 <2> QED
   BY <2>2, <2>3
<1> QED
  BY <1>3, <1>5 DEF Together, r, x, y

LEMMA UnionsAre ==
  ASSUME NEW pairs \in Seq(Query \X Query), NEW R \in SUBSET (Query \X Query), Turns(R),
         \A i \in 1..Len(pairs) : pairs[i] \in R
  PROVE  \E root : Rooted(UnionAll(pairs), root) /\ Together(root, pairs, Len(pairs), R)
<1> DEFINE L == Len(pairs)
<1>1. L \in Nat
  BY LenProperties
<1>2. PICK j : Unions(j, pairs, L) /\ UnionAll(pairs) = j[L]
  BY UnionsExist
<1>3. \A n \in 0..L : j[n] = IF n = 0 THEN [q \in Query |-> q] ELSE Union(j[n - 1], pairs[n][1], pairs[n][2])
  BY <1>2 DEF Unions
<1> HIDE DEF L
<1> DEFINE N == {n \in 0..L : \E root : Rooted(j[n], root) /\ Together(root, pairs, n, R)}
           id == [q \in Query |-> q]
<1>4. 0 \in N
 <2>1. j[0] = id /\ 0 \in 0..L
   BY <1>1, <1>3
 <2>2. id \in Parents /\ \A q \in Query : id[q] = q
   BY DEF Parents
 <2> HIDE DEF id
 <2>3. \A q \in Query : {q} \subseteq Closure({q}, Links(id)) /\ {q} \subseteq Closure({q}, R)
   BY <2>2, LinksAre, ClosureIs
 <2>4. Rooted(id, id)
   BY <2>2, <2>3 DEF Rooted
 <2>5. Together(id, pairs, 0, R)
   BY <2>2, <2>3 DEF Together
 <2> QED
   BY <2>1, <2>4, <2>5
<1>5. ASSUME NEW n \in 0..L, n < L, n \in N PROVE n + 1 \in N
 <2>1. PICK root : Rooted(j[n], root) /\ Together(root, pairs, n, R)
   BY <1>5
 <2> DEFINE p == pairs[n + 1]
 <2>2. n + 1 \in 1..L /\ n \in Nat /\ p \in R /\ p[1] \in Query /\ p[2] \in Query
   BY <1>1, <1>5 DEF L
 <2>3. j[n + 1] = Union(j[n], p[1], p[2])
  <3>1. n + 1 \in 0..L /\ n + 1 # 0 /\ (n + 1) - 1 = n
    BY <1>1, <1>5
  <3> QED
    BY <1>3, <3>1
 <2>4. \A i \in 1..(n + 1) : pairs[i] \in R
   BY <1>1, <1>5 DEF L
 <2>5. root \in Parents
   BY <2>1 DEF Rooted
 <2>6. Together(Joined(root, p[1], p[2]), pairs, n + 1, R)
   BY <2>1, <2>2, <2>4, <2>5, TogetherStays
 <2> HIDE DEF p
 <2>7. Rooted(j[n + 1], Joined(root, p[1], p[2]))
   BY <2>1, <2>2, <2>3, UnionIs
 <2>8. n + 1 \in 0..L
   BY <2>2
 <2> QED
   BY <2>6, <2>7, <2>8
<1>6. L \in N
 <2> HIDE DEF N
 <2>1. \A n \in 0..L : n < L /\ n \in N => n + 1 \in N
   BY <1>5
 <2>2. \A n \in 0..L : n \in N
   BY <1>1, <1>4, <2>1, StepByStep
 <2> QED
   BY <1>1, <2>2
<1> QED
  BY <1>2, <1>6 DEF L

LEMMA AloneIs ==
  ASSUME NEW id, id = [q \in Query |-> q], NEW R \in SUBSET (Query \X Query)
  PROVE  Rooted(id, id) /\ Together(id, <<>>, 0, R)
<1>1. id \in Parents /\ \A q \in Query : id[q] = q
  BY DEF Parents
<1>2. \A q \in Query : {q} \subseteq Closure({q}, Links(id)) /\ {q} \subseteq Closure({q}, R)
  BY <1>1, LinksAre, ClosureIs
<1> QED
  BY <1>1, <1>2 DEF Rooted, Together

LEMMA SumGrows ==
  ASSUME NEW S, IsFiniteSet(S), NEW F \in [S -> Nat], NEW G \in [S -> Nat], \A x \in S : F[x] <= G[x]
  PROVE  SumFunction(F) <= SumFunction(G) /\ SumFunction(F) \in Nat /\ SumFunction(G) \in Nat
<1>1. Numbers(F, S) /\ Numbers(G, S)
  BY DEF Numbers
<1>2. SumFunction(F) = SumFunctionOnSet(F, S) /\ SumFunction(G) = SumFunctionOnSet(G, S)
  BY DEF SumFunction
<1> QED
  BY <1>1, <1>2, SumHolds, SumLess

LEMMA LeastIs ==
  ASSUME NEW g \in SUBSET Query, g # {}
  PROVE  Min(g) \in g
<1>1. IsFiniteSet(g) /\ g \in SUBSET Nat
  BY QueryFinite DEF Query
<1>2. \E i \in g : \A j \in g : i <= j
  BY <1>1, LeastOf
<1> QED
  BY <1>2 DEF Min

LEMMA Commonest ==
  ASSUME NEW g \in SUBSET Query, NEW x \in g, NEW v \in [g -> Nat]
  PROVE  \E q \in g : \A o \in g : v[o] <= v[q]
<1> DEFINE I == {v[q] : q \in g}
<1>1. IsFiniteSet(I) /\ I \in SUBSET Nat /\ I # {}
 <2>1. IsFiniteSet(g)
   BY QueryFinite
 <2> QED
   BY <2>1, ImageFinite
<1>2. PICK i \in I : \A j \in I : j <= i
 <2> HIDE DEF I
 <2> QED
   BY <1>1, GreatestOf
<1>3. PICK q \in g : v[q] = i
  OBVIOUS
<1> QED
  BY <1>2, <1>3

(* The queries under one root; what a summary of such a group says; and what   *)
(* the statistics of the queries D were.                                       *)
Group_of(root, D, x) == {q \in D : root[q] = root[x]}
Cluster(k, g, volume, zero) ==
  /\ k.members = g /\ k.representative \in g
  /\ \A o \in g : volume[o] <= volume[k.representative]
  /\ k.volume = SumFunction([q \in g |-> volume[q]]) /\ k.volume \in Nat
  /\ k.zero = SumFunction([q \in g |-> zero[q]]) /\ k.zero \in Nat
Figured(stats, D, volume, zero) ==
  /\ D \in SUBSET Query /\ volume \in [D -> Nat] /\ zero \in [D -> Nat] /\ DOMAIN stats = D
  /\ \A q \in D : stats[q].volume = volume[q] /\ stats[q].zero = zero[q]

LEMMA ClustersAre ==
  ASSUME NEW stats, NEW D, NEW volume, NEW zero, Figured(stats, D, volume, zero),
         NEW parent, NEW root, Rooted(parent, root), NEW list, list = Clusters(stats, parent)
  PROVE  /\ Len(list) \in Nat /\ DOMAIN list = 1..Len(list)
         /\ \A i \in 1..Len(list) : \E x \in D : Cluster(list[i], Group_of(root, D, x), volume, zero)
         /\ \A x \in D : \E i \in 1..Len(list) : x \in list[i].members
         /\ \A i, j \in 1..Len(list) :
              i < j => list[i].members \cap list[j].members = {} /\ list[i].volume >= list[j].volume
<1> DEFINE Summary(g) == [members |-> g,
                          representative |-> CHOOSE q \in g : \A o \in g : stats[o].volume <= stats[q].volume,
                          volume |-> SumFunction([q \in g |-> stats[q].volume]),
                          zero |-> SumFunction([q \in g |-> stats[q].zero])]
           Group(x) == {q \in D : Find(parent, q) = Find(parent, x)}
           clusters == {Summary(Group(x)) : x \in D}
           R == {p \in clusters \X clusters :
                        \/ p[1].volume > p[2].volume
                        \/ p[1].volume = p[2].volume /\ Min(p[1].members) < Min(p[2].members)}
           a == [k \in clusters |-> k.volume]
           b == [k \in clusters |-> Min(k.members)]
           f == [x \in D |-> Summary(Group(x))]
           s == SortedBy(clusters, R)
<1>17. /\ D \in SUBSET Query /\ volume \in [D -> Nat] /\ zero \in [D -> Nat] /\ DOMAIN stats = D
       /\ \A q \in D : stats[q].volume = volume[q] /\ stats[q].zero = zero[q]
  BY DEF Figured
<1> USE <1>17
<1>1. list = s
  BY DEF Clusters
<1>2. \A x \in D : Group(x) = Group_of(root, D, x)
 <2> SUFFICES ASSUME NEW x \in D PROVE Group(x) = Group_of(root, D, x)
   OBVIOUS
 <2>1. \A q \in D : Find(parent, q) = root[q]
   BY FindIs
 <2> QED
   BY <2>1 DEF Group_of
<1> HIDE DEF Group
<1>3. ASSUME NEW x \in D PROVE Cluster(Summary(Group(x)), Group_of(root, D, x), volume, zero)
 <2> DEFINE g == Group_of(root, D, x)
            v == [q \in g |-> volume[q]]
            z == [q \in g |-> zero[q]]
            k == Summary(g)
 <2>1. g \in SUBSET Query /\ g \subseteq D /\ x \in g
   BY DEF Group_of
 <2> HIDE DEF g
 <2>2. v \in [g -> Nat] /\ z \in [g -> Nat]
   BY <2>1
 <2>3. v = [q \in g |-> stats[q].volume] /\ z = [q \in g |-> stats[q].zero]
   BY <2>1
 <2>4. \E q \in g : \A o \in g : stats[o].volume <= stats[q].volume
  <3> HIDE DEF v
  <3>1. \E q \in g : \A o \in g : v[o] <= v[q]
    BY <2>1, <2>2, Commonest
  <3> QED
    BY <2>3, <3>1
 <2>5. k.members = g /\ k.representative \in g /\ \A o \in g : volume[o] <= volume[k.representative]
  <3>1. k.members = g /\ k.representative \in g /\ \A o \in g : stats[o].volume <= stats[k.representative].volume
    BY <2>4
  <3> HIDE DEF k
  <3> QED
    BY <2>1, <3>1
 <2>6. k.volume = SumFunction(v) /\ k.zero = SumFunction(z)
   BY <2>3
 <2> HIDE DEF v, z, k
 <2>7. SumFunction(z) \in Nat /\ SumFunction(v) \in Nat
  <3>1. IsFiniteSet(g) /\ (\A q \in g : z[q] <= z[q]) /\ \A q \in g : v[q] <= v[q]
    BY <2>1, <2>2, QueryFinite
  <3> QED
    BY <2>2, <3>1, SumGrows
 <2>8. Cluster(k, g, volume, zero)
   BY <2>5, <2>6, <2>7 DEF Cluster, v, z
 <2> QED
   BY <1>2, <2>8 DEF g, k
<1>4. \A k \in clusters : \E x \in D : k = Summary(Group(x))
  OBVIOUS
<1>5. /\ \A k \in clusters : \E x \in D : Cluster(k, Group_of(root, D, x), volume, zero)
      /\ \A x \in D : \E k \in clusters : x \in k.members
 <2>1. \A x \in D : Summary(Group(x)) \in clusters
   OBVIOUS
 <2> HIDE DEF Summary, clusters
 <2>2. \A k \in clusters : \E x \in D : Cluster(k, Group_of(root, D, x), volume, zero)
   BY <1>3, <1>4
 <2>3. \A x \in D : x \in Summary(Group(x)).members
   BY <1>3 DEF Cluster, Group_of
 <2> QED
   BY <2>1, <2>2, <2>3
<1>6. IsFiniteSet(clusters)
 <2>1. f \in [D -> clusters] /\ \A k \in clusters : \E x \in D : f[x] = k
   OBVIOUS
 <2>2. IsFiniteSet(D)
   BY QueryFinite
 <2> HIDE DEF f, clusters
 <2>3. f \in Surjection(D, clusters)
   BY <2>1 DEF Surjection
 <2> QED
   BY <2>2, <2>3, FS_Surjection
<1>7. ASSUME NEW k \in clusters, NEW h \in clusters, NEW q \in k.members, q \in h.members PROVE k = h
 <2>1. PICK x \in D : k = Summary(Group(x))
   BY <1>4
 <2>2. PICK y \in D : h = Summary(Group(y))
   BY <1>4
 <2> HIDE DEF Summary
 <2>3. k.members = Group_of(root, D, x) /\ h.members = Group_of(root, D, y)
   BY <1>3, <2>1, <2>2 DEF Cluster
 <2>4. root[x] = root[y]
   BY <1>7, <2>3 DEF Group_of
 <2>5. Group_of(root, D, x) = Group_of(root, D, y)
   BY <2>4 DEF Group_of
 <2> QED
   BY <1>2, <2>1, <2>2, <2>5
<1> HIDE DEF Summary, clusters
<1>8. \A k \in clusters : k.members \in SUBSET Query /\ Min(k.members) \in k.members /\ k.volume \in Nat
 <2> SUFFICES ASSUME NEW k \in clusters PROVE k.members \in SUBSET Query /\ Min(k.members) \in k.members /\ k.volume \in Nat
   OBVIOUS
 <2>1. PICK x \in D : Cluster(k, Group_of(root, D, x), volume, zero)
   BY <1>5
 <2>2. k.members \in SUBSET Query /\ k.members # {} /\ k.volume \in Nat
   BY <2>1 DEF Cluster, Group_of
 <2> QED
   BY <2>2, LeastIs
<1>9. /\ a \in [clusters -> Nat] /\ b \in [clusters -> Nat]
      /\ \A x, y \in clusters : b[x] = b[y] => x = y
  BY <1>7, <1>8 DEF Query
<1>14. \A x \in clusters : a[x] = x.volume
  OBVIOUS
<1>10. \A x, y \in clusters : <<x, y>> \in R <=> (a[x] > a[y] \/ (a[x] = a[y] /\ b[x] < b[y]))
  OBVIOUS
<1> HIDE DEF a, b, R
<1>11. /\ s \in Seq(clusters) /\ Len(s) = Cardinality(clusters)
       /\ \A i, j \in 1..Len(s) : s[i] = s[j] => i = j
       /\ \A x \in clusters : \E i \in 1..Len(s) : s[i] = x
       /\ \A i, j \in 1..Len(s) : i < j => a[s[i]] >= a[s[j]]
  BY <1>6, <1>9, <1>10, Ranking
<1> HIDE DEF s
<1>12. Len(list) \in Nat /\ DOMAIN list = 1..Len(list) /\ \A i \in 1..Len(list) : list[i] \in clusters
  BY <1>1, <1>11, LenProperties, ElementOfSeq
<1>13. ASSUME NEW i \in 1..Len(list), NEW j \in 1..Len(list), i < j
       PROVE  list[i].members \cap list[j].members = {} /\ list[i].volume >= list[j].volume
 <2>1. list[i] # list[j]
   BY <1>1, <1>11, <1>13
 <2> QED
   BY <1>1, <1>7, <1>11, <1>12, <1>13, <1>14, <2>1
<1>15. \A x \in D : \E i \in 1..Len(list) : x \in list[i].members
 <2> SUFFICES ASSUME NEW x \in D PROVE \E i \in 1..Len(list) : x \in list[i].members
   OBVIOUS
 <2>1. PICK k \in clusters : x \in k.members
   BY <1>5
 <2>2. PICK i \in 1..Len(s) : s[i] = k
   BY <1>11
 <2> QED
   BY <1>1, <2>1, <2>2
<1>16. \A i \in 1..Len(list) : \E x \in D : Cluster(list[i], Group_of(root, D, x), volume, zero)
  BY <1>5, <1>12
<1> QED
  BY <1>12, <1>13, <1>15, <1>16

(* What a report says and what it has read, of counts cs and clicks ck, in     *)
(* deployment dp.                                                              *)
ClickType == [Day -> [Form -> ClickCounts]]
VolumeIn(r, cs, dp, q) == Volume(cs, Window(r.day, dp.days), r.scope, q)
ZeroIn(r, cs, dp, q) == Zero(cs, Window(r.day, dp.days), r.scope, q)
RowsIn(r, cs, dp) == Rows(cs, Window(r.day, dp.days), r.scope)
SumIn(r, cs, dp, qs) == SumFunction([q \in qs |-> VolumeIn(r, cs, dp, q)])
ZerosIn(r, cs, dp, qs) == SumFunction([q \in qs |-> ZeroIn(r, cs, dp, q)])
RecentIn(r, cs, q) == Volume(cs, RecentDays(r.day), r.scope, q)
PreviousIn(r, cs, q) == Volume(cs, PreviousDays(r.day), r.scope, q)
MadeIn(r, ck, dp) == SumFunction([d \in Window(r.day, dp.days) |-> ck[d]["plain"].made])
StepsIn(dp, rows) == {p \in Query \X rows : p[1] # p[2] /\ dp.alike[{p[1], p[2]}] >= dp.threshold}
ReachIn(dp, rows, q) == Closure({q}, StepsIn(dp, rows))

WeeksHold(r, recent, cs, dp) ==
  \A q \in Query :
    /\ recent[q][1] \in Nat /\ RecentIn(r, r.before, q) <= recent[q][1] /\ recent[q][1] <= RecentIn(r, cs, q)
    /\ recent[q][2] \in Nat /\ PreviousIn(r, r.before, q) <= recent[q][2] /\ recent[q][2] <= PreviousIn(r, cs, q)
    /\ dp.days >= 2 * Week => recent[q][1] + recent[q][2] <= VolumeIn(r, cs, dp, q)
DemandHolds(r, list, cs, ck, dp) ==
  /\ \A i \in DOMAIN list :
       LET x == list[i] IN
       /\ x.query \in Query /\ x.volume \in Nat /\ x.gap \in Nat
       /\ VolumeIn(r, r.before, dp, x.query) <= x.volume /\ x.volume <= VolumeIn(r, cs, dp, x.query)
       /\ ZeroIn(r, r.before, dp, x.query) <= x.gap /\ x.gap <= ZeroIn(r, cs, dp, x.query)
       /\ x.recent \in Nat /\ RecentIn(r, r.before, x.query) <= x.recent /\ x.recent <= RecentIn(r, cs, x.query)
       /\ x.previous \in Nat /\ PreviousIn(r, r.before, x.query) <= x.previous
       /\ x.previous <= PreviousIn(r, cs, x.query)
       /\ x.clicks \in Nat /\ x.clicks <= IF x.query = 1 THEN MadeIn(r, ck, dp) ELSE 0
       /\ dp.days >= 2 * Week => x.recent + x.previous <= x.volume
  /\ \A q \in Query : ZeroIn(r, r.before, dp, q) >= 1 => \E i \in DOMAIN list : list[i].query = q
  /\ \A i, j \in DOMAIN list :
       i < j => list[i].query # list[j].query /\ list[i].gap >= list[j].gap

StatsHold(r, stats, cs, dp) ==
  /\ DOMAIN stats \subseteq RowsIn(r, cs, dp) /\ RowsIn(r, r.before, dp) \subseteq DOMAIN stats
  /\ \A q \in DOMAIN stats :
       /\ stats[q].volume \in Nat /\ stats[q].zero \in Nat
       /\ VolumeIn(r, r.before, dp, q) <= stats[q].volume /\ stats[q].volume <= VolumeIn(r, cs, dp, q)
       /\ ZeroIn(r, r.before, dp, q) <= stats[q].zero /\ stats[q].zero <= ZeroIn(r, cs, dp, q)
Known(list) == UNION {list[i].members : i \in DOMAIN list}
ClustersHold(r, list, stats, cs, dp) ==
  /\ RowsIn(r, r.before, dp) \subseteq Known(list)
  /\ \A i, j \in DOMAIN list :
       i < j => list[i].members \cap list[j].members = {} /\ list[i].volume >= list[j].volume
  /\ \A i \in DOMAIN list :
       LET g == list[i] IN
       /\ g.members \in SUBSET Query /\ g.volume \in Nat /\ g.zero \in Nat
       /\ \A q \in g.members : ReachIn(dp, Known(list), q) \subseteq g.members
       /\ \A q \in g.members : g.members \subseteq ReachIn(dp, RowsIn(r, cs, dp), q)
       /\ g.representative \in g.members
       /\ \A q \in g.members : /\ stats[q].volume \in Nat /\ stats[q].volume <= stats[g.representative].volume
                               /\ VolumeIn(r, r.before, dp, q) <= stats[q].volume
                               /\ stats[q].volume <= VolumeIn(r, cs, dp, q)
       /\ SumIn(r, r.before, dp, g.members) <= g.volume /\ g.volume <= SumIn(r, cs, dp, g.members)
       /\ ZerosIn(r, r.before, dp, g.members) <= g.zero /\ g.zero <= ZerosIn(r, cs, dp, g.members)

SearchesHold(r, n, cs, dp) == n \in Nat /\ VolumeIn(r, r.before, dp, 1) <= n /\ n <= VolumeIn(r, cs, dp, 1)
ClicksHold(r, n, ck, dp) == n \in Nat /\ n <= MadeIn(r, ck, dp)
RatioHolds(r, list, cs, ck, dp) ==
  \A i \in DOMAIN list :
    SearchesHold(r, list[i].searches, cs, dp) /\ ClicksHold(r, list[i].clicks, ck, dp)

ReportHolds(r, cs, ck, dp) ==
  /\ r.before \in CountsType /\ Below(r.before, cs)
  /\ r.at \in {"clicked", "rows"} => WeeksHold(r, r.recent, cs, dp)
  /\ r.at = "pairs" => StatsHold(r, r.stats, cs, dp)
  /\ r.at = "ratio" => SearchesHold(r, r.stats[1], cs, dp)
  /\ r.at \in {"rows", "topratio"} => ClicksHold(r, r.clicked, ck, dp)
  /\ r.at = "done" => /\ r.op = "weeks" => DemandHolds(r, r.result, cs, ck, dp)
                      /\ r.op = "stats" => ClustersHold(r, r.result, r.stats, cs, dp)
                      /\ r.op \in {"searches", "top"} => RatioHolds(r, r.result, cs, ck, dp)

(* What is counted, and clicked, meanwhile lets all of it hold.                *)
LEMMA FiguresIn ==
  ASSUME NEW r, RunType(r), NEW dp, NEW cs \in CountsType, NEW now \in CountsType, Below(cs, now)
  PROVE  /\ \A q \in Query : /\ VolumeIn(r, cs, dp, q) <= VolumeIn(r, now, dp, q)
                             /\ ZeroIn(r, cs, dp, q) <= ZeroIn(r, now, dp, q)
                             /\ VolumeIn(r, cs, dp, q) \in Nat /\ VolumeIn(r, now, dp, q) \in Nat
                             /\ ZeroIn(r, cs, dp, q) \in Nat /\ ZeroIn(r, now, dp, q) \in Nat
         /\ \A q \in Query : /\ RecentIn(r, cs, q) <= RecentIn(r, now, q) /\ PreviousIn(r, cs, q) <= PreviousIn(r, now, q)
                             /\ RecentIn(r, cs, q) \in Nat /\ RecentIn(r, now, q) \in Nat
                             /\ PreviousIn(r, cs, q) \in Nat /\ PreviousIn(r, now, q) \in Nat
         /\ RowsIn(r, cs, dp) \subseteq RowsIn(r, now, dp) /\ RowsIn(r, now, dp) \in SUBSET Query
         /\ \A S \in SUBSET Query : /\ SumIn(r, cs, dp, S) <= SumIn(r, now, dp, S)
                                    /\ SumIn(r, cs, dp, S) \in Nat /\ SumIn(r, now, dp, S) \in Nat
                                    /\ ZerosIn(r, cs, dp, S) <= ZerosIn(r, now, dp, S)
                                    /\ ZerosIn(r, cs, dp, S) \in Nat /\ ZerosIn(r, now, dp, S) \in Nat
<1> DEFINE ds == Window(r.day, dp.days)
           scope == r.scope
<1>1. ds \in SUBSET Day /\ scope \in Tenant
  BY Windows DEF RunType
<1>5. ASSUME NEW q \in Query
      PROVE  /\ RecentIn(r, cs, q) <= RecentIn(r, now, q) /\ PreviousIn(r, cs, q) <= PreviousIn(r, now, q)
             /\ RecentIn(r, cs, q) \in Nat /\ RecentIn(r, now, q) \in Nat
             /\ PreviousIn(r, cs, q) \in Nat /\ PreviousIn(r, now, q) \in Nat
 <2> DEFINE A == RecentDays(r.day)
            B == PreviousDays(r.day)
 <2>1. A \in SUBSET Day /\ B \in SUBSET Day
   BY Windows DEF RecentDays, PreviousDays
 <2> HIDE DEF A, B
 <2>2. /\ Volume(cs, A, r.scope, q) <= Volume(now, A, r.scope, q)
       /\ Volume(cs, B, r.scope, q) <= Volume(now, B, r.scope, q)
       /\ Volume(cs, A, r.scope, q) \in Nat /\ Volume(now, A, r.scope, q) \in Nat
       /\ Volume(cs, B, r.scope, q) \in Nat /\ Volume(now, B, r.scope, q) \in Nat
   BY <1>1, <2>1, FiguresGrow, FiguresHold
 <2> QED
   BY <2>2 DEF RecentIn, PreviousIn, A, B
<1> HIDE DEF ds, scope
<1>2. /\ \A q \in Query : Volume(cs, ds, scope, q) <= Volume(now, ds, scope, q)
      /\ \A q \in Query : Zero(cs, ds, scope, q) <= Zero(now, ds, scope, q)
      /\ \A q \in Query : Volume(cs, ds, scope, q) \in Nat /\ Zero(cs, ds, scope, q) \in Nat
      /\ \A q \in Query : Volume(now, ds, scope, q) \in Nat /\ Zero(now, ds, scope, q) \in Nat
  BY <1>1, FiguresGrow, FiguresHold
<1>3. Rows(cs, ds, scope) \subseteq Rows(now, ds, scope) /\ Rows(now, ds, scope) \in SUBSET Query
  BY <1>1, RowsGrow, RowsAre
<1>4. ASSUME NEW S \in SUBSET Query
      PROVE  /\ SumIn(r, cs, dp, S) <= SumIn(r, now, dp, S)
             /\ SumIn(r, cs, dp, S) \in Nat /\ SumIn(r, now, dp, S) \in Nat
             /\ ZerosIn(r, cs, dp, S) <= ZerosIn(r, now, dp, S)
             /\ ZerosIn(r, cs, dp, S) \in Nat /\ ZerosIn(r, now, dp, S) \in Nat
 <2> DEFINE F == [q \in S |-> Volume(cs, ds, scope, q)]
            G == [q \in S |-> Volume(now, ds, scope, q)]
            Y == [q \in S |-> Zero(cs, ds, scope, q)]
            Z == [q \in S |-> Zero(now, ds, scope, q)]
 <2>1. /\ F \in [S -> Nat] /\ G \in [S -> Nat] /\ (\A q \in S : F[q] <= G[q]) /\ IsFiniteSet(S)
       /\ Y \in [S -> Nat] /\ Z \in [S -> Nat] /\ \A q \in S : Y[q] <= Z[q]
   BY <1>2, QueryFinite
 <2>2. /\ SumIn(r, cs, dp, S) = SumFunction(F) /\ SumIn(r, now, dp, S) = SumFunction(G)
       /\ ZerosIn(r, cs, dp, S) = SumFunction(Y) /\ ZerosIn(r, now, dp, S) = SumFunction(Z)
   BY DEF SumIn, VolumeIn, ZerosIn, ZeroIn, ds, scope
 <2> HIDE DEF F, G, Y, Z
 <2>3. SumFunction(F) <= SumFunction(G) /\ SumFunction(F) \in Nat /\ SumFunction(G) \in Nat
   BY <2>1, SumGrows
 <2>4. SumFunction(Y) <= SumFunction(Z) /\ SumFunction(Y) \in Nat /\ SumFunction(Z) \in Nat
   BY <2>1, SumGrows
 <2> QED
   BY <2>2, <2>3, <2>4
<1> QED
  BY <1>2, <1>3, <1>4, <1>5 DEF VolumeIn, ZeroIn, RowsIn, ds, scope

LEMMA MadeGrows ==
  ASSUME NEW r, NEW dp, NEW ck \in ClickType, NEW kn \in ClickType,
         \A d \in Day, f \in Form : ck[d][f].made <= kn[d][f].made
  PROVE  MadeIn(r, ck, dp) <= MadeIn(r, kn, dp) /\ MadeIn(r, ck, dp) \in Nat /\ MadeIn(r, kn, dp) \in Nat
<1> DEFINE S == Window(r.day, dp.days)
           F == [d \in S |-> ck[d]["plain"].made]
           G == [d \in S |-> kn[d]["plain"].made]
<1>1. S \in SUBSET Day /\ IsFiniteSet(S)
  BY Windows, CellsFinite DEF Tenant
<1>2. MadeIn(r, ck, dp) = SumFunction(F) /\ MadeIn(r, kn, dp) = SumFunction(G)
  BY DEF MadeIn
<1> HIDE DEF S
<1>3. "plain" \in Form
  BY DEF Form
<1>4. \A d \in S : ck[d]["plain"] \in ClickCounts /\ kn[d]["plain"] \in ClickCounts
  BY <1>1, <1>3 DEF ClickType
<1>5. F \in [S -> Nat] /\ G \in [S -> Nat] /\ \A d \in S : F[d] <= G[d]
  BY <1>1, <1>3, <1>4 DEF ClickCounts
<1> HIDE DEF F, G
<1> QED
  BY <1>1, <1>2, <1>5, SumGrows

LEMMA StepsGrow ==
  ASSUME NEW dp, NEW rows \in SUBSET Query, NEW R, R \subseteq StepsIn(dp, rows), NEW q \in Query
  PROVE  Closure({q}, R) \subseteq ReachIn(dp, rows, q)
<1>1. StepsIn(dp, rows) \in SUBSET (Query \X Query)
  BY DEF StepsIn
<1>2. {q} \in SUBSET Query
  OBVIOUS
<1> QED
  BY <1>1, <1>2, ClosureGrows DEF ReachIn

LEMMA ReportStays ==
  ASSUME NEW r, RunType(r), NEW dp, NEW cs \in CountsType, NEW now \in CountsType, Below(cs, now),
         NEW ck \in ClickType, NEW kn \in ClickType, \A d \in Day, f \in Form : ck[d][f].made <= kn[d][f].made,
         ReportHolds(r, cs, ck, dp)
  PROVE  ReportHolds(r, now, kn, dp)
<1>1. /\ \A q \in Query : /\ VolumeIn(r, cs, dp, q) <= VolumeIn(r, now, dp, q)
                          /\ ZeroIn(r, cs, dp, q) <= ZeroIn(r, now, dp, q)
                          /\ VolumeIn(r, cs, dp, q) \in Nat /\ VolumeIn(r, now, dp, q) \in Nat
                          /\ ZeroIn(r, cs, dp, q) \in Nat /\ ZeroIn(r, now, dp, q) \in Nat
      /\ \A q \in Query : /\ RecentIn(r, cs, q) <= RecentIn(r, now, q) /\ PreviousIn(r, cs, q) <= PreviousIn(r, now, q)
                          /\ RecentIn(r, cs, q) \in Nat /\ RecentIn(r, now, q) \in Nat
                          /\ PreviousIn(r, cs, q) \in Nat /\ PreviousIn(r, now, q) \in Nat
      /\ RowsIn(r, cs, dp) \subseteq RowsIn(r, now, dp) /\ RowsIn(r, now, dp) \in SUBSET Query
      /\ \A S \in SUBSET Query : /\ SumIn(r, cs, dp, S) <= SumIn(r, now, dp, S)
                                 /\ SumIn(r, cs, dp, S) \in Nat /\ SumIn(r, now, dp, S) \in Nat
                                 /\ ZerosIn(r, cs, dp, S) <= ZerosIn(r, now, dp, S)
                                 /\ ZerosIn(r, cs, dp, S) \in Nat /\ ZerosIn(r, now, dp, S) \in Nat
  BY FiguresIn
<1>2. MadeIn(r, ck, dp) <= MadeIn(r, kn, dp) /\ MadeIn(r, ck, dp) \in Nat /\ MadeIn(r, kn, dp) \in Nat
  BY MadeGrows
<1>3. r.before \in CountsType /\ Below(r.before, now)
 <2>1. \A d \in Day, t \in Tenant, q \in Query :
         /\ r.before[d][t][q] \in [total : Nat, zero : Nat] /\ cs[d][t][q] \in [total : Nat, zero : Nat]
         /\ now[d][t][q] \in [total : Nat, zero : Nat]
   BY DEF CountsType, ReportHolds
 <2> QED
   BY <2>1 DEF Below, ReportHolds
<1>4. \A v : WeeksHold(r, v, cs, dp) => WeeksHold(r, v, now, dp)
  BY <1>1 DEF WeeksHold
<1>5. \A v : DemandHolds(r, v, cs, ck, dp) => DemandHolds(r, v, now, kn, dp)
  BY <1>1, <1>2 DEF DemandHolds
<1>6. \A v : StatsHold(r, v, cs, dp) => StatsHold(r, v, now, dp)
  BY <1>1 DEF StatsHold
<1>7. /\ \A n : SearchesHold(r, n, cs, dp) => SearchesHold(r, n, now, dp)
      /\ \A n : ClicksHold(r, n, ck, dp) => ClicksHold(r, n, kn, dp)
  BY <1>1, <1>2 DEF SearchesHold, ClicksHold, Query
<1>8. \A v, u : ClustersHold(r, v, u, cs, dp) => ClustersHold(r, v, u, now, dp)
 <2>1. \A q \in Query : ReachIn(dp, RowsIn(r, cs, dp), q) \subseteq ReachIn(dp, RowsIn(r, now, dp), q)
  <3>1. StepsIn(dp, RowsIn(r, cs, dp)) \subseteq StepsIn(dp, RowsIn(r, now, dp))
    BY <1>1 DEF StepsIn
  <3> QED
    BY <1>1, <3>1, StepsGrow DEF ReachIn
 <2> QED
   BY <1>1, <2>1 DEF ClustersHold
<1> QED
  BY <1>3, <1>4, <1>5, <1>6, <1>7, <1>8 DEF ReportHolds, RatioHolds

(* What the statements of a report read holds.                                 *)
LEMMA WeeksRead ==
  ASSUME IntelligenceType, NEW r, RunType(r), r.before \in CountsType, Below(r.before, counts),
         NEW v, v = [q \in Query |-> <<Volume(counts, RecentDays(r.day), r.scope, q),
                                       Volume(counts, PreviousDays(r.day), r.scope, q)>>]
  PROVE  WeeksHold(r, v, counts, dep)
<1> DEFINE A == RecentDays(r.day)
           B == PreviousDays(r.day)
           es == Window(r.day, dep.days)
<1>1. /\ A \in SUBSET Day /\ B \in SUBSET Day /\ es \in SUBSET Day /\ A \cap B = {}
      /\ counts \in CountsType /\ r.scope \in Tenant /\ r.day \in Nat /\ dep.days \in Nat
  BY DeploymentsAssumption, Windows DEF RecentDays, PreviousDays, RunType, IntelligenceType, Day
<1>2. ASSUME dep.days >= 2 * Week PROVE A \in SUBSET es /\ B \in SUBSET es
  BY <1>1, <1>2 DEF Window, RecentDays, PreviousDays, Week, Day
<1> HIDE DEF A, B, es
<1>3. /\ \A q \in Query : Volume(counts, A, r.scope, q) \in Nat /\ Volume(counts, B, r.scope, q) \in Nat
      /\ \A q \in Query : /\ Volume(r.before, A, r.scope, q) <= Volume(counts, A, r.scope, q)
                          /\ Volume(r.before, B, r.scope, q) <= Volume(counts, B, r.scope, q)
  BY <1>1, FiguresHold, FiguresGrow
<1>4. ASSUME dep.days >= 2 * Week, NEW q \in Query
      PROVE  Volume(counts, A, r.scope, q) + Volume(counts, B, r.scope, q) <= VolumeIn(r, counts, dep, q)
  BY <1>1, <1>2, <1>4, VolumeParts DEF VolumeIn, es
<1> QED
  BY <1>3, <1>4 DEF WeeksHold, RecentIn, PreviousIn, A, B

LEMMA DemandRead ==
  ASSUME NEW r, RunType(r), NEW dp, NEW cs \in CountsType, Fails(cs), r.before \in CountsType, Below(r.before, cs),
         WeeksHold(r, r.recent, cs, dp), NEW ck, ClicksHold(r, r.clicked, ck, dp),
         NEW V, V = [q \in Query |-> VolumeIn(r, cs, dp, q)], NEW Z, Z = [q \in Query |-> ZeroIn(r, cs, dp, q)],
         NEW list, list = Demand(r, V, Z, RowsIn(r, cs, dp))
  PROVE  DemandHolds(r, list, cs, ck, dp)
<1> DEFINE T == {x \in RowsIn(r, cs, dp) : V[x] >= 1 /\ Z[x] >= 1}
           item == [q \in T |-> [query |-> q, volume |-> V[q], gap |-> Z[q], recent |-> r.recent[q][1],
                                 previous |-> r.recent[q][2], clicks |-> IF q = 1 THEN r.clicked ELSE 0]]
           short == {item[q] : q \in T}
           R == {p \in short \X short :
                     p[1].gap > p[2].gap \/ (p[1].gap = p[2].gap /\ p[1].query < p[2].query)}
           a == [x \in short |-> x.gap]
           b == [x \in short |-> x.query]
           s == SortedBy(short, R)
<1>1. list = s
 <2>1. short = {[query |-> q, volume |-> V[q], gap |-> Z[q], recent |-> r.recent[q][1],
                 previous |-> r.recent[q][2], clicks |-> IF q = 1 THEN r.clicked ELSE 0] : q \in T}
   OBVIOUS
 <2> QED
   BY <2>1 DEF Demand
<1>2. /\ \A q \in Query : /\ V[q] = VolumeIn(r, cs, dp, q) /\ Z[q] = ZeroIn(r, cs, dp, q)
                          /\ VolumeIn(r, r.before, dp, q) <= V[q] /\ ZeroIn(r, r.before, dp, q) <= Z[q]
                          /\ V[q] \in Nat /\ Z[q] \in Nat /\ ZeroIn(r, r.before, dp, q) \in Nat
      /\ RowsIn(r, cs, dp) \in SUBSET Query
  BY FiguresIn
<1>3. \A q \in Query : Z[q] <= V[q] /\ (V[q] > 0 => q \in RowsIn(r, cs, dp))
 <2>1. Window(r.day, dp.days) \in SUBSET Day /\ r.scope \in Tenant
   BY Windows DEF RunType
 <2> QED
   BY <1>2, <2>1, ZeroPart, RowsAre DEF VolumeIn, ZeroIn, RowsIn
<1>4. T \in SUBSET Query /\ \A q \in Query : q \in T <=> Z[q] >= 1
  BY <1>2, <1>3
<1> HIDE DEF T
<1>5. \A q \in T : /\ item[q].query = q /\ item[q].volume = V[q] /\ item[q].gap = Z[q]
                   /\ item[q].recent = r.recent[q][1] /\ item[q].previous = r.recent[q][2]
                   /\ item[q].clicks = IF q = 1 THEN r.clicked ELSE 0
  OBVIOUS
<1>17. IsFiniteSet(T)
  BY <1>4, QueryFinite
<1>8. IsFiniteSet(short)
 <2>1. item = [q \in T |-> item[q]]
   OBVIOUS
 <2> HIDE DEF item
 <2>3. short = {item[q] : q \in T} /\ \A q \in T : item[q] \in short
   OBVIOUS
 <2> HIDE DEF short
 <2>2. item \in Surjection(T, short)
   BY <2>1, <2>3 DEF Surjection
 <2> QED
   BY <1>17, <2>2, FS_Surjection
<1> HIDE DEF item
<1>6. \A x \in short : x.query \in T /\ x = item[x.query]
  BY <1>5
<1>7. \A q \in T : item[q] \in short
  OBVIOUS
<1>9. \A x, y \in short : <<x, y>> \in R <=> (a[x] > a[y] \/ (a[x] = a[y] /\ b[x] < b[y]))
  OBVIOUS
<1> HIDE DEF short, R
<1>10. \A x \in short : a[x] = x.gap /\ b[x] = x.query /\ x.gap \in Nat /\ x.query \in Nat
 <2>1. \A q \in Query : q \in Nat
   BY DEF Query
 <2> QED
   BY <1>2, <1>4, <1>5, <1>6, <2>1
<1>11. a \in [short -> Nat] /\ b \in [short -> Nat] /\ \A x, y \in short : b[x] = b[y] => x = y
  BY <1>6, <1>10
<1> HIDE DEF a, b
<1>12. /\ s \in Seq(short) /\ Len(s) = Cardinality(short)
       /\ \A i, j \in 1..Len(s) : s[i] = s[j] => i = j
       /\ \A x \in short : \E i \in 1..Len(s) : s[i] = x
       /\ \A i, j \in 1..Len(s) : i < j => a[s[i]] >= a[s[j]]
  BY <1>8, <1>9, <1>11, Ranking
<1> HIDE DEF s
<1>13. Len(s) \in Nat /\ DOMAIN s = 1..Len(s) /\ \A i \in 1..Len(s) : s[i] \in short
  BY <1>12, LenProperties, ElementOfSeq
<1>14. ASSUME NEW i \in DOMAIN s
       PROVE  LET x == s[i] IN
              /\ x.query \in Query /\ x.volume \in Nat /\ x.gap \in Nat
              /\ VolumeIn(r, r.before, dp, x.query) <= x.volume /\ x.volume <= VolumeIn(r, cs, dp, x.query)
              /\ ZeroIn(r, r.before, dp, x.query) <= x.gap /\ x.gap <= ZeroIn(r, cs, dp, x.query)
              /\ x.recent \in Nat /\ RecentIn(r, r.before, x.query) <= x.recent /\ x.recent <= RecentIn(r, cs, x.query)
              /\ x.previous \in Nat /\ PreviousIn(r, r.before, x.query) <= x.previous
              /\ x.previous <= PreviousIn(r, cs, x.query)
              /\ x.clicks \in Nat /\ x.clicks <= IF x.query = 1 THEN MadeIn(r, ck, dp) ELSE 0
              /\ dp.days >= 2 * Week => x.recent + x.previous <= x.volume
 <2>1. PICK q \in T : s[i] = item[q]
   BY <1>6, <1>13
 <2> DEFINE x == s[i]
 <2>2. /\ x.query = q /\ x.volume = V[q] /\ x.gap = Z[q] /\ x.recent = r.recent[q][1] /\ x.previous = r.recent[q][2]
       /\ x.clicks = IF q = 1 THEN r.clicked ELSE 0
   BY <1>5, <2>1
 <2> HIDE DEF x
 <2>3. q \in Query
   BY <1>4
 <2>4. /\ dp.days >= 2 * Week => x.recent + x.previous <= x.volume
       /\ x.recent \in Nat /\ RecentIn(r, r.before, x.query) <= x.recent /\ x.recent <= RecentIn(r, cs, x.query)
       /\ x.previous \in Nat /\ PreviousIn(r, r.before, x.query) <= x.previous
       /\ x.previous <= PreviousIn(r, cs, x.query)
   BY <1>2, <2>2, <2>3 DEF WeeksHold
 <2>6. x.clicks \in Nat /\ x.clicks <= IF x.query = 1 THEN MadeIn(r, ck, dp) ELSE 0
   BY <2>2 DEF ClicksHold
 <2>5. /\ x.query \in Query /\ x.volume \in Nat /\ x.gap \in Nat
       /\ VolumeIn(r, r.before, dp, x.query) <= x.volume /\ x.volume <= VolumeIn(r, cs, dp, x.query)
       /\ ZeroIn(r, r.before, dp, x.query) <= x.gap /\ x.gap <= ZeroIn(r, cs, dp, x.query)
   BY <1>2, <2>2, <2>3
 <2> QED
   BY <2>4, <2>5, <2>6 DEF x
<1>15. ASSUME NEW q \in Query, ZeroIn(r, r.before, dp, q) >= 1 PROVE \E i \in DOMAIN s : s[i].query = q
 <2>1. q \in T
   BY <1>2, <1>4, <1>15
 <2>2. item[q] \in short /\ item[q].query = q
   BY <1>5, <1>7, <2>1
 <2>3. PICK i \in 1..Len(s) : s[i] = item[q]
   BY <1>12, <2>2
 <2> QED
   BY <1>13, <2>2, <2>3
<1>16. ASSUME NEW i \in DOMAIN s, NEW j \in DOMAIN s, i < j PROVE s[i].query # s[j].query /\ s[i].gap >= s[j].gap
 <2>1. s[i] # s[j]
   BY <1>12, <1>13, <1>16
 <2> QED
   BY <1>6, <1>10, <1>12, <1>13, <1>16, <2>1
<1> QED
  BY <1>1, <1>14, <1>15, <1>16 DEF DemandHolds

LEMMA StatsRead ==
  ASSUME NEW r, RunType(r), NEW dp, NEW cs \in CountsType, r.before \in CountsType, Below(r.before, cs),
         NEW v, v = [q \in RowsIn(r, cs, dp) |-> [volume |-> VolumeIn(r, cs, dp, q), zero |-> ZeroIn(r, cs, dp, q)]]
  PROVE  StatsHold(r, v, cs, dp)
<1>1. /\ \A q \in Query : /\ VolumeIn(r, r.before, dp, q) <= VolumeIn(r, cs, dp, q)
                          /\ ZeroIn(r, r.before, dp, q) <= ZeroIn(r, cs, dp, q)
                          /\ VolumeIn(r, cs, dp, q) \in Nat /\ ZeroIn(r, cs, dp, q) \in Nat
      /\ RowsIn(r, r.before, dp) \subseteq RowsIn(r, cs, dp) /\ RowsIn(r, cs, dp) \in SUBSET Query
  BY FiguresIn
<1>3. DOMAIN v = RowsIn(r, cs, dp) /\ \A q \in DOMAIN v : v[q].volume = VolumeIn(r, cs, dp, q) /\ v[q].zero = ZeroIn(r, cs, dp, q)
  OBVIOUS
<1> QED
  BY <1>1, <1>3 DEF StatsHold

(* The pairs that cluster_queries reads, and the steps they stand for.         *)
AlikePairs(alike, rows) ==
  /\ rows \in SUBSET Query
  /\ alike = {p \in rows \X rows : p[1] < p[2] /\ Alike(p[1], p[2]) >= dep.threshold}
StepsAmong(rows) == {p \in rows \X rows : p[1] # p[2] /\ dep.alike[{p[1], p[2]}] >= dep.threshold}

LEMMA AlikeSteps ==
  ASSUME NEW alike, NEW rows, AlikePairs(alike, rows), NEW R, R = StepsAmong(rows)
  PROVE  /\ R \in SUBSET (Query \X Query) /\ Turns(R) /\ R \subseteq StepsIn(dep, rows) /\ alike \subseteq R
         /\ \A a, b \in rows : <<a, b>> \in R => <<a, b>> \in alike \/ <<b, a>> \in alike
         /\ IsFiniteSet(alike)
<1>1. \A a, b \in rows : <<a, b>> \in R <=> (a # b /\ dep.alike[{a, b}] >= dep.threshold)
  BY DEF StepsAmong
<1>2. \A a, b \in rows : <<a, b>> \in alike <=> (a < b /\ dep.alike[{a, b}] >= dep.threshold)
  BY DEF AlikePairs, Alike
<1>3. \A a, b \in rows : (a # b <=> (a < b \/ b < a)) /\ dep.alike[{a, b}] = dep.alike[{b, a}]
 <2>1. \A a, b \in rows : a \in Nat /\ b \in Nat
   BY DEF AlikePairs, Query
 <2>2. \A a, b : {a, b} = {b, a}
   OBVIOUS
 <2> QED
   BY <2>1, <2>2
<1>4. \A p \in R : p \in rows \X rows /\ p = <<p[1], p[2]>>
  BY DEF StepsAmong
<1>5. \A p \in alike : p \in rows \X rows /\ p = <<p[1], p[2]>>
  BY DEF AlikePairs
<1>6. rows \in SUBSET Query
  BY DEF AlikePairs
<1>7. R \in SUBSET (Query \X Query) /\ R \subseteq StepsIn(dep, rows)
  BY <1>6 DEF StepsAmong, StepsIn
<1>8. Turns(R)
 <2> SUFFICES ASSUME NEW p \in R PROVE <<p[2], p[1]>> \in R
   BY DEF Turns
 <2>1. PICK a \in rows, b \in rows : p = <<a, b>>
   BY <1>4
 <2>2. <<a, b>> \in R => <<b, a>> \in R
   BY <1>1, <1>3
 <2> QED
   BY <2>1, <2>2
<1>9. alike \subseteq R
 <2> SUFFICES ASSUME NEW p \in alike PROVE p \in R
   OBVIOUS
 <2>1. PICK a \in rows, b \in rows : p = <<a, b>>
   BY <1>5
 <2> QED
   BY <1>1, <1>2, <1>3, <2>1
<1>10. \A a, b \in rows : <<a, b>> \in R => <<a, b>> \in alike \/ <<b, a>> \in alike
  BY <1>1, <1>2, <1>3
<1>11. IsFiniteSet(alike)
 <2>1. IsFiniteSet(rows \X rows)
   BY <1>6, QueryFinite, FS_Product
 <2> QED
   BY <2>1, <1>5, FS_Subset
<1> QED
  BY <1>7, <1>8, <1>9, <1>10, <1>11

LEMMA ClustersRead ==
  ASSUME IntelligenceType, NEW r, RunType(r), StatsHold(r, r.stats, counts, dep),
         r.before \in CountsType, Below(r.before, counts),
         NEW R, R = StepsAmong(RowsIn(r, counts, dep)), NEW parent, NEW root, Rooted(parent, root),
         \A a, b \in Query : root[a] = root[b] => b \in Closure({a}, R),
         \A a, b \in DOMAIN r.stats : <<a, b>> \in R => root[a] = root[b]
  PROVE  ClustersHold(r, Clusters(r.stats, parent), r.stats, counts, dep)
<1> DEFINE D == DOMAIN r.stats
           rows == RowsIn(r, counts, dep)
           volume == [q \in D |-> r.stats[q].volume]
           zero == [q \in D |-> r.stats[q].zero]
           list == Clusters(r.stats, parent)
<1>1. /\ \A S \in SUBSET Query : SumIn(r, counts, dep, S) = SumFunction([q \in S |-> VolumeIn(r, counts, dep, q)])
      /\ \A S \in SUBSET Query : SumIn(r, r.before, dep, S) = SumFunction([q \in S |-> VolumeIn(r, r.before, dep, q)])
      /\ \A S \in SUBSET Query : ZerosIn(r, counts, dep, S) = SumFunction([q \in S |-> ZeroIn(r, counts, dep, q)])
      /\ \A S \in SUBSET Query : ZerosIn(r, r.before, dep, S) = SumFunction([q \in S |-> ZeroIn(r, r.before, dep, q)])
      /\ \A q \in Query : VolumeIn(r, r.before, dep, q) \in Nat /\ VolumeIn(r, counts, dep, q) \in Nat
      /\ \A q \in Query : ZeroIn(r, r.before, dep, q) \in Nat /\ ZeroIn(r, counts, dep, q) \in Nat
      /\ rows \in SUBSET Query
  BY FiguresIn DEF SumIn, ZerosIn, IntelligenceType
<1>2. /\ D \subseteq rows /\ RowsIn(r, r.before, dep) \subseteq D
      /\ \A q \in D : /\ r.stats[q].volume \in Nat /\ r.stats[q].zero \in Nat
                      /\ VolumeIn(r, r.before, dep, q) <= r.stats[q].volume
                      /\ r.stats[q].volume <= VolumeIn(r, counts, dep, q)
                      /\ ZeroIn(r, r.before, dep, q) <= r.stats[q].zero
                      /\ r.stats[q].zero <= ZeroIn(r, counts, dep, q)
  BY DEF StatsHold
<1>3. Figured(r.stats, D, volume, zero)
  BY <1>1, <1>2 DEF Figured
<1>4. \A q \in D : /\ volume[q] \in Nat /\ VolumeIn(r, r.before, dep, q) <= volume[q]
                   /\ volume[q] <= VolumeIn(r, counts, dep, q) /\ volume[q] = r.stats[q].volume
                   /\ zero[q] \in Nat /\ ZeroIn(r, r.before, dep, q) <= zero[q]
                   /\ zero[q] <= ZeroIn(r, counts, dep, q)
  BY <1>2
<1> HIDE DEF D, rows, volume, zero, list
<1>5. /\ DOMAIN list = 1..Len(list)
      /\ \A i \in DOMAIN list : \E x \in D : Cluster(list[i], Group_of(root, D, x), volume, zero)
      /\ \A x \in D : \E i \in DOMAIN list : x \in list[i].members
      /\ \A i, j \in DOMAIN list :
           i < j => list[i].members \cap list[j].members = {} /\ list[i].volume >= list[j].volume
  BY <1>3, ClustersAre DEF list
<1>6. Known(list) = D
 <2>1. ASSUME NEW i \in DOMAIN list PROVE list[i].members \subseteq D
  <3>1. PICK x \in D : Cluster(list[i], Group_of(root, D, x), volume, zero)
    BY <1>5
  <3> QED
    BY <3>1 DEF Cluster, Group_of
 <2>2. \A x : x \in Known(list) <=> \E i \in DOMAIN list : x \in list[i].members
   BY DEF Known
 <2>3. \A x \in D : \E i \in DOMAIN list : x \in list[i].members
   BY <1>5
 <2> QED
   BY <2>1, <2>2, <2>3
<1>7. ASSUME NEW i \in DOMAIN list
      PROVE  LET g == list[i] IN
             /\ g.members \in SUBSET Query /\ g.volume \in Nat /\ g.zero \in Nat
             /\ \A q \in g.members : ReachIn(dep, Known(list), q) \subseteq g.members
             /\ \A q \in g.members : g.members \subseteq ReachIn(dep, rows, q)
             /\ g.representative \in g.members
             /\ \A q \in g.members :
                  /\ r.stats[q].volume \in Nat /\ r.stats[q].volume <= r.stats[g.representative].volume
                  /\ VolumeIn(r, r.before, dep, q) <= r.stats[q].volume
                  /\ r.stats[q].volume <= VolumeIn(r, counts, dep, q)
             /\ SumIn(r, r.before, dep, g.members) <= g.volume /\ g.volume <= SumIn(r, counts, dep, g.members)
             /\ ZerosIn(r, r.before, dep, g.members) <= g.zero /\ g.zero <= ZerosIn(r, counts, dep, g.members)
 <2> DEFINE g == list[i]
            m == g.members
            F == [q \in m |-> VolumeIn(r, r.before, dep, q)]
            G == [q \in m |-> volume[q]]
            H == [q \in m |-> VolumeIn(r, counts, dep, q)]
            X == [q \in m |-> ZeroIn(r, r.before, dep, q)]
            Y == [q \in m |-> zero[q]]
            Z == [q \in m |-> ZeroIn(r, counts, dep, q)]
 <2>1. PICK x \in D : Cluster(g, Group_of(root, D, x), volume, zero)
   BY <1>5
 <2>2. /\ m = Group_of(root, D, x) /\ g.representative \in m /\ g.volume = SumFunction(G) /\ g.volume \in Nat
       /\ g.zero = SumFunction(Y) /\ g.zero \in Nat /\ \A q \in m : volume[q] <= volume[g.representative]
   BY <2>1 DEF Cluster
 <2>3. m \in SUBSET Query /\ m \subseteq D /\ \A q \in D : q \in m <=> root[q] = root[x]
   BY <1>1, <1>2, <2>2 DEF Group_of
 <2> HIDE DEF g, m
 <2>4. ASSUME NEW q \in m PROVE ReachIn(dep, D, q) \subseteq m
  <3>1. ASSUME NEW p \in StepsIn(dep, D), p[1] \in m PROVE p[2] \in m
   <4>1. p[1] \in D /\ p[2] \in D /\ p[1] # p[2] /\ dep.alike[{p[1], p[2]}] >= dep.threshold
     BY <2>3, <3>1 DEF StepsIn
   <4>2. <<p[1], p[2]>> \in R
     BY <1>2, <4>1 DEF StepsAmong, rows
   <4> QED
     BY <2>3, <3>1, <4>1, <4>2 DEF D
  <3>2. Closed(m, StepsIn(dep, D)) /\ {q} \subseteq m /\ {q} \in SUBSET Query
    BY <2>3, <3>1 DEF Closed
  <3>3. StepsIn(dep, D) \in SUBSET (Query \X Query)
    BY <1>1, <1>2 DEF StepsIn
  <3> QED
    BY <2>3, <3>2, <3>3, ClosureIs DEF ReachIn
 <2>5. ASSUME NEW q \in m PROVE m \subseteq ReachIn(dep, rows, q)
  <3>1. \A b \in m : b \in Closure({q}, R)
    BY <2>3
  <3>2. R \subseteq StepsIn(dep, rows)
    BY <1>1 DEF StepsAmong, StepsIn, rows
  <3>3. Closure({q}, R) \subseteq ReachIn(dep, rows, q)
    BY <1>1, <2>3, <3>2, StepsGrow
  <3> QED
    BY <3>1, <3>3
 <2>6. SumIn(r, r.before, dep, m) <= g.volume /\ g.volume <= SumIn(r, counts, dep, m)
  <3>1. F \in [m -> Nat] /\ G \in [m -> Nat] /\ H \in [m -> Nat] /\ \A q \in m : F[q] <= G[q] /\ G[q] <= H[q]
    BY <1>1, <1>4, <2>3
  <3>2. SumIn(r, r.before, dep, m) = SumFunction(F) /\ SumIn(r, counts, dep, m) = SumFunction(H) /\ IsFiniteSet(m)
    BY <1>1, <2>3, QueryFinite
  <3> HIDE DEF F, G, H
  <3>3. SumFunction(F) <= SumFunction(G) /\ SumFunction(G) <= SumFunction(H)
    BY <3>1, <3>2, SumGrows
  <3> QED
    BY <2>2, <3>2, <3>3
 <2>7. ZerosIn(r, r.before, dep, m) <= g.zero /\ g.zero <= ZerosIn(r, counts, dep, m)
  <3>1. X \in [m -> Nat] /\ Y \in [m -> Nat] /\ Z \in [m -> Nat] /\ \A q \in m : X[q] <= Y[q] /\ Y[q] <= Z[q]
    BY <1>1, <1>4, <2>3
  <3>2. ZerosIn(r, r.before, dep, m) = SumFunction(X) /\ ZerosIn(r, counts, dep, m) = SumFunction(Z) /\ IsFiniteSet(m)
    BY <1>1, <2>3, QueryFinite
  <3> HIDE DEF X, Y, Z
  <3>3. SumFunction(X) <= SumFunction(Y) /\ SumFunction(Y) <= SumFunction(Z)
    BY <3>1, <3>2, SumGrows
  <3> QED
    BY <2>2, <3>2, <3>3
 <2>8. \A q \in m : /\ r.stats[q].volume \in Nat /\ r.stats[q].volume <= r.stats[g.representative].volume
                    /\ VolumeIn(r, r.before, dep, q) <= r.stats[q].volume
                    /\ r.stats[q].volume <= VolumeIn(r, counts, dep, q)
   BY <1>4, <2>2, <2>3
 <2> QED
   BY <1>6, <2>2, <2>3, <2>4, <2>5, <2>6, <2>7, <2>8 DEF g, m
<1> QED
  BY <1>2, <1>5, <1>6, <1>7 DEF ClustersHold, list, rows

(* Reports drawn from any list of the pairs, and from fewer than two queries.  *)
LEMMA PairsRead ==
  ASSUME IntelligenceType, NEW r, RunType(r), StatsHold(r, r.stats, counts, dep),
         r.before \in CountsType, Below(r.before, counts),
         NEW alike, AlikePairs(alike, RowsIn(r, counts, dep))
  PROVE  /\ Cardinality(DOMAIN r.stats) < 2 =>
              ClustersHold(r, Clusters(r.stats, [q \in Query |-> q]), r.stats, counts, dep)
         /\ \A pairs \in SetToSeqs(alike) : ClustersHold(r, Clusters(r.stats, UnionAll(pairs)), r.stats, counts, dep)
<1> DEFINE D == DOMAIN r.stats
           rows == RowsIn(r, counts, dep)
           R == StepsAmong(rows)
           id == [q \in Query |-> q]
<1>1. D \subseteq rows /\ rows \in SUBSET Query
  BY DEF StatsHold, AlikePairs
<1>2. /\ R \in SUBSET (Query \X Query) /\ Turns(R) /\ alike \subseteq R
      /\ \A a, b \in rows : <<a, b>> \in R => <<a, b>> \in alike \/ <<b, a>> \in alike
      /\ IsFiniteSet(alike)
  BY AlikeSteps
<1>3. ASSUME Cardinality(D) < 2 PROVE ClustersHold(r, Clusters(r.stats, id), r.stats, counts, dep)
 <2> HIDE DEF id
 <2>1. Rooted(id, id) /\ \A a, b \in Query : id[a] = id[b] => b \in Closure({a}, R)
   BY <1>2, AloneIs DEF id, Together
 <2>2. ASSUME NEW a \in D, NEW b \in D, <<a, b>> \in R PROVE id[a] = id[b]
  <3>1. a # b
    BY <1>1, <2>2 DEF StepsAmong
  <3>2. Cardinality({a, b}) = 2
   <4>1. IsFiniteSet({a}) /\ Cardinality({a}) = 1
     BY FS_Singleton
   <4>2. b \notin {a} /\ {a, b} = {a} \cup {b}
     BY <3>1
   <4> QED
     BY <4>1, <4>2, FS_AddElement
  <3>3. IsFiniteSet(D) /\ {a, b} \subseteq D
    BY <1>1, QueryFinite
  <3>4. Cardinality({a, b}) <= Cardinality(D) /\ Cardinality(D) \in Nat
    BY <3>3, FS_Subset, FS_CardinalityType
  <3> QED
    BY <1>3, <3>2, <3>4
 <2> QED
   BY <2>1, <2>2, ClustersRead
<1>4. ASSUME NEW pairs \in SetToSeqs(alike)
      PROVE  ClustersHold(r, Clusters(r.stats, UnionAll(pairs)), r.stats, counts, dep)
 <2> HIDE DEF R, rows, D
 <2>1. /\ pairs \in Seq(alike) /\ Len(pairs) \in Nat
       /\ \A p \in alike : \E i \in 1..Len(pairs) : pairs[i] = p
   BY <1>2, ListOfSet
 <2>2. pairs \in Seq(Query \X Query) /\ \A i \in 1..Len(pairs) : pairs[i] \in R
  <3>1. alike \subseteq Query \X Query
    BY <1>2
  <3> QED
    BY <1>2, <2>1, <3>1, SeqMonotonic, ElementOfSeq
 <2>3. PICK root : Rooted(UnionAll(pairs), root) /\ Together(root, pairs, Len(pairs), R)
   BY <1>2, <2>2, UnionsAre
 <2>4. ASSUME NEW a \in D, NEW b \in D, <<a, b>> \in R PROVE root[a] = root[b]
  <3>1. \A i \in 1..Len(pairs) : root[pairs[i][1]] = root[pairs[i][2]]
    BY <2>3 DEF Together
  <3>2. PICK p \in alike : p = <<a, b>> \/ p = <<b, a>>
    BY <1>1, <1>2, <2>4
  <3>3. PICK i \in 1..Len(pairs) : pairs[i] = p
    BY <2>1
  <3> QED
    BY <3>1, <3>2, <3>3
 <2>5. \A a, b \in Query : root[a] = root[b] => b \in Closure({a}, R)
   BY <2>3 DEF Together
 <2> QED
   BY <2>3, <2>4, <2>5, ClustersRead DEF R, rows, D
<1> QED
  BY <1>3, <1>4

(* A report that goes on keeps what its figures are measured by.               *)
Same(s, r) == s.op = r.op /\ s.before = r.before /\ s.day = r.day /\ s.scope = r.scope /\ s.whole = r.whole

LEMMA SameHolds ==
  ASSUME NEW r, NEW s, Same(s, r), NEW cs, NEW ck, NEW dp
  PROVE  /\ \A v : WeeksHold(r, v, cs, dp) => WeeksHold(s, v, cs, dp)
         /\ \A v : StatsHold(r, v, cs, dp) => StatsHold(s, v, cs, dp)
         /\ \A v : SearchesHold(r, v, cs, dp) => SearchesHold(s, v, cs, dp)
         /\ \A v : ClicksHold(r, v, ck, dp) => ClicksHold(s, v, ck, dp)
         /\ \A v : DemandHolds(r, v, cs, ck, dp) => DemandHolds(s, v, cs, ck, dp)
         /\ \A v, u : ClustersHold(r, v, u, cs, dp) => ClustersHold(s, v, u, cs, dp)
         /\ \A v : RatioHolds(r, v, cs, ck, dp) => RatioHolds(s, v, cs, ck, dp)
<1>1. s.before = r.before /\ s.day = r.day /\ s.scope = r.scope
  BY DEF Same
<1>2. /\ \A x, q : VolumeIn(s, x, dp, q) = VolumeIn(r, x, dp, q) /\ ZeroIn(s, x, dp, q) = ZeroIn(r, x, dp, q)
      /\ \A x : RowsIn(s, x, dp) = RowsIn(r, x, dp)
      /\ \A x, q : RecentIn(s, x, q) = RecentIn(r, x, q) /\ PreviousIn(s, x, q) = PreviousIn(r, x, q)
      /\ MadeIn(s, ck, dp) = MadeIn(r, ck, dp)
  BY <1>1 DEF VolumeIn, ZeroIn, RowsIn, MadeIn, RecentIn, PreviousIn
<1>3. \A x, S : SumIn(s, x, dp, S) = SumIn(r, x, dp, S) /\ ZerosIn(s, x, dp, S) = ZerosIn(r, x, dp, S)
  BY <1>2 DEF SumIn, ZerosIn
<1>4. \A v : WeeksHold(r, v, cs, dp) => WeeksHold(s, v, cs, dp)
  BY <1>1, <1>2 DEF WeeksHold
<1>5. \A v : StatsHold(r, v, cs, dp) => StatsHold(s, v, cs, dp)
  BY <1>1, <1>2 DEF StatsHold
<1>6. \A v : SearchesHold(r, v, cs, dp) => SearchesHold(s, v, cs, dp)
  BY <1>1, <1>2 DEF SearchesHold
<1>7. \A v : ClicksHold(r, v, ck, dp) => ClicksHold(s, v, ck, dp)
  BY <1>2 DEF ClicksHold
<1>8. \A v : DemandHolds(r, v, cs, ck, dp) => DemandHolds(s, v, cs, ck, dp)
  BY <1>1, <1>2 DEF DemandHolds
<1>9. \A v, u : ClustersHold(r, v, u, cs, dp) => ClustersHold(s, v, u, cs, dp)
  BY <1>1, <1>2, <1>3 DEF ClustersHold
<1>10. \A v : RatioHolds(r, v, cs, ck, dp) => RatioHolds(s, v, cs, ck, dp)
  BY <1>6, <1>7 DEF RatioHolds
<1> QED
  BY <1>4, <1>5, <1>6, <1>7, <1>8, <1>9, <1>10

Onward(s, r) ==
  \A v, a : /\ s = [r EXCEPT !.at = a, !.recent = v] => Same(s, r) /\ s.at = a /\ s.recent = v
            /\ s = [r EXCEPT !.at = a, !.clicked = v] => Same(s, r) /\ s.at = a /\ s.clicked = v
            /\ s = [r EXCEPT !.at = a, !.stats = v] => Same(s, r) /\ s.at = a /\ s.stats = v
            /\ s = [r EXCEPT !.at = a, !.result = v] => Same(s, r) /\ s.at = a /\ s.result = v
            /\ s = [r EXCEPT !.at = a, !.result = v] => s.stats = r.stats

LEMMA GoesOn ==
  ASSUME NEW r, r = [x \in RunFields |-> r[x]], NEW s
  PROVE  Onward(s, r)
BY DEF Onward, Same, RunFields

LEMMA CountsSelf ==
  ASSUME IntelligenceType, CountsHold
  PROVE  counts \in CountsType /\ Below(counts, counts) /\ Fails(counts)
<1>1. counts \in CountsType
  BY DEF IntelligenceType
<1>2. \A d \in Day, t \in Tenant, q \in Query : counts[d][t][q] \in [total : Nat, zero : Nat]
  BY <1>1 DEF CountsType
<1>3. Below(counts, counts)
  BY <1>2 DEF Below
<1> QED
  BY <1>1, <1>3 DEF Fails, CountsHold

WithClicked(r, a, v) == [r EXCEPT !.at = a, !.clicked = v]

LEMMA ClickedOn ==
  ASSUME NEW r, r = [x \in RunFields |-> r[x]], NEW a, NEW v, NEW s, s = WithClicked(r, a, v)
  PROVE  Same(s, r) /\ s.at = a /\ s.clicked = v /\ s.recent = r.recent
BY DEF Same, RunFields, WithClicked

LEMMA ClickedIs ==
  ASSUME IntelligenceType, ClicksInv, NEW r
  PROVE  ClicksHold(r, Clicked(DaysOf(r), "plain"), clicks, dep) /\ ClicksHold(r, 0, clicks, dep)
<1> DEFINE S == Window(r.day, dep.days)
           F == [d \in S |-> clicks[d]["plain"].agg]
           G == [d \in S |-> clicks[d]["plain"].made]
<1>1. S \in SUBSET Day /\ IsFiniteSet(S)
  BY Windows, CellsFinite DEF Tenant
<1>2. Clicked(DaysOf(r), "plain") = SumFunction(F) /\ MadeIn(r, clicks, dep) = SumFunction(G)
  BY DEF Clicked, MadeIn, DaysOf
<1> HIDE DEF S
<1>3. "plain" \in Form
  BY DEF Form
<1>4. \A d \in S : clicks[d]["plain"] \in ClickCounts /\ clicks[d]["plain"].agg <= clicks[d]["plain"].made
  BY <1>1, <1>3 DEF IntelligenceType, ClickCounts, ClicksInv
<1>5. F \in [S -> Nat] /\ G \in [S -> Nat] /\ \A d \in S : F[d] <= G[d]
  BY <1>4 DEF ClickCounts
<1> HIDE DEF F, G
<1>6. SumFunction(F) <= SumFunction(G) /\ SumFunction(F) \in Nat /\ SumFunction(G) \in Nat
  BY <1>1, <1>5, SumGrows
<1> QED
  BY <1>2, <1>6 DEF ClicksHold

(* Every statement of a report reads figures that hold.                        *)
LEMMA ReportsRead ==
  ASSUME IntelligenceType, ClicksInv, CountsHold, NEW c \in Command, ReportActions(c),
         run[c].op \in Report /\ run[c].whole => ReportHolds(run[c], counts, clicks, dep),
         NEW s, s = run'[c], s.whole
  PROVE  ReportHolds(s, counts, clicks, dep)
<1> DEFINE r == run[c]
           ds == DaysOf(r)
           V == [q \in Query |-> Volume(counts, ds, r.scope, q)]
           Z == [q \in Query |-> Zero(counts, ds, r.scope, q)]
           rows == Rows(counts, ds, r.scope)
<1>1. RunType(r) /\ r = [x \in RunFields |-> r[x]] /\ \A t : Does(c, t) => s = t
  BY DoesOne DEF IntelligenceType, RunType
<1>2. counts \in CountsType /\ Below(counts, counts) /\ Fails(counts)
  BY CountsSelf
<1>3. /\ \A q \in Query : Volume(counts, ds, r.scope, q) = VolumeIn(r, counts, dep, q)
      /\ V = [q \in Query |-> VolumeIn(r, counts, dep, q)] /\ Z = [q \in Query |-> ZeroIn(r, counts, dep, q)]
      /\ rows = RowsIn(r, counts, dep)
  BY DEF VolumeIn, ZeroIn, RowsIn, DaysOf
<1>4. CASE BeginReport(c)
 <2>1. PICK scope \in Tenant, first \in Report :
         Does(c, [NoRun EXCEPT !.op = first, !.scope = scope, !.day = today, !.at = first, !.before = counts])
   BY <1>4 DEF BeginReport
 <2>2. s = [NoRun EXCEPT !.op = first, !.scope = scope, !.day = today, !.at = first, !.before = counts]
   BY <1>1, <2>1
 <2>3. s.before = counts /\ s.at = first
   BY <2>2 DEF NoRun
 <2> QED
   BY <1>2, <2>3 DEF ReportHolds, Report
<1> HIDE DEF r, ds, V, Z, rows
<1>5. ASSUME r.op \in Report, Same(s, r)
      PROVE  /\ ReportHolds(r, counts, clicks, dep)
             /\ s.before = r.before /\ s.op = r.op /\ r.before \in CountsType /\ Below(r.before, counts)
 <2>1. s.before = r.before /\ s.op = r.op /\ r.whole
   BY <1>5 DEF Same
 <2>2. ReportHolds(r, counts, clicks, dep)
   BY <1>5, <2>1 DEF r
 <2> QED
   BY <2>1, <2>2 DEF ReportHolds
<1>6. Onward(s, r)
  BY <1>1, GoesOn
<1>7. ASSUME r.op \in Report, Same(s, r),
             /\ s.at \in {"clicked", "rows"} => WeeksHold(r, s.recent, counts, dep)
             /\ s.at = "pairs" => StatsHold(r, s.stats, counts, dep)
             /\ s.at = "ratio" => SearchesHold(r, s.stats[1], counts, dep)
             /\ s.at \in {"rows", "topratio"} => ClicksHold(r, s.clicked, clicks, dep)
             /\ s.at = "done" => /\ r.op = "weeks" => DemandHolds(r, s.result, counts, clicks, dep)
                                 /\ r.op = "stats" => ClustersHold(r, s.result, s.stats, counts, dep)
                                 /\ r.op \in {"searches", "top"} => RatioHolds(r, s.result, counts, clicks, dep)
      PROVE  ReportHolds(s, counts, clicks, dep)
  BY <1>5, <1>7, SameHolds DEF ReportHolds
<1>8. /\ \A n : n = Volume(counts, ds, r.scope, 1) => SearchesHold(r, n, counts, dep) \/ ~Below(r.before, counts) \/ r.before \notin CountsType
      /\ \A n : n = Clicked(ds, "plain") => ClicksHold(r, n, clicks, dep)
      /\ ClicksHold(r, 0, clicks, dep)
 <2>1. ClicksHold(r, Clicked(DaysOf(r), "plain"), clicks, dep) /\ ClicksHold(r, 0, clicks, dep)
   BY ClickedIs
 <2>2. ASSUME r.before \in CountsType, Below(r.before, counts)
       PROVE  SearchesHold(r, VolumeIn(r, counts, dep, 1), counts, dep)
  <3>1. \A q \in Query : /\ VolumeIn(r, r.before, dep, q) <= VolumeIn(r, counts, dep, q)
                         /\ VolumeIn(r, counts, dep, q) \in Nat
    BY <1>1, <1>2, <2>2, FiguresIn
  <3>2. 1 \in Query
    BY DEF Query
  <3> QED
    BY <3>1, <3>2 DEF SearchesHold
 <2>3. Volume(counts, ds, r.scope, 1) = VolumeIn(r, counts, dep, 1)
   BY DEF VolumeIn, ds, DaysOf
 <2> QED
   BY <2>1, <2>2, <2>3 DEF ds
<1>9. CASE ReadWeeks(c)
 <2> DEFINE v == [q \in Query |-> <<Volume(counts, RecentDays(r.day), r.scope, q),
                                    Volume(counts, PreviousDays(r.day), r.scope, q)>>]
 <2>1. s = [r EXCEPT !.at = "clicked", !.recent = v] /\ r.op \in Report
   BY <1>1, <1>9, Steps DEF ReadWeeks, Report, r
 <2>3. Same(s, r) /\ s.at = "clicked" /\ s.recent = v
  <3> HIDE DEF v
  <3> QED
    BY <1>6, <2>1 DEF Onward
 <2>2. WeeksHold(r, v, counts, dep)
   BY <1>1, <1>5, <2>1, <2>3, WeeksRead
 <2> HIDE DEF v
 <2> QED
   BY <1>7, <2>1, <2>2, <2>3
<1>10. CASE ReadClicked(c)
 <2> DEFINE v == Clicked(ds, "plain")
 <2>1. s = [r EXCEPT !.at = "rows", !.clicked = v] /\ r.op \in Report /\ r.at = "clicked"
   BY <1>1, <1>10, Steps DEF ReadClicked, Report, r, ds
 <2> HIDE DEF v
 <2>2. Same(s, r) /\ s.at = "rows" /\ s.recent = r.recent /\ s.clicked = v
  <3>1. s = WithClicked(r, "rows", v)
    BY <2>1 DEF WithClicked
  <3> QED
    BY <1>1, <3>1, ClickedOn
 <2>3. WeeksHold(r, s.recent, counts, dep) /\ ClicksHold(r, s.clicked, clicks, dep)
   BY <1>5, <1>8, <2>1, <2>2 DEF ReportHolds, v
 <2> QED
   BY <1>7, <2>1, <2>2, <2>3
<1>11. CASE ReadRows(c)
 <2> DEFINE v == Demand(r, V, Z, rows)
 <2>1. s = [r EXCEPT !.at = "done", !.result = v] /\ r.op = "weeks" /\ r.at = "rows"
   BY <1>1, <1>11, Steps DEF ReadRows, Reported, r, ds, V, Z, rows
 <2> DEFINE w == v
 <2> HIDE DEF v
 <2>2. Same(s, r) /\ s.at = "done" /\ s.result = v
   BY <1>6, <2>1 DEF Onward
 <2>3. r.op \in Report
   BY <2>1 DEF Report
 <2>4. /\ WeeksHold(r, r.recent, counts, dep) /\ ClicksHold(r, r.clicked, clicks, dep)
       /\ r.before \in CountsType /\ Below(r.before, counts)
   BY <1>5, <2>1, <2>2, <2>3 DEF ReportHolds
 <2>5. v = Demand(r, V, Z, RowsIn(r, counts, dep))
   BY <1>3 DEF v
 <2>6. DemandHolds(r, v, counts, clicks, dep)
   BY <1>1, <1>2, <1>3, <2>4, <2>5, DemandRead
 <2> QED
   BY <1>7, <2>1, <2>2, <2>3, <2>6
<1>12. CASE ReadStats(c)
 <2> DEFINE v == [q \in rows |-> [volume |-> Volume(counts, ds, r.scope, q), zero |-> Zero(counts, ds, r.scope, q)]]
 <2>1. s = [r EXCEPT !.at = "pairs", !.stats = v] /\ r.op \in Report
   BY <1>1, <1>12, Steps DEF ReadStats, Report, r, ds, rows
 <2>2. v = [q \in RowsIn(r, counts, dep) |-> [volume |-> VolumeIn(r, counts, dep, q), zero |-> ZeroIn(r, counts, dep, q)]]
   BY <1>3 DEF VolumeIn, ZeroIn, ds, DaysOf
 <2> HIDE DEF v
 <2>3. Same(s, r) /\ s.at = "pairs" /\ s.stats = v
   BY <1>6, <2>1 DEF Onward
 <2>4. r.before \in CountsType /\ Below(r.before, counts)
   BY <1>5, <2>1, <2>3
 <2>5. StatsHold(r, v, counts, dep)
   BY <1>1, <1>2, <2>2, <2>4, StatsRead
 <2> QED
   BY <1>7, <2>1, <2>3, <2>5
<1>13. CASE ReadPairs(c)
 <2> DEFINE alike == {p \in rows \X rows : p[1] < p[2] /\ Alike(p[1], p[2]) >= dep.threshold}
            u == Clusters(r.stats, [q \in Query |-> q])
            w(pairs) == Clusters(r.stats, UnionAll(pairs))
 <2>1. /\ r.op = "stats" /\ r.at = "pairs"
       /\ \/ Cardinality(DOMAIN r.stats) < 2 /\ s = [r EXCEPT !.at = "done", !.result = u]
          \/ \E pairs \in SetToSeqs(alike) : s = [r EXCEPT !.at = "done", !.result = w(pairs)]
   BY <1>1, <1>13, Steps DEF ReadPairs, Reported, r, ds, rows
 <2>2. AlikePairs(alike, RowsIn(r, counts, dep))
   BY <1>1, <1>2, <1>3, FiguresIn DEF AlikePairs
 <2> HIDE DEF alike
 <2>3. ASSUME NEW v, s = [r EXCEPT !.at = "done", !.result = v]
       PROVE  Same(s, r) /\ s.at = "done" /\ s.result = v /\ s.stats = r.stats
   BY <1>6, <2>3 DEF Onward
 <2>4. r.op \in Report /\ Same(s, r) /\ s.at = "done" /\ s.stats = r.stats
   BY <2>1, <2>3 DEF Report
 <2>5. StatsHold(r, r.stats, counts, dep) /\ r.before \in CountsType /\ Below(r.before, counts)
   BY <1>5, <2>1, <2>4 DEF ReportHolds
 <2>6. /\ Cardinality(DOMAIN r.stats) < 2 => ClustersHold(r, u, r.stats, counts, dep)
       /\ \A pairs \in SetToSeqs(alike) : ClustersHold(r, w(pairs), r.stats, counts, dep)
   BY <1>1, <2>2, <2>5, PairsRead
 <2>7. ClustersHold(r, s.result, r.stats, counts, dep)
  <3> HIDE DEF u, w
  <3>1. CASE Cardinality(DOMAIN r.stats) < 2 /\ s = [r EXCEPT !.at = "done", !.result = u]
    BY <2>3, <2>6, <3>1
  <3>2. ASSUME NEW pairs \in SetToSeqs(alike), s = [r EXCEPT !.at = "done", !.result = w(pairs)]
        PROVE  ClustersHold(r, s.result, r.stats, counts, dep)
    BY <2>3, <2>6, <3>2
  <3> QED
    BY <2>1, <3>1, <3>2
 <2> QED
   BY <1>7, <2>1, <2>4, <2>7
<1>14. CASE ReadSearches(c)
 <2> DEFINE n == Volume(counts, ds, r.scope, 1)
            none == <<[searches |-> 0, clicks |-> 0]>>
            held == <<n>>
 <2>1. /\ r.op = "searches"
       /\ \/ n = 0 /\ s = [r EXCEPT !.at = "done", !.result = none]
          \/ s = [r EXCEPT !.at = "ratio", !.stats = held]
   BY <1>1, <1>14, Steps DEF ReadSearches, Reported, r, ds
 <2>2. held[1] = n /\ \A i \in DOMAIN none : none[i].searches = 0 /\ none[i].clicks = 0
   OBVIOUS
 <2> HIDE DEF none, held
 <2>3. r.op \in Report
   BY <2>1 DEF Report
 <2>4. CASE n = 0 /\ s = [r EXCEPT !.at = "done", !.result = none]
  <3>1. Same(s, r) /\ s.at = "done" /\ s.result = none
    BY <1>6, <2>4 DEF Onward
  <3>2. SearchesHold(r, 0, counts, dep) /\ ClicksHold(r, 0, clicks, dep)
    BY <1>5, <1>8, <2>3, <2>4, <3>1
  <3>3. RatioHolds(r, none, counts, clicks, dep)
    BY <2>2, <3>2 DEF RatioHolds
  <3> QED
    BY <1>7, <2>1, <2>3, <3>1, <3>3
 <2>5. CASE s = [r EXCEPT !.at = "ratio", !.stats = held]
  <3>1. Same(s, r) /\ s.at = "ratio" /\ s.stats = held
    BY <1>6, <2>5 DEF Onward
  <3>2. SearchesHold(r, n, counts, dep)
    BY <1>5, <1>8, <2>3, <3>1
  <3> HIDE DEF n
  <3> QED
    BY <1>7, <2>2, <2>3, <3>1, <3>2
 <2> QED
   BY <2>1, <2>4, <2>5
<1>15. CASE ReadRatio(c)
 <2> DEFINE n == Clicked(ds, "plain")
            v == <<[searches |-> r.stats[1], clicks |-> n]>>
 <2>1. s = [r EXCEPT !.at = "done", !.result = v] /\ r.op = "searches" /\ r.at = "ratio"
   BY <1>1, <1>15, Steps DEF ReadRatio, Reported, r, ds
 <2>2. \A i \in DOMAIN v : v[i].searches = r.stats[1] /\ v[i].clicks = n
   OBVIOUS
 <2> HIDE DEF v
 <2>3. Same(s, r) /\ s.at = "done" /\ s.result = v
   BY <1>6, <2>1 DEF Onward
 <2>4. r.op \in Report
   BY <2>1 DEF Report
 <2>5. SearchesHold(r, r.stats[1], counts, dep) /\ ClicksHold(r, n, clicks, dep)
   BY <1>5, <1>8, <2>1, <2>3, <2>4 DEF ReportHolds
 <2> HIDE DEF n
 <2>6. RatioHolds(r, v, counts, clicks, dep)
   BY <2>2, <2>5 DEF RatioHolds
 <2> QED
   BY <1>7, <2>1, <2>3, <2>4, <2>6
<1>16. CASE ReadTop(c)
 <2> DEFINE n == Clicked(ds, "plain")
            none == <<>>
 <2>1. /\ r.op = "top"
       /\ s = [r EXCEPT !.at = "done", !.result = none] \/ s = WithClicked(r, "topratio", n)
   BY <1>1, <1>16, Steps DEF ReadTop, Reported, WithClicked, r, ds
 <2>2. RatioHolds(r, none, counts, clicks, dep) /\ ClicksHold(r, n, clicks, dep)
   BY <1>8 DEF RatioHolds
 <2> HIDE DEF n, none
 <2>3. r.op \in Report
   BY <2>1 DEF Report
 <2>4. CASE s = [r EXCEPT !.at = "done", !.result = none]
  <3>1. Same(s, r) /\ s.at = "done" /\ s.result = none
    BY <1>6, <2>4 DEF Onward
  <3> QED
    BY <1>7, <2>1, <2>2, <2>3, <3>1
 <2>5. CASE s = WithClicked(r, "topratio", n)
  <3>1. Same(s, r) /\ s.at = "topratio" /\ s.clicked = n
    BY <1>1, <2>5, ClickedOn
  <3> QED
    BY <1>7, <2>1, <2>2, <2>3, <3>1
 <2> QED
   BY <2>1, <2>4, <2>5
<1>17. CASE ReadTopRatio(c)
 <2> DEFINE n == Volume(counts, ds, r.scope, 1)
            v == <<[searches |-> n, clicks |-> r.clicked]>>
 <2>1. s = [r EXCEPT !.at = "done", !.result = v] /\ r.op = "top" /\ r.at = "topratio"
   BY <1>1, <1>17, Steps DEF ReadTopRatio, Reported, r, ds
 <2>2. \A i \in DOMAIN v : v[i].searches = n /\ v[i].clicks = r.clicked
   OBVIOUS
 <2> HIDE DEF v
 <2>3. Same(s, r) /\ s.at = "done" /\ s.result = v
   BY <1>6, <2>1 DEF Onward
 <2>4. r.op \in Report
   BY <2>1 DEF Report
 <2>5. SearchesHold(r, n, counts, dep) /\ ClicksHold(r, r.clicked, clicks, dep)
   BY <1>5, <1>8, <2>1, <2>3, <2>4 DEF ReportHolds
 <2> HIDE DEF n
 <2>6. RatioHolds(r, v, counts, clicks, dep)
   BY <2>2, <2>5 DEF RatioHolds
 <2> QED
   BY <1>7, <2>1, <2>3, <2>4, <2>6
<1> QED
  BY <1>4, <1>9, <1>10, <1>11, <1>12, <1>13, <1>14, <1>15, <1>16, <1>17 DEF ReportActions

(* The inductive invariant about reports: whatever a report has read so far    *)
(* lies between the counts it began with and those of now (ReportHolds).       *)
ReportsInv ==
  \A c \in Command : run[c].op \in Report /\ run[c].whole => ReportHolds(run[c], counts, clicks, dep)

LEMMA InitReports == IntelligenceInit => ReportsInv
<1>1. NoRun.op \notin Report
  BY DEF NoRun, Report
<1> QED
  BY <1>1 DEF IntelligenceInit, ReportsInv

(* What else happens only adds to what was counted and clicked.                *)
Counted ==
  dep' = dep /\ Below(counts, counts') /\ \A d \in Day, f \in Form : clicks[d][f].made <= clicks'[d][f].made
Leaves(o) == run'[o].op \in Report => run'[o] = run[o]

LEMMA LeftAlone ==
  ASSUME IntelligenceType, IntelligenceType', ReportsInv, Counted, \A o \in Command : Leaves(o)
  PROVE  ReportsInv'
<1>1. /\ counts \in CountsType /\ counts' \in CountsType /\ clicks \in ClickType /\ clicks' \in ClickType
      /\ \A o \in Command : RunType(run[o])
  BY DEF IntelligenceType, ClickType, ClickCounts
<1>2. /\ dep' = dep /\ Below(counts, counts')
      /\ \A d \in Day, f \in Form : clicks[d][f].made <= clicks'[d][f].made
  BY DEF Counted
<1>3. ASSUME NEW o \in Command, run'[o].op \in Report, run'[o].whole PROVE ReportHolds(run'[o], counts', clicks', dep)
 <2>1. run'[o] = run[o] /\ ReportHolds(run[o], counts, clicks, dep)
   BY <1>3 DEF Leaves, ReportsInv
 <2>2. ReportHolds(run[o], counts', clicks', dep)
   BY <1>1, <1>2, <2>1, ReportStays
 <2> QED
   BY <2>1, <2>2
<1> QED
  BY <1>2, <1>3 DEF ReportsInv

LEMMA SameCounted ==
  ASSUME IntelligenceType, UNCHANGED <<dep, counts, clicks>>
  PROVE  Counted
<1>1. \A d \in Day, t \in Tenant, q \in Query : counts[d][t][q] \in [total : Nat, zero : Nat]
  BY DEF IntelligenceType, CountsType
<1>2. \A d \in Day, f \in Form : clicks[d][f].made \in Nat
  BY DEF IntelligenceType
<1> QED
  BY <1>1, <1>2 DEF Counted, Below

LEMMA SearchedMore ==
  ASSUME IntelligenceType, Search
  PROVE  Counted /\ UNCHANGED run
<1>1. \A d \in Day, u \in Tenant, p \in Query : counts[d][u][p] \in [total : Nat, zero : Nat]
  BY DEF IntelligenceType, CountsType
<1>2. \A d \in Day, f \in Form : clicks[d][f].made \in Nat
  BY DEF IntelligenceType
<1>3. UNCHANGED <<dep, clicks, run>>
  BY DEF Search
<1>4. PICK t \in Tenant, q \in Query, found \in BOOLEAN :
        /\ counts'[today][t][q] = [total |-> counts[today][t][q].total + 1,
                                   zero |-> IF found THEN counts[today][t][q].zero
                                            ELSE counts[today][t][q].zero + 1]
        /\ \A d \in Day, u \in Tenant, p \in Query :
             <<d, u, p>> # <<today, t, q>> => counts'[d][u][p] = counts[d][u][p]
  BY SearchCounts
<1>5. ASSUME NEW d \in Day, NEW u \in Tenant, NEW p \in Query
      PROVE  counts[d][u][p].total <= counts'[d][u][p].total /\ counts[d][u][p].zero <= counts'[d][u][p].zero
 <2>1. counts[d][u][p].total \in Nat /\ counts[d][u][p].zero \in Nat
   BY <1>1
 <2>2. CASE d = today /\ u = t /\ p = q
   BY <1>4, <2>1, <2>2
 <2>3. CASE ~(d = today /\ u = t /\ p = q)
   BY <1>4, <2>1, <2>3
 <2> QED
   BY <2>2, <2>3
<1> QED
  BY <1>2, <1>3, <1>5 DEF Counted, Below

LEMMA ClickedMore ==
  ASSUME IntelligenceType, UNCHANGED <<dep, counts>>, \A d \in Day, f \in Form : clicks[d][f].made <= clicks'[d][f].made
  PROVE  Counted
<1>1. \A d \in Day, t \in Tenant, q \in Query : counts[d][t][q] \in [total : Nat, zero : Nat]
  BY DEF IntelligenceType, CountsType
<1> QED
  BY <1>1 DEF Counted, Below

LEMMA ClicksAdded ==
  ASSUME IntelligenceType, Click \/ \E c \in Command : WriteGroup(c) \/ DeleteRaw(c)
  PROVE  Counted
<1>1. \A d \in Day, f \in Form : clicks[d][f].made \in Nat
  BY DEF IntelligenceType
<1>2. UNCHANGED <<dep, counts>>
  BY DEF Click, WriteGroup, DeleteRaw
<1>3. CASE Click
 <2>1. PICK f \in Form : \A d \in Day, g \in Form :
             clicks'[d][g] = IF d = today /\ g = f
                             THEN [raw |-> clicks[d][g].raw + 1, agg |-> clicks[d][g].agg, made |-> clicks[d][g].made + 1]
                             ELSE clicks[d][g]
   BY <1>3, ClickIs
 <2>2. ASSUME NEW d \in Day, NEW g \in Form PROVE clicks[d][g].made <= clicks'[d][g].made
  <3>1. CASE d = today /\ g = f
   <4>1. clicks'[d][g] = [raw |-> clicks[d][g].raw + 1, agg |-> clicks[d][g].agg, made |-> clicks[d][g].made + 1]
     BY <2>1, <3>1
   <4> QED
     BY <1>1, <4>1
  <3>2. CASE ~(d = today /\ g = f)
   <4>1. clicks'[d][g] = clicks[d][g]
     BY <2>1, <3>2
   <4> QED
     BY <1>1, <4>1
  <3> QED
    BY <3>1, <3>2
 <2> QED
   BY <1>2, <2>2, ClickedMore
<1>4. ASSUME NEW c \in Command, WriteGroup(c) PROVE Counted
 <2>1. PICK f \in Form : \A d \in Day, g \in Form :
             clicks'[d][g] = IF d = run[c].day /\ g = f
                             THEN [raw |-> clicks[d][g].raw, agg |-> run[c].read[f], made |-> clicks[d][g].made]
                             ELSE clicks[d][g]
   BY <1>4, WriteGroupIs
 <2>2. ASSUME NEW d \in Day, NEW g \in Form PROVE clicks[d][g].made <= clicks'[d][g].made
  <3>1. CASE d = run[c].day /\ g = f
   <4>1. clicks'[d][g] = [raw |-> clicks[d][g].raw, agg |-> run[c].read[f], made |-> clicks[d][g].made]
     BY <2>1, <3>1
   <4> QED
     BY <1>1, <4>1
  <3>2. CASE ~(d = run[c].day /\ g = f)
   <4>1. clicks'[d][g] = clicks[d][g]
     BY <2>1, <3>2
   <4> QED
     BY <1>1, <4>1
  <3> QED
    BY <3>1, <3>2
 <2> QED
   BY <1>2, <2>2, ClickedMore
<1>5. ASSUME NEW c \in Command, DeleteRaw(c) PROVE Counted
 <2>1. \A d \in Day, g \in Form :
             clicks'[d][g] = IF d = run[c].day
                             THEN [raw |-> 0, agg |-> clicks[d][g].agg, made |-> clicks[d][g].made]
                             ELSE clicks[d][g]
   BY <1>5, DeleteRawIs
 <2>2. ASSUME NEW d \in Day, NEW g \in Form PROVE clicks[d][g].made <= clicks'[d][g].made
  <3>1. CASE d = run[c].day
   <4>1. clicks'[d][g] = [raw |-> 0, agg |-> clicks[d][g].agg, made |-> clicks[d][g].made]
     BY <2>1, <3>1
   <4> QED
     BY <1>1, <4>1
  <3>2. CASE d # run[c].day
   <4>1. clicks'[d][g] = clicks[d][g]
     BY <2>1, <3>2
   <4> QED
     BY <1>1, <4>1
  <3> QED
    BY <3>1, <3>2
 <2> QED
   BY <1>2, <2>2, ClickedMore
<1> QED
  BY <1>3, <1>4, <1>5

(* Nobody but a report's own command touches it, but to end it.                *)
LEMMA GroupsOp ==
  ASSUME NEW r, r = [x \in RunFields |-> r[x]], r.op = "roll"
  PROVE  AfterGroups(r).op \notin Report
<1>1. \A a : [r EXCEPT !.at = a].op = "roll"
  BY DEF RunFields
<1>2. NoRun.op = "none"
  BY DEF NoRun
<1> QED
  BY <1>1, <1>2 DEF AfterGroups, Report

LEMMA NotReports ==
  ASSUME IntelligenceType, NEW c \in Command,
         \/ CheckExisting(c) \/ CreateRewrite(c) \/ BeginRoll(c) \/ WriteGroup(c) \/ DeleteRaw(c)
         \/ (Kill /\ Does(c, NoRun))
  PROVE  \A o \in Command : Leaves(o)
<1>1. ASSUME NEW r, Does(c, r), r.op \notin Report PROVE \A o \in Command : Leaves(o)
  BY <1>1, DoesOne DEF Leaves, IntelligenceType
<1>2. NoRun.op \notin Report /\ NoRun = [x \in RunFields |-> NoRun[x]]
  BY NoRunType DEF NoRun, Report, RunType
<1>3. CASE CheckExisting(c) \/ CreateRewrite(c)
 <2>1. PICK r : Does(c, r) /\ (r = NoRun \/ r.op = "learn")
   BY <1>3, CheckIs, CreateIs
 <2>2. r.op \notin Report
   BY <1>2, <2>1 DEF Report
 <2> QED
   BY <1>1, <2>1, <2>2
<1>4. CASE BeginRoll(c)
 <2>1. PICK d, delete, read, forms :
         Does(c, AfterGroups([NoRun EXCEPT !.op = "roll", !.day = d, !.delete = delete, !.read = read, !.forms = forms]))
   BY <1>4 DEF BeginRoll
 <2> DEFINE r == [NoRun EXCEPT !.op = "roll", !.day = d, !.delete = delete, !.read = read, !.forms = forms]
 <2>2. r = [x \in RunFields |-> r[x]] /\ r.op = "roll"
   BY DEF NoRun, RunFields
 <2> HIDE DEF r
 <2> QED
   BY <1>1, <2>1, <2>2, GroupsOp DEF r
<1>5. CASE WriteGroup(c)
 <2>1. PICK forms : Does(c, AfterGroups([run[c] EXCEPT !.forms = forms]))
   BY <1>5 DEF WriteGroup
 <2> DEFINE r == [run[c] EXCEPT !.forms = forms]
 <2>2. RunType(run[c]) /\ run[c].op = "roll"
   BY <1>5, Steps DEF WriteGroup, IntelligenceType
 <2>3. r = [x \in RunFields |-> r[x]] /\ r.op = "roll"
   BY <2>2 DEF RunType, RunFields
 <2> HIDE DEF r
 <2> QED
   BY <1>1, <2>1, <2>3, GroupsOp DEF r
<1>6. CASE DeleteRaw(c) \/ (Kill /\ Does(c, NoRun))
  BY <1>1, <1>2, <1>6 DEF DeleteRaw
<1> QED
  BY <1>3, <1>4, <1>5, <1>6

LEMMA LearnersLeave ==
  ASSUME IntelligenceType, NEW c \in Command, BeginLearn(c)
  PROVE  \A o \in Command : Leaves(o)
<1>1. PICK scope \in Tenant :
        /\ run'[c].op = "learn"
        /\ \A o \in Command \ {c} : /\ \A x \in RunFields \ {"alone"} : run'[o][x] = run[o][x]
                                    /\ run'[o].alone = (run[o].alone /\ ~Learns(o, scope))
  BY BeginLearnIs
<1>2. ASSUME NEW o \in Command, run'[o].op \in Report PROVE run'[o] = run[o]
 <2>1. o # c
   BY <1>1, <1>2 DEF Report
 <2>2. RunType(run[o]) /\ RunType(run'[o])
   BY BeginLearnIs DEF IntelligenceType
 <2>3. run'[o].op = run[o].op
   BY <1>1, <2>1 DEF RunFields
 <2>4. ~Learns(o, scope)
   BY <1>2, <2>3 DEF Learns, Report
 <2>5. run[o].alone \in BOOLEAN
   BY <2>2 DEF RunType
 <2>6. \A x \in RunFields : run'[o][x] = run[o][x]
   BY <1>1, <2>1, <2>4, <2>5 DEF RunFields
 <2> QED
   BY <2>2, <2>6 DEF RunType
<1> QED
  BY <1>2 DEF Leaves

LEMMA ReportsStep ==
  ASSUME IntelligenceType, ClicksInv, LearnInv, ReportsInv, [IntelligenceNext]_intelligenceVars
  PROVE  ReportsInv'
<1>1. IntelligenceType' /\ CountsHold
  BY TypeStep DEF LearnInv
<1>2. ASSUME NEW c \in Command, ReportActions(c) PROVE ReportsInv'
 <2>1. PICK r : RunType(r) /\ r.op \in Report /\ Does(c, r)
   BY <1>2, ReportsOn DEF ReportActions, Reports
 <2>2. UNCHANGED <<dep, counts, clicks>>
   BY <1>2, ReportsOn DEF ReportActions
 <2>3. \A o \in Command \ {c} : run'[o] = run[o]
   BY <2>1, DoesOne DEF IntelligenceType
 <2>4. run'[c].whole => ReportHolds(run'[c], counts, clicks, dep)
   BY <1>1, <1>2, ReportsRead DEF ReportsInv
 <2> QED
   BY <2>2, <2>3, <2>4 DEF ReportsInv
<1>3. CASE Search
  BY <1>1, <1>3, SearchedMore, LeftAlone DEF Leaves
<1>4. CASE UNCHANGED intelligenceVars \/ Change \/ NextDay \/ Admin
 <2>1. UNCHANGED <<dep, counts, clicks, run>>
   BY <1>4 DEF intelligenceVars, Change, NextDay, Admin
 <2> QED
   BY <1>1, <2>1, SameCounted, LeftAlone DEF Leaves
<1>5. CASE Click
 <2>1. UNCHANGED run
   BY <1>5 DEF Click
 <2> QED
   BY <1>1, <1>5, <2>1, ClicksAdded, LeftAlone DEF Leaves
<1>6. CASE clear_query_aggregates
 <2>1. \A c \in Command : ~run'[c].whole
  <3>1. run' = [c \in Command |-> [run[c] EXCEPT !.whole = FALSE]] /\ \A c \in Command : RunType(run[c])
    BY <1>6 DEF clear_query_aggregates, IntelligenceType
  <3> QED
    BY <3>1 DEF RunType, RunFields
 <2> QED
   BY <2>1 DEF ReportsInv
<1>7. CASE Kill
 <2>1. PICK c \in Command : Does(c, NoRun)
   BY <1>7 DEF Kill
 <2>2. UNCHANGED <<dep, counts, clicks>>
   BY <1>7 DEF Kill
 <2>3. \A o \in Command : Leaves(o)
   BY <1>7, <2>1, NotReports
 <2> QED
   BY <1>1, <2>2, <2>3, SameCounted, LeftAlone
<1>8. ASSUME NEW c \in Command, BeginLearn(c) \/ CheckExisting(c) \/ CreateRewrite(c) \/ BeginRoll(c) PROVE ReportsInv'
 <2>1. UNCHANGED <<dep, counts, clicks>>
   BY <1>8 DEF BeginLearn, CheckExisting, CreateRewrite, BeginRoll
 <2>2. \A o \in Command : Leaves(o)
   BY <1>8, NotReports, LearnersLeave
 <2> QED
   BY <1>1, <2>1, <2>2, SameCounted, LeftAlone
<1>9. ASSUME NEW c \in Command, WriteGroup(c) \/ DeleteRaw(c) PROVE ReportsInv'
 <2>1. Counted /\ \A o \in Command : Leaves(o)
   BY <1>9, NotReports, ClicksAdded
 <2> QED
   BY <1>1, <2>1, LeftAlone
<1> QED
  BY <1>2, <1>3, <1>4, <1>5, <1>6, <1>7, <1>8, <1>9 DEF IntelligenceNext, ReportActions

LEMMA HeldIsRight ==
  ASSUME NEW r, ReportHolds(r, counts, clicks, dep), r.at = "done"
  PROVE  ReportRight(r)
<1>1. /\ \A cs, q : VolumeIn(r, cs, dep, q) = VolumeOf(cs, r, q) /\ ZeroIn(r, cs, dep, q) = ZeroOf(cs, r, q)
      /\ \A cs : RowsIn(r, cs, dep) = Rows(cs, DaysOf(r), r.scope)
      /\ \A q, S : ReachIn(dep, S, q) = Reach(q, S)
  BY DEF VolumeIn, ZeroIn, RowsIn, VolumeOf, ZeroOf, DaysOf, ReachIn, StepsIn, Reach, Alike
<1>2. /\ \A cs, S : SumIn(r, cs, dep, S) = SumFunction([q \in S |-> VolumeOf(cs, r, q)])
      /\ \A cs, S : ZerosIn(r, cs, dep, S) = SumFunction([q \in S |-> ZeroOf(cs, r, q)])
      /\ MadeIn(r, clicks, dep) = MadeOf(r)
      /\ \A cs, x : /\ WeekOf(cs, r, RecentDays(r.day), x) = RecentIn(r, cs, x.query)
                    /\ WeekOf(cs, r, PreviousDays(r.day), x) = PreviousIn(r, cs, x.query)
  BY <1>1 DEF SumIn, ZerosIn, MadeIn, MadeOf, DaysOf, WeekOf, RecentIn, PreviousIn
<1> HIDE DEF DaysOf
<1>3. ASSUME DemandHolds(r, r.result, counts, clicks, dep) PROVE DemandRight(r)
  BY <1>1, <1>2, <1>3 DEF DemandHolds, DemandRight
<1>4. ASSUME ClustersHold(r, r.result, r.stats, counts, dep) PROVE ClustersRight(r)
  BY <1>1, <1>2, <1>4 DEF ClustersHold, ClustersRight, Known
<1>5. ASSUME RatioHolds(r, r.result, counts, clicks, dep) PROVE RatioRight(r)
  BY <1>1, <1>2, <1>5 DEF RatioHolds, RatioRight, SearchesHold, ClicksHold
<1> QED
  BY <1>3, <1>4, <1>5 DEF ReportHolds, ReportRight

(* Every report is right, for any number of commands, whatever is searched,    *)
(* clicked, changed or rolled up between its statements: its numbers of        *)
(* searches lie between those when it began and those now, its clicks are at   *)
(* most those made; demand signals list every query that fell short, clusters  *)
(* share out the queries by the chains that join them, each under a member     *)
(* with the most searches (get_demand_signals, cluster_queries,                *)
(* get_click_through_rate, get_top_clicked_documents).                         *)
THEOREM IntelligenceReportsRight == IntelligenceSpec => []ReportsRight
<1> DEFINE Inv == IntelligenceType /\ ClicksInv /\ LearnInv /\ ReportsInv
<1>1. IntelligenceInit => Inv
  BY InitIntelligenceType, InitClicks, InitLearn, InitReports
<1>2. Inv /\ [IntelligenceNext]_intelligenceVars => Inv'
  BY TypeStep, ClicksStep, LearnStep, ReportsStep
<1>3. Inv => ReportsRight
  BY HeldIsRight DEF ReportsInv, ReportsRight
<1> QED
  BY <1>1, <1>2, <1>3, PTL DEF IntelligenceSpec
=============================================================================
