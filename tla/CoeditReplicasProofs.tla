------------------------ MODULE CoeditReplicasProofs ------------------------
(***************************************************************************)
(* Proofs about the co-editing documents, for any sites, joiners and edits: *)
(* replicas agree on the order of what they share at every moment, nothing  *)
(* is interleaved with what was typed before, and replicas that have the    *)
(* same operations show the same document, by broadcast and by sync.        *)
(***************************************************************************)
EXTENDS CoeditReplicas, FiniteSetTheorems, WellFoundedInduction, TLAPS

-----------------------------------------------------------------------------
(* The types of ids, operations and replicas. *)

Authors == Sites \cup {SnapSite(t) : t \in Sites}
Id == Nat \X Int
OpId == (Nat \ {0}) \X Authors
Op == [type : {"ins", "del", "write"}, id : OpId, ref : Id]
Node == [id : (Nat \ {0}) \X Sites, origin : Id, deleted : BOOLEAN]
Doc == [nodes : Seq(Node), buffer : SUBSET Op, log : SUBSET Op, counter : Nat,
        seen : [Authors -> Nat], attr : Id]

-----------------------------------------------------------------------------
(* The inductive invariant. *)

\* All operations there are: the edits, and the deletes that a snapshot stands for.
Known == sent \cup {op \in UNION {docs[u].log : u \in Open} : op.id[2] < 0}

\* Operations with one id are the same; they refer to older elements.
Named(K) ==
  /\ K \subseteq Op
  /\ IsFiniteSet(K)
  /\ \A o, p \in K : o.id = p.id => o = p
  /\ \A o \in K : /\ o.type = "ins" => o.id[2] > 0 /\ o.ref[1] < o.id[1]
                  /\ o.type = "del" => o.ref # HEAD
                  /\ o.type # "write" /\ o.ref # HEAD
                       => \E p \in K : p.type = "ins" /\ p.id = o.ref

Distinct(N) == \A i, j \in DOMAIN N : N[i].id = N[j].id => i = j

\* The origin of an element is the nearest element to its left with a lower id.
Nearest(N) ==
  \A i \in DOMAIN N : \E f \in 0..i - 1 :
    /\ N[i].origin = IF f = 0 THEN HEAD ELSE N[f].id
    /\ \A j \in f + 1..i - 1 : IdGreater(N[j].id, N[i].id)

\* The operation shows in the document.
Effected(d, op) ==
  CASE op.type = "ins" -> op.id \in Ids(d)
    [] op.type = "del" -> \E i \in DOMAIN d.nodes : d.nodes[i].id = op.ref /\ d.nodes[i].deleted
    [] op.type = "write" -> ~IdGreater(op.id, d.attr)

\* A replica consists of known operations, shows all that are in its log, and
\* its counter and vector are theirs.
Fits(d, K) ==
  /\ d \in Doc
  /\ d.log \subseteq K
  /\ d.buffer \subseteq {op \in K : op.type # "write"}
  /\ Distinct(d.nodes)
  /\ Nearest(d.nodes)
  /\ \A i \in DOMAIN d.nodes : /\ Ins(d.nodes[i].id, d.nodes[i].origin) \in d.log
                               /\ d.nodes[i].id[1] <= d.counter
                               /\ d.nodes[i].deleted
                                    => \E op \in K : op.type = "del" /\ op.ref = d.nodes[i].id
  /\ d.attr = HEAD \/ \E op \in K : op.type = "write" /\ op.id = d.attr
  /\ \A op \in d.log : Effected(d, op) /\ op.id[1] <= d.seen[op.id[2]]
  /\ \A x \in Authors : d.seen[x] = 0 \/ \E op \in K : op.id = <<d.seen[x], x>>
  /\ \A x \in Sites : d.seen[x] <= d.counter

\* Nothing buffered is ready.
Settled(d) == \A op \in d.buffer : ~Ready(d, op)

\* What is shown is logged under some name.
Served(d) ==
  /\ \A i \in DOMAIN d.nodes : d.nodes[i].deleted
       => \E op \in d.log : op.type = "del" /\ op.ref = d.nodes[i].id
  /\ d.attr = HEAD \/ \E op \in d.log : op.type = "write" /\ op.id = d.attr

\* The vector of a replica promises nothing that the replica does not show.
Covers(d, K) == \A op \in K : op.id[1] <= d.seen[op.id[2]] => Effected(d, op)

TypeInv == /\ kind \in Kinds
           /\ docs \in [Sites -> Doc \cup {Absent}]
           /\ Founders \subseteq Open

\* Edits have their author's name and are in its own vector; deletes from
\* snapshots have a joiner's name and stand for a delete that was sent.
Authored ==
  /\ \A op \in sent : /\ op.id[2] \in Open
                      /\ op.id[1] <= docs[op.id[2]].seen[op.id[2]]
                      /\ op.type = "write" => kind[1] = "block"
  /\ \A op \in Known : op.id[2] < 0 =>
       /\ -op.id[2] \in Open
       /\ op.type = "del"
       /\ \E o \in sent : o.type = "del" /\ o.ref = op.ref

Replicas == \A s \in Open : Fits(docs[s], Known) /\ Settled(docs[s])

\* What sync relies on in a replica.
InStep(d, K) == d.buffer = {} /\ Served(d) /\ Covers(d, K)

Synced == kind[2] = "sync" => \A s \in Open : InStep(docs[s], Known)

IInv == TypeInv /\ Named(Known) /\ Authored /\ Replicas

-----------------------------------------------------------------------------
(* Least and greatest numbers, and induction over them as facts on sets. *)

\* A set of natural numbers has a least element.
LEMMA LeastNat ==
  ASSUME NEW T, T \subseteq Nat, T # {}
  PROVE  \E x \in T : \A y \in T : x <= y
<1> DEFINE Less == {p \in Nat \X Nat : p[1] < p[2]}
<1>1. IsWellFoundedOn(OpToRel(<, Nat), Nat)
  BY NatLessThanWellFounded
<1>2. OpToRel(<, Nat) = Less
  BY Zenon DEF OpToRel
<1>3. \E x \in T : \A y \in T : ~(<<y, x>> \in Less)
  BY <1>1, <1>2, WFMin, Zenon
<1>4. PICK x \in T : \A y \in T : ~(<<y, x>> \in Less)
  BY <1>3
<1>5. \A y \in T : ~(y < x)
  BY <1>4
<1> QED
  BY <1>5

\* Min is the least element.
LEMMA MinIsLeast ==
  ASSUME NEW T, T \subseteq Nat, T # {}
  PROVE  Min(T) \in T /\ \A y \in T : Min(T) <= y
BY LeastNat DEF Min

\* Max is the greatest element of a set with a bound.
LEMMA MaxIsGreatest ==
  ASSUME NEW T, T \subseteq Nat, T # {}, NEW b \in Nat, \A y \in T : y <= b
  PROVE  Max(T) \in T /\ \A y \in T : y <= Max(T)
<1> DEFINE Above == {n \in Nat : \A y \in T : y <= n}
<1>1. PICK m \in Above : \A n \in Above : m <= n
  <2>1. Above \subseteq Nat /\ b \in Above
    OBVIOUS
  <2> QED
    BY <2>1, LeastNat
<1>2. m \in T
  <2>1. SUFFICES ASSUME m \notin T PROVE FALSE
    OBVIOUS
  <2>2. PICK t \in T : TRUE
    OBVIOUS
  <2>3. m - 1 \in Above
    BY <2>1, <2>2
  <2> QED
    BY <1>1, <2>3
<1>3. \E x \in T : \A y \in T : x >= y
  BY <1>1, <1>2
<1> QED
  BY <1>3 DEF Max

\* The greater of two numbers.
LEMMA MaxOfTwo ==
  ASSUME NEW a \in Nat, NEW b \in Nat
  PROVE  Max({a, b}) = IF a < b THEN b ELSE a
<1>1. Max({a, b}) \in {a, b} /\ \A y \in {a, b} : y <= Max({a, b})
  BY MaxIsGreatest, a + b \in Nat
<1> QED
  BY <1>1

\* Induction up to n.
LEMMA UpTo ==
  ASSUME NEW n \in Nat, NEW S, 0 \in S,
         \A k \in 1..n : k - 1 \in S => k \in S
  PROVE  \A k \in 0..n : k \in S
<1> DEFINE Bad == {k \in 0..n : k \notin S}
<1>1. SUFFICES ASSUME Bad # {} PROVE FALSE
  OBVIOUS
<1>2. PICK b \in Bad : \A y \in Bad : b <= y
  <2>1. Bad \subseteq Nat
    OBVIOUS
  <2> QED
    BY <1>1, <2>1, LeastNat
<1>3. b \in 1..n /\ b - 1 \notin Bad
  BY <1>2
<1> QED
  BY <1>2, <1>3

\* The values of a function that is iterated.
IsRun(run, D, F, x, n) ==
  /\ run \in [0..n -> D]
  /\ run[0] = x
  /\ \A k \in 1..n : run[k] = F[run[k - 1]]

\* There are such values, as many as one likes.
LEMMA RunExists ==
  ASSUME NEW D, NEW F \in [D -> D], NEW x \in D, NEW n \in Nat
  PROVE  \E run : IsRun(run, D, F, x, n)
<1> DEFINE S == {m \in 0..n : \E g : IsRun(g, D, F, x, m)}
<1>1. 0 \in S
  <2>1. IsRun([k \in 0..0 |-> x], D, F, x, 0)
    BY DEF IsRun
  <2> QED
    BY <2>1
<1>2. ASSUME NEW m \in 1..n, m - 1 \in S PROVE m \in S
  <2>1. PICK g : IsRun(g, D, F, x, m - 1)
    BY <1>2
  <2> DEFINE h == [k \in 0..m |-> IF k = m THEN F[g[m - 1]] ELSE g[k]]
  <2>2. h \in [0..m -> D]
    BY <2>1 DEF IsRun
  <2>3. h[0] = x /\ \A k \in 1..m : h[k] = F[h[k - 1]]
    BY <2>1 DEF IsRun
  <2>4. IsRun(h, D, F, x, m)
    BY <2>2, <2>3 DEF IsRun
  <2> QED
    BY <2>4
<1>3. n \in S
  <2> HIDE DEF S
  <2> QED
    BY <1>1, <1>2, UpTo
<1> QED
  BY <1>3

-----------------------------------------------------------------------------
(* Ids and the order of elements. *)

\* Ids are totally ordered.
LEMMA IdOrder ==
  ASSUME NEW a \in Id, NEW b \in Id
  PROVE  /\ ~(IdGreater(a, b) /\ IdGreater(b, a))
         /\ a = b \/ IdGreater(a, b) \/ IdGreater(b, a)
         /\ a[1] < b[1] => IdGreater(b, a)
         /\ IdGreater(a, a) = FALSE
BY DEF Id, IdGreater

\* The order is transitive.
LEMMA IdTransitive ==
  ASSUME NEW a \in Id, NEW b \in Id, NEW c \in Id, IdGreater(a, b), IdGreater(b, c)
  PROVE  IdGreater(a, c)
BY DEF Id, IdGreater

\* Elements have ids, later than the start of the document.
LEMMA NodeIds ==
  ASSUME NEW n \in Node
  PROVE  n.id \in Id /\ n.origin \in Id /\ n.id # HEAD /\ n.id[1] \in Nat /\ n.origin[1] \in Nat
<1>1. n.id \in (Nat \ {0}) \X Sites /\ n.origin \in Nat \X Int
  BY DEF Node, Id
<1>2. \A s \in Sites : s \in Int
  BY SitesAssumption
<1>3. n.id \in Id
  BY <1>1, <1>2 DEF Id
<1>4. n.id[1] \in Nat \ {0} /\ n.origin[1] \in Nat
  BY <1>1
<1> QED
  BY <1>1, <1>3, <1>4 DEF Id, HEAD

\* Two elements that two sequences have in different order.
Swapped(N, M, a, b, c, d) == a < b /\ N[a].id = M[c].id /\ d < c /\ N[b].id = M[d].id

Ordered(N) == /\ Distinct(N)
              /\ Nearest(N)
              /\ \A i \in DOMAIN N : N[i].origin[1] < N[i].id[1]

SameOrigins(N, M) ==
  \A i \in DOMAIN N, j \in DOMAIN M : N[i].id = M[j].id => N[i].origin = M[j].origin

\* Of two elements in different order, the one with the greater id can be
\* replaced by its origin.
LEMMA SwapOrigin ==
  ASSUME NEW n \in Nat, NEW m \in Nat, NEW N \in [1..n -> Node], NEW M \in [1..m -> Node],
         Ordered(N), Ordered(M), SameOrigins(N, M),
         NEW a \in 1..n, NEW b \in 1..n, NEW c \in 1..m, NEW d \in 1..m,
         Swapped(N, M, a, b, c, d), IdGreater(N[b].id, N[a].id)
  PROVE  \E f \in 1..n, g \in 1..m :
           Swapped(N, M, a, f, c, g) /\ N[f].id[1] < N[b].id[1]
<1>0. DOMAIN N = 1..n /\ DOMAIN M = 1..m
  OBVIOUS
<1>1. PICK f \in 0..b - 1 : /\ N[b].origin = IF f = 0 THEN HEAD ELSE N[f].id
                            /\ \A j \in f + 1..b - 1 : IdGreater(N[j].id, N[b].id)
  BY <1>0 DEF Ordered, Nearest
<1>2. PICK g \in 0..d - 1 : M[d].origin = IF g = 0 THEN HEAD ELSE M[g].id
  BY <1>0 DEF Ordered, Nearest
<1>3. a < b /\ N[a].id = M[c].id /\ d < c /\ N[b].id = M[d].id
  BY DEF Swapped
<1>4. N[b].origin = M[d].origin
  BY <1>0, <1>3 DEF SameOrigins
<1>5. N[a] \in Node /\ N[b] \in Node
  OBVIOUS
<1>6. ~IdGreater(N[a].id, N[b].id)
  BY <1>5, NodeIds, IdOrder
<1>7. a <= f
  BY <1>1, <1>3, <1>6
<1>8. f \in 1..n
  BY <1>7
<1>9. N[f] \in Node /\ N[b].origin = N[f].id /\ N[f].id # HEAD
  BY <1>8, <1>1, NodeIds
<1>10. g \in 1..m /\ M[g].id = N[f].id
  BY <1>9, <1>4, <1>2
<1>11. a # f
  <2>1. SUFFICES ASSUME a = f PROVE FALSE
    OBVIOUS
  <2>2. M[g].id = M[c].id
    BY <2>1, <1>10, <1>3
  <2>3. g = c
    BY <2>2, <1>10, <1>0 DEF Ordered, Distinct
  <2> QED
    BY <2>3, <1>3, <1>2
<1>12. N[f].id[1] < N[b].id[1]
  BY <1>0, <1>9 DEF Ordered
<1>13. Swapped(N, M, a, f, c, g)
  <2>1. g < c
    BY <1>2, <1>3
  <2> QED
    BY <2>1, <1>3, <1>7, <1>10, <1>11 DEF Swapped
<1> QED
  BY <1>8, <1>10, <1>12, <1>13

\* The same from the other sequence.
LEMMA SwapEither ==
  ASSUME NEW n \in Nat, NEW m \in Nat, NEW N \in [1..n -> Node], NEW M \in [1..m -> Node],
         Ordered(N), Ordered(M), SameOrigins(N, M),
         NEW a \in 1..n, NEW b \in 1..n, NEW c \in 1..m, NEW d \in 1..m,
         Swapped(N, M, a, b, c, d)
  PROVE  \E e, f \in 1..n, g, h \in 1..m :
           /\ Swapped(N, M, e, f, g, h)
           /\ N[e].id[1] + N[f].id[1] < N[a].id[1] + N[b].id[1]
<1>0. DOMAIN N = 1..n /\ DOMAIN M = 1..m
  OBVIOUS
<1>1. \A i \in 1..n : N[i] \in Node /\ N[i].id \in Id /\ N[i].id[1] \in Nat
  BY NodeIds
<1>2. N[a].id # N[b].id
  BY <1>0 DEF Swapped, Ordered, Distinct
<1>3. CASE IdGreater(N[b].id, N[a].id)
  <2>1. PICK f \in 1..n, g \in 1..m :
               Swapped(N, M, a, f, c, g) /\ N[f].id[1] < N[b].id[1]
    BY <1>3, SwapOrigin
  <2>2. N[a].id[1] + N[f].id[1] < N[a].id[1] + N[b].id[1]
    BY <1>1, <2>1
  <2> QED
    BY <2>1, <2>2
<1>4. CASE IdGreater(N[a].id, N[b].id)
  <2>1. Swapped(M, N, d, c, b, a) /\ SameOrigins(M, N)
    BY <1>0 DEF Swapped, SameOrigins
  <2>2. IdGreater(M[c].id, M[d].id) /\ M[c].id = N[a].id
    BY <1>4 DEF Swapped
  <2>3. PICK g \in 1..m, e \in 1..n :
               Swapped(M, N, d, g, b, e) /\ M[g].id[1] < M[c].id[1]
    BY <2>1, <2>2, SwapOrigin
  <2>4. Swapped(N, M, e, b, g, d) /\ N[e].id = M[g].id
    BY <2>3 DEF Swapped
  <2>5. N[e].id[1] < N[a].id[1]
    BY <2>2, <2>3, <2>4
  <2>6. N[e].id[1] + N[b].id[1] < N[a].id[1] + N[b].id[1]
    BY <1>1, <2>5
  <2> QED
    BY <2>4, <2>6
<1> QED
  BY <1>1, <1>2, <1>3, <1>4, IdOrder

\* Elements that two sequences share are in the same order in both: the
\* replacements would go on for ever.
LEMMA OrderAgrees ==
  ASSUME NEW n \in Nat, NEW m \in Nat, NEW N \in [1..n -> Node], NEW M \in [1..m -> Node],
         Ordered(N), Ordered(M), SameOrigins(N, M),
         NEW a \in 1..n, NEW b \in 1..n, NEW c \in 1..m, NEW d \in 1..m
  PROVE  ~Swapped(N, M, a, b, c, d)
<1> DEFINE Weight(i, j) == N[i].id[1] + N[j].id[1]
           T == {w \in Nat : \E i, j \in 1..n, k, l \in 1..m :
                               Swapped(N, M, i, j, k, l) /\ w = Weight(i, j)}
<1>1. \A i, j \in 1..n : Weight(i, j) \in Nat
  BY NodeIds
<1> HIDE DEF Weight
<1>2. \A w \in T : \E v \in T : v < w
  <2> SUFFICES ASSUME NEW w \in T PROVE \E v \in T : v < w
    OBVIOUS
  <2>1. PICK i \in 1..n, j \in 1..n, k \in 1..m, l \in 1..m :
               Swapped(N, M, i, j, k, l) /\ w = Weight(i, j)
    OBVIOUS
  <2>2. PICK e \in 1..n, f \in 1..n, g \in 1..m, h \in 1..m :
               Swapped(N, M, e, f, g, h) /\ Weight(e, f) < Weight(i, j)
    <3>0. Swapped(N, M, i, j, k, l)
      BY <2>1
    <3> HIDE DEF T
    <3>1. PICK e \in 1..n, f \in 1..n, g \in 1..m, h \in 1..m :
                 /\ Swapped(N, M, e, f, g, h)
                 /\ N[e].id[1] + N[f].id[1] < N[i].id[1] + N[j].id[1]
      BY <3>0, SwapEither, Zenon
    <3>2. Weight(e, f) < Weight(i, j)
      BY <3>1 DEF Weight
    <3> QED
      BY <3>1, <3>2
  <2>3. Weight(e, f) \in T
    BY <2>2, <1>1
  <2> QED
    BY <2>1, <2>2, <2>3
<1>3. T = {}
  <2>1. T \subseteq Nat
    OBVIOUS
  <2> HIDE DEF T
  <2>2. SUFFICES ASSUME T # {} PROVE FALSE
    OBVIOUS
  <2>3. PICK w \in T : \A v \in T : w <= v
    BY <2>1, <2>2, LeastNat
  <2> QED
    BY <2>1, <2>3, <1>2
<1> QED
  BY <1>1, <1>3

Within(N, M) == \A i \in DOMAIN N : \E j \in DOMAIN M : M[j] = N[i]

Unswapped(N, M) ==
  \A a, b \in DOMAIN N, c, d \in DOMAIN M : ~Swapped(N, M, a, b, c, d)

AgreeTo(N, M, k) == \A i \in 1..k : i \in DOMAIN M /\ N[i] = M[i]

\* Two sequences of the same elements, none of them in different order, agree
\* at the first place as long as they agree before it.
LEMMA SamePlace ==
  ASSUME NEW n \in Nat, NEW m \in Nat, NEW N \in [1..n -> Node], NEW M \in [1..m -> Node],
         Distinct(N), Distinct(M),
         Within(N, M), Within(M, N), Unswapped(N, M),
         NEW k \in 1..n,
         AgreeTo(N, M, k - 1)
  PROVE  k \in 1..m /\ N[k] = M[k]
<1>0. DOMAIN N = 1..n /\ DOMAIN M = 1..m
  OBVIOUS
<1>1. PICK c \in 1..m : M[c] = N[k]
  BY <1>0 DEF Within
<1>2. ~(c < k)
  <2>1. SUFFICES ASSUME c < k PROVE FALSE
    OBVIOUS
  <2>2. c \in 1..k - 1
    BY <2>1
  <2>3. N[c] = N[k]
    BY <2>2, <1>1 DEF AgreeTo
  <2> QED
    BY <2>1, <2>3, <1>0 DEF Distinct
<1>3. k \in 1..m
  BY <1>2
<1>4. PICK a \in 1..n : N[a] = M[k]
  BY <1>3, <1>0 DEF Within
<1>5. ~(a < k)
  <2>1. SUFFICES ASSUME a < k PROVE FALSE
    OBVIOUS
  <2>2. a \in 1..k - 1
    BY <2>1
  <2>3. M[a] = M[k] /\ a \in 1..m
    BY <2>2, <1>4, <1>0 DEF AgreeTo
  <2> QED
    BY <2>1, <2>3, <1>3, <1>0 DEF Distinct
<1>6. ~(k < a /\ k < c)
  <2>1. SUFFICES ASSUME k < a, k < c PROVE FALSE
    OBVIOUS
  <2>2. Swapped(N, M, k, a, c, k)
    BY <2>1, <1>1, <1>4 DEF Swapped
  <2> QED
    BY <2>2, <1>3, <1>0 DEF Unswapped
<1>7. c = k \/ a = k
  BY <1>2, <1>5, <1>6
<1> QED
  BY <1>1, <1>3, <1>4, <1>7

\* Hence they are equal.
LEMMA SameSequence ==
  ASSUME NEW n \in Nat, NEW m \in Nat, NEW N \in [1..n -> Node], NEW M \in [1..m -> Node],
         Distinct(N), Distinct(M),
         Within(N, M), Within(M, N), Unswapped(N, M)
  PROVE  N = M
<1> DEFINE S == {k \in 0..n : AgreeTo(N, M, k)}
<1>0. DOMAIN N = 1..n /\ DOMAIN M = 1..m
  OBVIOUS
<1>1. 0 \in S
  BY DEF AgreeTo
<1>2. ASSUME NEW k \in 1..n, k - 1 \in S PROVE k \in S
  <2>1. AgreeTo(N, M, k - 1)
    BY <1>2
  <2>2. k \in 1..m /\ N[k] = M[k]
    BY <2>1, SamePlace
  <2> QED
    BY <2>1, <2>2, <1>0 DEF AgreeTo
<1>3. n \in S
  <2> HIDE DEF S
  <2>1. \A k \in 0..n : k \in S
    BY <1>1, <1>2, UpTo
  <2> QED
    BY <2>1
<1>4. \A i \in 1..n : i \in 1..m /\ N[i] = M[i]
  BY <1>3, <1>0 DEF AgreeTo
<1>5. ~(n < m)
  <2>1. SUFFICES ASSUME n < m PROVE FALSE
    OBVIOUS
  <2>2. m \in 1..m
    BY <2>1
  <2>3. PICK i \in 1..n : N[i] = M[m]
    BY <2>2, <1>0 DEF Within
  <2>4. M[i] = M[m] /\ i \in 1..m
    BY <1>4, <2>3
  <2>5. i = m
    BY <2>2, <2>4, <1>0 DEF Distinct
  <2> QED
    BY <2>1, <2>5
<1>6. n = m
  BY <1>4, <1>5
<1> QED
  BY <1>4, <1>6

-----------------------------------------------------------------------------
(* Inserting an element. *)

\* What InsertAt returns.
LEMMA InsertAtElements ==
  ASSUME NEW S, NEW s \in Seq(S), NEW e \in S, NEW p \in 1..Len(s) + 1
  PROVE  /\ InsertAt(s, p, e) \in [1..Len(s) + 1 -> S]
         /\ InsertAt(s, p, e) \in Seq(S)
         /\ \A i \in 1..Len(s) + 1 :
              InsertAt(s, p, e)[i] = IF i < p THEN s[i] ELSE IF i = p THEN e ELSE s[i - 1]
<1> DEFINE front == SubSeq(s, 1, p - 1)
           back == SubSeq(s, p, Len(s))
           t == front \o <<e>>
<1>1. front \in Seq(S) /\ Len(front) = p - 1 /\ \A i \in 1..p - 1 : front[i] = s[i]
  OBVIOUS
<1>2. back \in Seq(S) /\ Len(back) = Len(s) - p + 1
        /\ \A i \in 1..Len(s) - p + 1 : back[i] = s[p + i - 1]
  OBVIOUS
<1> HIDE DEF front, back
<1>3. t \in Seq(S) /\ Len(t) = p /\ (\A i \in 1..p - 1 : t[i] = s[i]) /\ t[p] = e
  BY <1>1
<1> HIDE DEF t
<1>4. /\ t \o back \in Seq(S)
      /\ Len(t \o back) = Len(s) + 1
      /\ \A i \in 1..Len(s) + 1 : (t \o back)[i] = IF i <= p THEN t[i] ELSE back[i - p]
  BY <1>2, <1>3
<1>5. InsertAt(s, p, e) = t \o back
  BY DEF InsertAt, t, front, back
<1> DEFINE u == t \o back
<1> HIDE DEF u
<1>6. u \in Seq(S) /\ Len(u) = Len(s) + 1
        /\ \A i \in 1..Len(s) + 1 : u[i] = IF i <= p THEN t[i] ELSE back[i - p]
  BY <1>4 DEF u
<1>7. u \in [1..Len(s) + 1 -> S]
  BY <1>6
<1>8. ASSUME NEW i \in 1..Len(s) + 1
      PROVE  u[i] = IF i < p THEN s[i] ELSE IF i = p THEN e ELSE s[i - 1]
  <2>1. CASE i > p
    <3>1. i - p \in 1..Len(s) - p + 1 /\ p + (i - p) - 1 = i - 1
      BY <2>1
    <3> QED
      BY <2>1, <3>1, <1>6, <1>2
  <2> QED
    BY <2>1, <1>6, <1>3
<1> QED
  BY <1>5, <1>6, <1>7, <1>8 DEF u

\* The place of an element.
LEMMA IndexOfElement ==
  ASSUME NEW d, Distinct(d.nodes)
  PROVE  /\ \A i \in DOMAIN d.nodes : IndexOf(d, d.nodes[i].id) = i
         /\ \A id \in Ids(d) : /\ IndexOf(d, id) \in DOMAIN d.nodes
                               /\ d.nodes[IndexOf(d, id)].id = id
<1>1. ASSUME NEW id \in Ids(d)
      PROVE  IndexOf(d, id) \in DOMAIN d.nodes /\ d.nodes[IndexOf(d, id)].id = id
  <2>1. \E i \in DOMAIN d.nodes : d.nodes[i].id = id
    BY DEF Ids
  <2> QED
    BY <2>1 DEF IndexOf
<1>2. ASSUME NEW i \in DOMAIN d.nodes PROVE IndexOf(d, d.nodes[i].id) = i
  <2>1. d.nodes[i].id \in Ids(d)
    BY DEF Ids
  <2> QED
    BY <2>1, <1>1 DEF Distinct
<1> QED
  BY <1>1, <1>2

\* The place p for an element with this id behind this origin.
Place(N, p, id, origin) ==
  /\ p \in 1..Len(N) + 1
  /\ p <= Len(N) => ~IdGreater(N[p].id, id)
  /\ \E f \in 0..p - 1 : /\ origin = IF f = 0 THEN HEAD ELSE N[f].id
                         /\ \A j \in f + 1..p - 1 : IdGreater(N[j].id, id)

\* The scan of integrate stops there.
LEMMA ScanStops ==
  ASSUME NEW d, d.nodes \in Seq(Node), Distinct(d.nodes), NEW op, Ready(d, op)
  PROVE  Place(d.nodes, IntegrateAt(d, op), op.id, op.ref)
<1> DEFINE N == d.nodes
           f == IF op.ref = HEAD THEN 0 ELSE IndexOf(d, op.ref)
           T == {i \in f + 1..Len(N) : ~IdGreater(N[i].id, op.id)} \cup {Len(N) + 1}
           p == IntegrateAt(d, op)
<1>0. DOMAIN N = 1..Len(N) /\ Len(N) \in Nat
  OBVIOUS
<1>1. f \in 0..Len(N) /\ op.ref = IF f = 0 THEN HEAD ELSE N[f].id
  <2>1. CASE op.ref = HEAD
    BY <2>1, <1>0
  <2>2. CASE op.ref # HEAD
    <3>1. op.ref \in Ids(d)
      BY <2>2 DEF Ready
    <3>2. IndexOf(d, op.ref) \in 1..Len(N) /\ N[IndexOf(d, op.ref)].id = op.ref
      BY <3>1, <1>0, IndexOfElement
    <3> QED
      BY <2>2, <3>2, <1>0
  <2> QED
    BY <2>1, <2>2
<1>2. p = Min(T)
  <2>1. (IF op.ref = HEAD THEN 1 ELSE IndexOf(d, op.ref) + 1) = f + 1
    OBVIOUS
  <2> QED
    BY <2>1 DEF IntegrateAt
<1> HIDE DEF f, p
<1>3. T \subseteq Nat /\ T # {}
  BY <1>0, <1>1
<1>4. p \in T /\ \A y \in T : p <= y
  <2> HIDE DEF T
  <2> QED
    BY <1>2, <1>3, MinIsLeast
<1>5. p \in f + 1..Len(N) + 1 /\ (p <= Len(N) => ~IdGreater(N[p].id, op.id))
  BY <1>4, <1>1, <1>0
<1>6. ASSUME NEW j \in f + 1..p - 1 PROVE IdGreater(N[j].id, op.id)
  <2>1. j \in f + 1..Len(N) /\ ~(p <= j)
    BY <1>5, <1>1, <1>0
  <2> QED
    BY <2>1, <1>4
<1>7. p \in 1..Len(N) + 1 /\ f \in 0..p - 1
  BY <1>5, <1>1, <1>0
<1> HIDE DEF T
<1>8. Place(N, p, op.id, op.ref)
  BY <1>1, <1>5, <1>6, <1>7 DEF Place
<1> QED
  BY <1>8 DEF p

\* An element that is inserted at its place disturbs no other.
LEMMA InsertOrdered ==
  ASSUME NEW N \in Seq(Node), Distinct(N), Nearest(N), NEW e \in Node, NEW p,
         Place(N, p, e.id, e.origin), \A i \in DOMAIN N : N[i].id # e.id
  PROVE  Distinct(InsertAt(N, p, e)) /\ Nearest(InsertAt(N, p, e))
<1> DEFINE n == Len(N)
           M == InsertAt(N, p, e)
<1>0. n \in Nat /\ p \in 1..n + 1 /\ DOMAIN N = 1..n
  BY DEF Place
<1>1. /\ M \in [1..n + 1 -> Node]
      /\ \A i \in 1..n + 1 : M[i] = IF i < p THEN N[i] ELSE IF i = p THEN e ELSE N[i - 1]
  BY <1>0, InsertAtElements
<1>2. DOMAIN M = 1..n + 1
  BY <1>1
<1>n. \A i \in 1..n : N[i] \in Node /\ N[i].id \in Id
  BY <1>0, NodeIds
<1>e. e.id \in Id
  BY NodeIds
<1> HIDE DEF M, n
<1>3. \A i \in 1..n + 1 : /\ i < p => i \in 1..n /\ M[i] = N[i]
                          /\ i = p => M[i] = e
                          /\ i > p => i - 1 \in 1..n /\ M[i] = N[i - 1]
  BY <1>0, <1>1
<1>4. Distinct(M)
  <2> SUFFICES ASSUME NEW i \in 1..n + 1, NEW j \in 1..n + 1, M[i].id = M[j].id
               PROVE  i = j
    BY <1>2 DEF Distinct
  <2>0. \A k \in 1..n + 1 : k # p => \E l \in 1..n : M[k] = N[l]
    BY <1>3, <1>0
  <2>1. CASE i = p \/ j = p
    <3>1. M[p] = e
      BY <1>3, <1>0
    <3> QED
      BY <2>0, <2>1, <3>1, <1>0
  <2>2. CASE i # p /\ j # p
    <3> DEFINE a == IF i < p THEN i ELSE i - 1
               b == IF j < p THEN j ELSE j - 1
    <3>1. a \in 1..n /\ b \in 1..n /\ N[a].id = N[b].id
      BY <2>2, <1>3, <1>0
    <3>2. a = b
      BY <3>1, <1>0 DEF Distinct
    <3> QED
      BY <2>2, <3>2, <1>0
  <2> QED
    BY <2>1, <2>2
<1>5. Nearest(M)
  <2> SUFFICES ASSUME NEW i \in 1..n + 1
               PROVE  \E f \in 0..i - 1 :
                        /\ M[i].origin = IF f = 0 THEN HEAD ELSE M[f].id
                        /\ \A j \in f + 1..i - 1 : IdGreater(M[j].id, M[i].id)
    BY <1>2 DEF Nearest
  <2>1. CASE i = p
    <3>1. PICK f \in 0..p - 1 : /\ e.origin = IF f = 0 THEN HEAD ELSE N[f].id
                                /\ \A j \in f + 1..p - 1 : IdGreater(N[j].id, e.id)
      BY DEF Place
    <3>2. f # 0 => M[f] = N[f]
      BY <3>1, <1>3, <1>0
    <3>3. ASSUME NEW j \in f + 1..p - 1 PROVE IdGreater(M[j].id, e.id)
      <4>1. j \in 1..n + 1 /\ j < p
        BY <1>0
      <4>2. M[j] = N[j]
        BY <4>1, <1>3
      <4> QED
        BY <4>2, <3>1
    <3>4. M[i] = e
      BY <2>1, <1>3
    <3> QED
      BY <2>1, <3>1, <3>2, <3>3, <3>4
  <2>2. CASE i < p
    <3>1. i \in 1..n /\ M[i] = N[i]
      BY <2>2, <1>3
    <3>2. PICK f \in 0..i - 1 : /\ N[i].origin = IF f = 0 THEN HEAD ELSE N[f].id
                                /\ \A j \in f + 1..i - 1 : IdGreater(N[j].id, N[i].id)
      BY <3>1, <1>0 DEF Nearest
    <3>3. \A j \in 1..i - 1 : M[j] = N[j]
      BY <2>2, <1>3, <1>0
    <3>4. f # 0 => M[f] = N[f]
      BY <3>2, <3>3
    <3>5. \A j \in f + 1..i - 1 : IdGreater(M[j].id, M[i].id)
      <4> SUFFICES ASSUME NEW j \in f + 1..i - 1 PROVE IdGreater(M[j].id, M[i].id)
        OBVIOUS
      <4>1. j \in 1..i - 1
        BY <3>2
      <4> QED
        BY <4>1, <3>1, <3>2, <3>3
    <3> QED
      BY <3>1, <3>2, <3>4, <3>5
  <2>3. CASE i > p
    <3> DEFINE h == i - 1
    <3>1. h \in 1..n /\ M[i] = N[h] /\ p <= h
      BY <2>3, <1>3, <1>0
    <3>2. PICK f \in 0..h - 1 : /\ N[h].origin = IF f = 0 THEN HEAD ELSE N[f].id
                                /\ \A j \in f + 1..h - 1 : IdGreater(N[j].id, N[h].id)
      BY <3>1, <1>0 DEF Nearest
    <3> DEFINE g == IF f < p THEN f ELSE f + 1
    <3>3. g \in 0..i - 1 /\ (g = 0 <=> f = 0)
      BY <3>1, <3>2, <1>0
    <3>4. f # 0 => M[g] = N[f]
      <4> SUFFICES ASSUME f # 0 PROVE M[g] = N[f]
        OBVIOUS
      <4>1. g \in 1..n + 1
        <5> HIDE DEF g
        <5> QED
          BY <3>3, <1>0
      <4>2. CASE f < p
        BY <4>1, <4>2, <1>3
      <4>3. CASE ~(f < p)
        <5>1. g > p /\ g - 1 = f
          BY <4>3, <1>0, <3>2
        <5> QED
          BY <4>1, <5>1, <1>3
      <4> QED
        BY <4>2, <4>3
    <3>5. f < p => IdGreater(e.id, N[h].id)
      <4> SUFFICES ASSUME f < p PROVE IdGreater(e.id, N[h].id)
        OBVIOUS
      <4>1. p \in 1..n /\ ~IdGreater(N[p].id, e.id)
        BY <3>1, <1>0 DEF Place, n
      <4>2. IdGreater(e.id, N[p].id)
        BY <4>1, <1>0, <1>n, <1>e, IdOrder
      <4>3. p = h \/ IdGreater(N[p].id, N[h].id)
        BY <3>1, <3>2, <1>0
      <4> QED
        BY <4>1, <4>2, <4>3, <3>1, <1>n, <1>e, IdTransitive
    <3>6. \A j \in g + 1..i - 1 : IdGreater(M[j].id, N[h].id)
      <4> SUFFICES ASSUME NEW j \in g + 1..i - 1 PROVE IdGreater(M[j].id, N[h].id)
        OBVIOUS
      <4>0. j \in 1..n + 1
        <5> HIDE DEF g
        <5> QED
          BY <3>3, <1>0
      <4>1. CASE j < p
        <5>1. j \in f + 1..h - 1 /\ M[j] = N[j]
          BY <4>0, <4>1, <1>3, <3>1, <1>0
        <5> QED
          BY <5>1, <3>2
      <4>2. CASE j = p
        <5>1. f < p /\ M[j] = e
          BY <4>0, <4>2, <1>3, <3>2, <1>0
        <5> QED
          BY <5>1, <3>5
      <4>3. CASE j > p
        <5>1. j - 1 \in f + 1..h - 1 /\ M[j] = N[j - 1]
          BY <4>0, <4>3, <1>3, <3>1, <1>0, <3>2
        <5> QED
          BY <5>1, <3>2
      <4> QED
        BY <4>0, <4>1, <4>2, <4>3, <1>0
    <3> HIDE DEF g, h
    <3> QED
      BY <3>1, <3>2, <3>3, <3>4, <3>6
  <2> QED
    BY <2>1, <2>2, <2>3, <1>0
<1> QED
  BY <1>4, <1>5 DEF M

-----------------------------------------------------------------------------
(* What taking an operation does to a replica. *)

\* Operations have ids with a counter above zero and a known author.
LEMMA OpFacts ==
  ASSUME NEW op \in Op
  PROVE  /\ op.id \in Id /\ op.id[1] \in Nat /\ op.id[1] > 0 /\ op.id[2] \in Authors
         /\ op.id[2] \in Int /\ op.id = <<op.id[1], op.id[2]>>
         /\ op.ref \in Id /\ op.type \in {"ins", "del", "write"}
         /\ op.id[2] > 0 => op.id[2] \in Sites
<1>1. op.id \in (Nat \ {0}) \X Authors /\ op.ref \in Id /\ op.type \in {"ins", "del", "write"}
  BY DEF Op, OpId
<1>2. \A s \in Authors : s \in Int /\ (s > 0 => s \in Sites)
  BY SitesAssumption DEF Authors, SnapSite
<1>3. op.id[1] \in Nat /\ op.id[1] > 0 /\ op.id[2] \in Authors /\ op.id = <<op.id[1], op.id[2]>>
  BY <1>1
<1> QED
  BY <1>1, <1>2, <1>3 DEF Id

\* The fields of a replica.
LEMMA DocFields ==
  ASSUME NEW d \in Doc
  PROVE  /\ d.nodes \in Seq(Node) /\ d.buffer \subseteq Op /\ d.log \subseteq Op
         /\ d.counter \in Nat /\ d.seen \in [Authors -> Nat] /\ d.attr \in Id
         /\ DOMAIN d.nodes = 1..Len(d.nodes) /\ Len(d.nodes) \in Nat
         /\ d = [nodes |-> d.nodes, buffer |-> d.buffer, log |-> d.log,
                 counter |-> d.counter, seen |-> d.seen, attr |-> d.attr]
BY DEF Doc

Greatest(a, b) == IF a < b THEN b ELSE a

\* Recording an operation changes the log, the counter and the vector.
LEMMA RecordFields ==
  ASSUME NEW d \in Doc, NEW op \in Op
  PROVE  /\ Record(d, op) \in Doc
         /\ Record(d, op).nodes = d.nodes
         /\ Record(d, op).buffer = d.buffer
         /\ Record(d, op).attr = d.attr
         /\ Record(d, op).log = d.log \cup {op}
         /\ Record(d, op).counter = Greatest(d.counter, op.id[1])
         /\ Record(d, op).seen = [d.seen EXCEPT ![op.id[2]] = Greatest(@, op.id[1])]
<1>1. d.counter \in Nat /\ d.seen \in [Authors -> Nat] /\ op.id[1] \in Nat /\ op.id[2] \in Authors
  BY OpFacts, DocFields
<1>2. d.seen[op.id[2]] \in Nat
  BY <1>1
<1>3. /\ Max({d.counter, op.id[1]}) = Greatest(d.counter, op.id[1])
      /\ Max({d.seen[op.id[2]], op.id[1]}) = Greatest(d.seen[op.id[2]], op.id[1])
  BY <1>1, <1>2, MaxOfTwo DEF Greatest
<1>4. Bump(d, op.id) = [d EXCEPT !.seen = [d.seen EXCEPT ![op.id[2]] = Greatest(@, op.id[1])],
                                 !.counter = Greatest(d.counter, op.id[1])]
  BY <1>3 DEF Bump
<1>5. /\ Greatest(d.counter, op.id[1]) \in Nat
      /\ [d.seen EXCEPT ![op.id[2]] = Greatest(@, op.id[1])] \in [Authors -> Nat]
  BY <1>1, <1>2 DEF Greatest
<1> QED
  BY <1>4, <1>5 DEF Record, Doc

\* From d to e a replica has received the operations X, and lost nothing.
Grows(d, e, X) ==
  /\ d.log \subseteq e.log
  /\ e.log \cup e.buffer = d.log \cup d.buffer \cup X
  /\ d.counter <= e.counter
  /\ \A x \in Authors : /\ d.seen[x] <= e.seen[x]
                        /\ e.seen[x] = d.seen[x] \/ \E op \in e.log : op.id = <<e.seen[x], x>>
  /\ Ids(d) \subseteq Ids(e)
  /\ \A op \in Op : Effected(d, op) => Effected(e, op)
  /\ Served(d) => Served(e)

\* Growing goes on.
LEMMA GrowsOn ==
  ASSUME NEW d \in Doc, NEW e \in Doc, NEW f \in Doc, NEW X, NEW Y,
         Grows(d, e, X), Grows(e, f, Y)
  PROVE  Grows(d, f, X \cup Y)
<1>1. d.log \subseteq f.log /\ Ids(d) \subseteq Ids(f) /\ (Served(d) => Served(f))
  BY DEF Grows
<1>2. f.log \cup f.buffer = d.log \cup d.buffer \cup (X \cup Y)
  BY DEF Grows
<1>3. d.counter <= f.counter
  BY DocFields DEF Grows
<1>4. \A op \in Op : Effected(d, op) => Effected(f, op)
  BY DEF Grows
<1>5. ASSUME NEW x \in Authors
      PROVE  /\ d.seen[x] <= f.seen[x]
             /\ f.seen[x] = d.seen[x] \/ \E op \in f.log : op.id = <<f.seen[x], x>>
  <2>1. d.seen[x] \in Nat /\ e.seen[x] \in Nat /\ f.seen[x] \in Nat
    BY DocFields
  <2>2. /\ d.seen[x] <= e.seen[x]
        /\ e.seen[x] = d.seen[x] \/ \E op \in e.log : op.id = <<e.seen[x], x>>
    BY DEF Grows
  <2>3. /\ e.seen[x] <= f.seen[x]
        /\ f.seen[x] = e.seen[x] \/ \E op \in f.log : op.id = <<f.seen[x], x>>
    BY DEF Grows
  <2>4. e.log \subseteq f.log
    BY DEF Grows
  <2> QED
    BY <2>1, <2>2, <2>3, <2>4
<1> QED
  BY <1>1, <1>2, <1>3, <1>4, <1>5 DEF Grows

\* A replica that receives nothing.
LEMMA GrowsStill ==
  ASSUME NEW d \in Doc
  PROVE  Grows(d, d, {})
BY DocFields DEF Grows

\* The part of Fits that is about the elements and the register.
Shows(d, K) ==
  /\ Distinct(d.nodes)
  /\ Nearest(d.nodes)
  /\ \A i \in DOMAIN d.nodes : /\ Ins(d.nodes[i].id, d.nodes[i].origin) \in d.log
                               /\ d.nodes[i].id[1] <= d.counter
                               /\ d.nodes[i].deleted
                                    => \E op \in K : op.type = "del" /\ op.ref = d.nodes[i].id
  /\ d.attr = HEAD \/ \E op \in K : op.type = "write" /\ op.id = d.attr

\* e is d with an operation recorded.
Recorded(d, e, op) ==
  /\ e \in Doc
  /\ e.log = d.log \cup {op}
  /\ e.buffer = d.buffer
  /\ e.counter = Greatest(d.counter, op.id[1])
  /\ e.seen = [d.seen EXCEPT ![op.id[2]] = Greatest(@, op.id[1])]

\* An operation that is recorded and shows keeps a replica fit.
LEMMA RecordedFits ==
  ASSUME NEW K, Named(K), NEW d, Fits(d, K), NEW op \in K, NEW e, Recorded(d, e, op),
         Shows(e, K), Effected(e, op), Ids(d) \subseteq Ids(e), Served(d) => Served(e),
         \A o \in Op : Effected(d, o) => Effected(e, o)
  PROVE  Fits(e, K) /\ Grows(d, e, {op})
<1>1. d \in Doc /\ e \in Doc /\ op \in Op /\ K \subseteq Op
  BY DEF Fits, Recorded, Named
<1>2. /\ d.counter \in Nat /\ op.id[1] \in Nat /\ op.id[1] > 0 /\ op.id[2] \in Authors
      /\ \A x \in Authors : d.seen[x] \in Nat
      /\ d.seen \in [Authors -> Nat]
      /\ op.id = <<op.id[1], op.id[2]>>
  BY <1>1, OpFacts, DocFields
<1>3. \A x \in Authors : e.seen[x] = IF x = op.id[2] THEN Greatest(d.seen[x], op.id[1]) ELSE d.seen[x]
  BY <1>2 DEF Recorded
<1>4. op \in e.log /\ d.log \subseteq e.log /\ e.log \subseteq K /\ e.log \cup e.buffer = d.log \cup d.buffer \cup {op}
  BY DEF Recorded, Fits
<1>5. ASSUME NEW x \in Authors
      PROVE  /\ d.seen[x] <= e.seen[x]
             /\ e.seen[x] = d.seen[x] \/ op.id = <<e.seen[x], x>>
             /\ x = op.id[2] => op.id[1] <= e.seen[x]
  BY <1>2, <1>3 DEF Greatest
<1>6. Grows(d, e, {op})
  <2>1. d.counter <= e.counter
    BY <1>2 DEF Recorded, Greatest
  <2> QED
    BY <1>4, <1>5, <2>1 DEF Grows
<1>7. ASSUME NEW o \in e.log
      PROVE  Effected(e, o) /\ o.id[1] <= e.seen[o.id[2]]
  <2>0. o \in Op /\ o.id[2] \in Authors /\ o.id[1] \in Nat
    BY <1>1, <1>4, OpFacts
  <2>1. CASE o = op
    BY <2>1, <1>5, <1>2
  <2>2. CASE o \in d.log
    <3>1. Effected(d, o) /\ o.id[1] <= d.seen[o.id[2]]
      BY <2>2 DEF Fits
    <3>2. d.seen[o.id[2]] \in Nat /\ e.seen[o.id[2]] \in Nat
      BY <2>0, <1>1, DocFields
    <3>3. d.seen[o.id[2]] <= e.seen[o.id[2]]
      BY <2>0, <1>5
    <3> QED
      BY <2>0, <3>1, <3>2, <3>3
  <2> QED
    BY <2>1, <2>2 DEF Recorded
<1>8. ASSUME NEW x \in Authors
      PROVE  e.seen[x] = 0 \/ \E o \in K : o.id = <<e.seen[x], x>>
  <2>1. d.seen[x] = 0 \/ \E o \in K : o.id = <<d.seen[x], x>>
    BY DEF Fits
  <2> QED
    BY <2>1, <1>5
<1>9. e.buffer \subseteq {o \in K : o.type # "write"}
  BY DEF Recorded, Fits
<1>10. ASSUME NEW x \in Sites PROVE e.seen[x] <= e.counter
  <2>1. x \in Authors /\ d.seen[x] \in Nat /\ d.seen[x] <= d.counter
    BY <1>2 DEF Authors, Fits
  <2>2. e.counter = Greatest(d.counter, op.id[1])
    BY DEF Recorded
  <2> QED
    BY <2>1, <2>2, <1>2, <1>3 DEF Greatest
<1> QED
  BY <1>1, <1>4, <1>6, <1>7, <1>8, <1>9, <1>10 DEF Fits, Shows

\* Elements and tombstones that stay, and a register that does not sink, keep
\* every effect.
LEMMA EffectsStay ==
  ASSUME NEW d \in Doc, NEW e \in Doc,
         \A i \in DOMAIN d.nodes : \E j \in DOMAIN e.nodes :
            e.nodes[j].id = d.nodes[i].id /\ (d.nodes[i].deleted => e.nodes[j].deleted),
         ~IdGreater(d.attr, e.attr)
  PROVE  Ids(d) \subseteq Ids(e) /\ \A o \in Op : Effected(d, o) => Effected(e, o)
<1>1. Ids(d) \subseteq Ids(e)
  BY DEF Ids
<1>2. ASSUME NEW o \in Op, Effected(d, o) PROVE Effected(e, o)
  <2>1. CASE o.type = "ins"
    BY <1>1, <1>2, <2>1 DEF Effected
  <2>2. CASE o.type = "del"
    BY <1>2, <2>2 DEF Effected
  <2>3. CASE o.type = "write"
    <3>1. o.id \in Id /\ d.attr \in Id /\ e.attr \in Id
      BY OpFacts, DocFields
    <3>2. ~IdGreater(o.id, d.attr)
      BY <1>2, <2>3 DEF Effected
    <3>3. ~IdGreater(o.id, e.attr)
      BY <3>1, <3>2, IdOrder, IdTransitive
    <3> QED
      BY <3>3, <2>3 DEF Effected
  <2> QED
    BY <2>1, <2>2, <2>3, OpFacts
<1> QED
  BY <1>1, <1>2

\* An element that is shown has its operation in the log.
LEMMA IdsApplied ==
  ASSUME NEW K, NEW d, Fits(d, K)
  PROVE  Ids(d) \subseteq Applied(d)
<1> SUFFICES ASSUME NEW i \in DOMAIN d.nodes PROVE d.nodes[i].id \in Applied(d)
  BY DEF Ids
<1>1. Ins(d.nodes[i].id, d.nodes[i].origin) \in d.log
  BY DEF Fits
<1>2. Ins(d.nodes[i].id, d.nodes[i].origin).id = d.nodes[i].id
  BY DEF Ins
<1> QED
  BY <1>1, <1>2 DEF Applied

\* Inserting an element that is ready.
LEMMA TakeInsert ==
  ASSUME NEW K, Named(K), NEW d, Fits(d, K), NEW op \in K,
         op.type = "ins", Ready(d, op), op.id \notin Applied(d)
  PROVE  /\ Fits(Take(d, op), K)
         /\ Grows(d, Take(d, op), {op})
         /\ Take(d, op).buffer = d.buffer
         /\ op \in Take(d, op).log
<1> DEFINE n == [id |-> op.id, origin |-> op.ref, deleted |-> FALSE]
           p == IntegrateAt(d, op)
           M == InsertAt(d.nodes, p, n)
           e == Take(d, op)
<1>1. d \in Doc /\ op \in Op /\ Distinct(d.nodes) /\ Nearest(d.nodes)
  BY DEF Fits, Named
<1>2. d.nodes \in Seq(Node) /\ DOMAIN d.nodes = 1..Len(d.nodes) /\ Len(d.nodes) \in Nat
  BY <1>1, DocFields
<1>3. n \in Node
  <2>1. op.id[2] > 0
    BY DEF Named
  <2>2. op.id[1] \in Nat \ {0} /\ op.id[2] \in Sites /\ op.id = <<op.id[1], op.id[2]>> /\ op.ref \in Id
    BY <1>1, <2>1, OpFacts
  <2> QED
    BY <2>2 DEF Node
<1>4. Place(d.nodes, p, n.id, n.origin)
  BY <1>1, <1>2, ScanStops
<1>5. p \in 1..Len(d.nodes) + 1
  BY <1>4 DEF Place
<1> HIDE DEF p, n
<1>6. /\ M \in Seq(Node)
      /\ DOMAIN M = 1..Len(d.nodes) + 1
      /\ \A i \in 1..Len(d.nodes) + 1 :
            M[i] = IF i < p THEN d.nodes[i] ELSE IF i = p THEN n ELSE d.nodes[i - 1]
  <2>1. M \in [1..Len(d.nodes) + 1 -> Node]
    BY <1>2, <1>3, <1>5, InsertAtElements
  <2>2. M \in Seq(Node)
    BY <1>2, <1>3, <1>5, InsertAtElements
  <2>3. ASSUME NEW N \in Seq(Node), p \in 1..Len(N) + 1
        PROVE  \A i \in 1..Len(N) + 1 :
                  InsertAt(N, p, n)[i] = IF i < p THEN N[i] ELSE IF i = p THEN n ELSE N[i - 1]
    BY <2>3, <1>3, InsertAtElements
  <2>4. \A i \in 1..Len(d.nodes) + 1 :
            M[i] = IF i < p THEN d.nodes[i] ELSE IF i = p THEN n ELSE d.nodes[i - 1]
    BY <1>2, <1>5, <2>3, Zenon
  <2> HIDE DEF M
  <2> QED
    BY <2>1, <2>2, <2>4
<1>7. \A i \in DOMAIN d.nodes : d.nodes[i].id # n.id
  <2>1. op.id \notin Ids(d)
    BY IdsApplied
  <2> QED
    BY <2>1 DEF Ids, n
<1>8. Distinct(M) /\ Nearest(M)
  BY <1>1, <1>2, <1>3, <1>4, <1>7, InsertOrdered
<1> HIDE DEF M
<1>9. Integrate(d, op) = [d EXCEPT !.nodes = M]
  BY DEF Integrate, M, n, p
<1>10. Integrate(d, op) \in Doc
  BY <1>1, <1>6, <1>9 DEF Doc
<1>11. e = Record(Integrate(d, op), op)
  BY DEF Take
<1>12. Recorded(d, e, op) /\ e.nodes = M /\ e.attr = d.attr
  <2> DEFINE g == Integrate(d, op)
  <2>1. /\ g.nodes = M /\ g.buffer = d.buffer /\ g.log = d.log
        /\ g.counter = d.counter /\ g.seen = d.seen /\ g.attr = d.attr
    BY <1>1, <1>9 DEF Doc
  <2>2. g \in Doc
    BY <1>10
  <2> HIDE DEF g
  <2>3. /\ Record(g, op) \in Doc
        /\ Record(g, op).nodes = M /\ Record(g, op).attr = d.attr /\ Record(g, op).buffer = d.buffer
        /\ Record(g, op).log = d.log \cup {op}
        /\ Record(g, op).counter = Greatest(d.counter, op.id[1])
        /\ Record(g, op).seen = [d.seen EXCEPT ![op.id[2]] = Greatest(@, op.id[1])]
    BY <1>1, <2>1, <2>2, RecordFields
  <2> QED
    BY <1>11, <2>3 DEF Recorded, g
<1> HIDE DEF e
<1>13. \A i \in DOMAIN M : M[i] = n \/ \E j \in DOMAIN d.nodes : M[i] = d.nodes[j]
  <2> SUFFICES ASSUME NEW i \in 1..Len(d.nodes) + 1
               PROVE  M[i] = n \/ \E j \in 1..Len(d.nodes) : M[i] = d.nodes[j]
    BY <1>2, <1>6
  <2>1. CASE i < p
    <3>1. i \in 1..Len(d.nodes) /\ M[i] = d.nodes[i]
      BY <2>1, <1>2, <1>5, <1>6
    <3> QED
      BY <3>1
  <2>2. CASE ~(i < p) /\ i # p
    <3>1. i - 1 \in 1..Len(d.nodes) /\ M[i] = d.nodes[i - 1]
      BY <2>2, <1>2, <1>5, <1>6
    <3> QED
      BY <3>1
  <2> QED
    BY <2>1, <2>2, <1>6
<1>14. \A j \in DOMAIN d.nodes : \E i \in DOMAIN M : M[i] = d.nodes[j]
  <2> SUFFICES ASSUME NEW j \in 1..Len(d.nodes)
               PROVE  \E i \in 1..Len(d.nodes) + 1 : M[i] = d.nodes[j]
    BY <1>2, <1>6
  <2>1. CASE j < p
    BY <2>1, <1>2, <1>6
  <2>2. CASE ~(j < p)
    <3>1. j + 1 \in 1..Len(d.nodes) + 1 /\ ~(j + 1 < p) /\ j + 1 # p /\ (j + 1) - 1 = j
      BY <2>2, <1>2, <1>5
    <3>2. M[j + 1] = d.nodes[j]
      BY <3>1, <1>6
    <3> QED
      BY <3>1, <3>2
  <2> QED
    BY <2>1, <2>2
<1>15. M[p] = n /\ p \in DOMAIN M
  BY <1>5, <1>6, <1>2
<1>16. e \in Doc /\ e.log = d.log \cup {op} /\ e.counter = Greatest(d.counter, op.id[1])
         /\ d.counter \in Nat /\ op.id[1] \in Nat /\ e.buffer = d.buffer
  BY <1>1, <1>12, DocFields, OpFacts DEF Recorded
<1>17. Ids(d) \subseteq Ids(e) /\ \A o \in Op : Effected(d, o) => Effected(e, o)
  <2>1. ~IdGreater(d.attr, e.attr)
    BY <1>1, <1>12, DocFields, IdOrder
  <2>2. \A i \in DOMAIN d.nodes : \E j \in DOMAIN e.nodes :
           e.nodes[j].id = d.nodes[i].id /\ (d.nodes[i].deleted => e.nodes[j].deleted)
    BY <1>12, <1>14
  <2> QED
    BY <1>1, <1>16, <2>1, <2>2, EffectsStay
<1>18. Effected(e, op)
  <2>1. op.id \in Ids(e)
    BY <1>12, <1>15 DEF Ids, n
  <2> QED
    BY <2>1 DEF Effected
<1>19. Shows(e, K)
  <2>1. ASSUME NEW i \in DOMAIN M
        PROVE  /\ Ins(M[i].id, M[i].origin) \in e.log
               /\ M[i].id[1] <= e.counter
               /\ M[i].deleted => \E o \in K : o.type = "del" /\ o.ref = M[i].id
    <3>1. CASE M[i] = n
      <4>1. Ins(op.id, op.ref) = op
        BY <1>1 DEF Ins, Op
      <4>2. op.id[1] <= e.counter
        BY <1>16 DEF Greatest
      <4> QED
        BY <3>1, <4>1, <4>2, <1>16 DEF n
    <3>2. CASE \E j \in DOMAIN d.nodes : M[i] = d.nodes[j]
      <4>1. PICK j \in DOMAIN d.nodes : M[i] = d.nodes[j]
        BY <3>2
      <4>2. /\ Ins(d.nodes[j].id, d.nodes[j].origin) \in d.log
            /\ d.nodes[j].id[1] <= d.counter
            /\ d.nodes[j].deleted => \E o \in K : o.type = "del" /\ o.ref = d.nodes[j].id
        BY DEF Fits
      <4>3. d.nodes[j].id[1] \in Nat
        BY <1>2, NodeIds
      <4>4. d.nodes[j].id[1] <= e.counter
        BY <4>2, <4>3, <1>16 DEF Greatest
      <4> QED
        BY <4>1, <4>2, <4>4, <1>16
    <3> QED
      BY <3>1, <3>2, <1>13
  <2>2. d.attr = HEAD \/ \E o \in K : o.type = "write" /\ o.id = d.attr
    BY DEF Fits
  <2> QED
    BY <2>1, <2>2, <1>8, <1>12 DEF Shows
<1>20. Served(d) => Served(e)
  <2> SUFFICES ASSUME Served(d) PROVE Served(e)
    OBVIOUS
  <2>1. ASSUME NEW i \in DOMAIN M, M[i].deleted
        PROVE  \E o \in e.log : o.type = "del" /\ o.ref = M[i].id
    <3>1. PICK j \in DOMAIN d.nodes : M[i] = d.nodes[j]
      BY <2>1, <1>13 DEF n
    <3> QED
      BY <2>1, <3>1, <1>16 DEF Served
  <2> QED
    BY <2>1, <1>12, <1>16 DEF Served
<1>21. Fits(e, K) /\ Grows(d, e, {op})
  BY <1>12, <1>17, <1>18, <1>19, <1>20, RecordedFits
<1> QED
  BY <1>16, <1>21 DEF e

\* Deleting an element that is there.
LEMMA TakeDelete ==
  ASSUME NEW K, Named(K), NEW d, Fits(d, K), NEW op \in K, op.type = "del", Ready(d, op)
  PROVE  /\ Fits(Take(d, op), K)
         /\ Grows(d, Take(d, op), {op})
         /\ Take(d, op).buffer = d.buffer
         /\ op \in Take(d, op).log
         /\ Ids(Take(d, op)) = Ids(d)
<1> DEFINE p == IndexOf(d, op.ref)
           M == [d.nodes EXCEPT ![p].deleted = TRUE]
           g == Tombstone(d, op.ref)
           e == Take(d, op)
<1>1. d \in Doc /\ op \in Op /\ Distinct(d.nodes) /\ Nearest(d.nodes)
  BY DEF Fits, Named
<1>2. d.nodes \in Seq(Node) /\ DOMAIN d.nodes = 1..Len(d.nodes) /\ Len(d.nodes) \in Nat
  BY <1>1, DocFields
<1>3. op.ref \in Ids(d)
  BY DEF Named, Ready
<1>4. p \in DOMAIN d.nodes /\ d.nodes[p].id = op.ref
  BY <1>1, <1>3, IndexOfElement
<1> HIDE DEF p
<1>5. /\ M \in Seq(Node)
      /\ DOMAIN M = DOMAIN d.nodes
      /\ \A i \in DOMAIN d.nodes : /\ M[i].id = d.nodes[i].id
                                   /\ M[i].origin = d.nodes[i].origin
                                   /\ M[i].deleted = (d.nodes[i].deleted \/ i = p)
  <2>1. \A i \in DOMAIN d.nodes : d.nodes[i] \in Node
    BY <1>2
  <2>2. [d.nodes[p] EXCEPT !.deleted = TRUE] \in Node
    BY <1>4, <2>1 DEF Node
  <2>3. M = [d.nodes EXCEPT ![p] = [d.nodes[p] EXCEPT !.deleted = TRUE]]
    OBVIOUS
  <2>4. M \in [1..Len(d.nodes) -> Node]
    BY <1>2, <2>1, <2>2, <2>3
  <2>5. \A i \in DOMAIN d.nodes : M[i] = IF i = p THEN [d.nodes[p] EXCEPT !.deleted = TRUE] ELSE d.nodes[i]
    BY <2>3, <1>2
  <2>6. \A i \in DOMAIN d.nodes : /\ M[i].id = d.nodes[i].id
                                  /\ M[i].origin = d.nodes[i].origin
                                  /\ M[i].deleted = (d.nodes[i].deleted \/ i = p)
    BY <2>1, <2>5, <1>4 DEF Node
  <2> HIDE DEF M
  <2> QED
    BY <2>4, <2>6, <1>2
<1>6. g = [d EXCEPT !.nodes = M]
  BY DEF Tombstone, p
<1> HIDE DEF M, g
<1>7. /\ g \in Doc /\ g.nodes = M /\ g.buffer = d.buffer /\ g.log = d.log
      /\ g.counter = d.counter /\ g.seen = d.seen /\ g.attr = d.attr
  BY <1>1, <1>5, <1>6 DEF Doc
<1>8. e = Record(g, op)
  BY DEF Take, g
<1>9. Recorded(d, e, op) /\ e.nodes = M /\ e.attr = d.attr
  BY <1>1, <1>7, <1>8, RecordFields DEF Recorded
<1> HIDE DEF e
<1>10. e \in Doc /\ e.log = d.log \cup {op} /\ e.counter = Greatest(d.counter, op.id[1])
         /\ d.counter \in Nat /\ op.id[1] \in Nat /\ e.buffer = d.buffer
  BY <1>1, <1>9, DocFields, OpFacts DEF Recorded
<1>11. Ids(d) \subseteq Ids(e) /\ \A o \in Op : Effected(d, o) => Effected(e, o)
  <2>1. ~IdGreater(d.attr, e.attr)
    BY <1>1, <1>9, DocFields, IdOrder
  <2>2. \A i \in DOMAIN d.nodes : \E j \in DOMAIN e.nodes :
           e.nodes[j].id = d.nodes[i].id /\ (d.nodes[i].deleted => e.nodes[j].deleted)
    BY <1>9, <1>5
  <2> QED
    BY <1>1, <1>10, <2>1, <2>2, EffectsStay
<1>12. Ids(e) = Ids(d)
  BY <1>5, <1>9 DEF Ids
<1>13. Effected(e, op)
  <2>1. e.nodes[p].id = op.ref /\ e.nodes[p].deleted /\ p \in DOMAIN e.nodes
    BY <1>4, <1>5, <1>9
  <2> QED
    BY <2>1 DEF Effected
<1>14. Shows(e, K)
  <2>1. Distinct(M)
    BY <1>1, <1>5 DEF Distinct
  <2>2. Nearest(M)
    <3> SUFFICES ASSUME NEW i \in DOMAIN M
                 PROVE  \E f \in 0..i - 1 :
                          /\ M[i].origin = IF f = 0 THEN HEAD ELSE M[f].id
                          /\ \A j \in f + 1..i - 1 : IdGreater(M[j].id, M[i].id)
      BY DEF Nearest
    <3>1. PICK f \in 0..i - 1 :
             /\ d.nodes[i].origin = IF f = 0 THEN HEAD ELSE d.nodes[f].id
             /\ \A j \in f + 1..i - 1 : IdGreater(d.nodes[j].id, d.nodes[i].id)
      BY <1>1, <1>5 DEF Nearest
    <3>2. i \in 1..Len(d.nodes)
      BY <1>2, <1>5
    <3>3. \A j \in 1..i - 1 : j \in DOMAIN d.nodes
      BY <3>2, <1>2
    <3>4. f # 0 => f \in DOMAIN d.nodes
      BY <3>1, <3>2, <3>3
    <3>5. M[i].origin = IF f = 0 THEN HEAD ELSE M[f].id
      BY <1>5, <3>1, <3>4
    <3>6. ASSUME NEW j \in f + 1..i - 1 PROVE IdGreater(M[j].id, M[i].id)
      <4>1. j \in DOMAIN d.nodes
        BY <3>1, <3>2, <3>3
      <4> QED
        BY <4>1, <3>1, <1>5
    <3> QED
      BY <3>5, <3>6
  <2>3. ASSUME NEW i \in DOMAIN M
        PROVE  /\ Ins(M[i].id, M[i].origin) \in e.log
               /\ M[i].id[1] <= e.counter
               /\ M[i].deleted => \E o \in K : o.type = "del" /\ o.ref = M[i].id
    <3>1. /\ Ins(d.nodes[i].id, d.nodes[i].origin) \in d.log
          /\ d.nodes[i].id[1] <= d.counter
          /\ d.nodes[i].deleted => \E o \in K : o.type = "del" /\ o.ref = d.nodes[i].id
      BY <1>5 DEF Fits
    <3>2. d.nodes[i].id[1] \in Nat
      BY <1>2, <1>5, NodeIds
    <3>3. d.nodes[i].id[1] <= e.counter
      BY <3>1, <3>2, <1>10 DEF Greatest
    <3> QED
      BY <3>1, <3>3, <1>4, <1>5, <1>10
  <2>4. d.attr = HEAD \/ \E o \in K : o.type = "write" /\ o.id = d.attr
    BY DEF Fits
  <2> QED
    BY <2>1, <2>2, <2>3, <2>4, <1>9 DEF Shows
<1>15. Served(d) => Served(e)
  <2> SUFFICES ASSUME Served(d) PROVE Served(e)
    OBVIOUS
  <2>1. ASSUME NEW i \in DOMAIN M, M[i].deleted
        PROVE  \E o \in e.log : o.type = "del" /\ o.ref = M[i].id
    BY <2>1, <1>4, <1>5, <1>10 DEF Served
  <2> QED
    BY <2>1, <1>9, <1>10 DEF Served
<1>16. Fits(e, K) /\ Grows(d, e, {op})
  BY <1>9, <1>11, <1>13, <1>14, <1>15, RecordedFits
<1> QED
  BY <1>10, <1>12, <1>16 DEF e

\* Writing the register.
LEMMA TakeWrite ==
  ASSUME NEW K, Named(K), NEW d, Fits(d, K), NEW op \in K, op.type = "write",
         NEW e, e = Record(WriteRegister(d, op), op)
  PROVE  /\ Fits(e, K)
         /\ Grows(d, e, {op})
         /\ e.buffer = d.buffer
         /\ op \in e.log
         /\ Ids(e) = Ids(d)
<1> DEFINE v == IF IdGreater(op.id, d.attr) THEN op.id ELSE d.attr
           g == WriteRegister(d, op)
<1>1. d \in Doc /\ op \in Op /\ d.attr \in Id /\ op.id \in Id
  BY OpFacts, DocFields DEF Fits, Named
<1>2. v \in Id /\ ~IdGreater(d.attr, v) /\ ~IdGreater(op.id, v)
  BY <1>1, IdOrder
<1>3. g = [d EXCEPT !.attr = v]
  BY DEF WriteRegister
<1> HIDE DEF g, v
<1>4. /\ g \in Doc /\ g.nodes = d.nodes /\ g.buffer = d.buffer /\ g.log = d.log
      /\ g.counter = d.counter /\ g.seen = d.seen /\ g.attr = v
  BY <1>1, <1>2, <1>3 DEF Doc
<1>5. Recorded(d, e, op) /\ e.nodes = d.nodes /\ e.attr = v
  BY <1>1, <1>4, RecordFields DEF Recorded, g
<1>6. e \in Doc /\ e.log = d.log \cup {op} /\ e.counter = Greatest(d.counter, op.id[1])
         /\ d.counter \in Nat /\ op.id[1] \in Nat /\ e.buffer = d.buffer
  BY <1>1, <1>5, DocFields, OpFacts DEF Recorded
<1>7. Ids(e) = Ids(d)
  BY <1>5 DEF Ids
<1>8. \A o \in Op : Effected(d, o) => Effected(e, o)
  BY <1>1, <1>2, <1>5, <1>6, EffectsStay
<1>9. Effected(e, op)
  BY <1>2, <1>5 DEF Effected
<1>10. Shows(e, K)
  <2>1. ASSUME NEW i \in DOMAIN d.nodes
        PROVE  Ins(d.nodes[i].id, d.nodes[i].origin) \in e.log /\ d.nodes[i].id[1] <= e.counter
    <3>1. Ins(d.nodes[i].id, d.nodes[i].origin) \in d.log /\ d.nodes[i].id[1] <= d.counter
      BY DEF Fits
    <3>2. d.nodes[i] \in Node
      BY <1>1, DocFields
    <3>3. d.nodes[i].id[1] \in Nat
      BY <3>2, NodeIds
    <3> QED
      BY <3>1, <3>3, <1>6 DEF Greatest
  <2>2. v = HEAD \/ \E o \in K : o.type = "write" /\ o.id = v
    BY DEF Fits, v
  <2> QED
    BY <2>1, <2>2, <1>5 DEF Shows, Fits
<1>11. Served(d) => Served(e)
  BY <1>5, <1>6 DEF Served, v
<1> QED
  BY <1>5, <1>6, <1>7, <1>8, <1>9, <1>10, <1>11, RecordedFits

-----------------------------------------------------------------------------
(* Draining the buffer. *)

WithBuffer(d, B) == [d EXCEPT !.buffer = B]

\* What is shown does not depend on the buffer.
LEMMA Rebuffer ==
  ASSUME NEW K, Named(K), NEW d, Fits(d, K), NEW B, B \subseteq {op \in K : op.type # "write"},
         NEW r, r = WithBuffer(d, B)
  PROVE  /\ Fits(r, K)
         /\ r.buffer = B /\ r.log = d.log /\ r.counter = d.counter /\ r.seen = d.seen
         /\ r.nodes = d.nodes
         /\ Ids(r) = Ids(d)
         /\ Served(r) <=> Served(d)
         /\ \A op \in Op : Effected(r, op) <=> Effected(d, op)
         /\ \A op : Ready(r, op) <=> Ready(d, op)
         /\ Applied(r) = Applied(d)
<1>1. d \in Doc /\ B \subseteq Op
  BY DEF Fits, Named
<1>2. /\ r \in Doc /\ r.buffer = B /\ r.log = d.log /\ r.counter = d.counter
      /\ r.seen = d.seen /\ r.nodes = d.nodes /\ r.attr = d.attr
  BY <1>1 DEF Doc, WithBuffer
<1>3. Ids(r) = Ids(d) /\ Applied(r) = Applied(d)
  BY <1>2 DEF Ids, Applied
<1>4. Served(r) <=> Served(d)
  BY <1>2 DEF Served
<1>5. \A op \in Op : Effected(r, op) <=> Effected(d, op)
  BY <1>2, <1>3, OpFacts DEF Effected
<1>6. \A op : Ready(r, op) <=> Ready(d, op)
  BY <1>3 DEF Ready
<1>7. \A op \in r.log : Effected(r, op) /\ op.id[1] <= r.seen[op.id[2]]
  BY <1>1, <1>2, <1>5 DEF Fits, Doc
<1>8. Fits(r, K)
  BY <1>2, <1>7 DEF Fits
<1> QED
  BY <1>2, <1>3, <1>4, <1>5, <1>6, <1>8

\* A known operation with the id of an applied one is in the log.
LEMMA AppliedLogged ==
  ASSUME NEW K, Named(K), NEW d, Fits(d, K), NEW op \in K, op.id \in Applied(d)
  PROVE  op \in d.log
<1>1. PICK o \in d.log : o.id = op.id
  BY DEF Applied
<1>2. o \in K
  BY DEF Fits
<1> QED
  BY <1>1, <1>2 DEF Named

\* One round of the loop.
LEMMA DrainOneStep ==
  ASSUME NEW K, Named(K), NEW d, Fits(d, K)
  PROVE  /\ Fits(DrainOne(d), K)
         /\ Grows(d, DrainOne(d), {})
         /\ \/ Settled(d) /\ DrainOne(d) = d
            \/ \E op \in d.buffer : DrainOne(d).buffer = d.buffer \ {op}
<1> DEFINE e == DrainOne(d)
<1>0. d \in Doc /\ K \subseteq Op
  BY DEF Fits, Named
<1>1. CASE ~\E op \in d.buffer : Ready(d, op)
  <2>1. e = d /\ Settled(d)
    BY <1>1 DEF DrainOne, Settled
  <2> QED
    BY <2>1, <1>0, GrowsStill
<1>2. CASE \E op \in d.buffer : Ready(d, op)
  <2> DEFINE op == CHOOSE o \in d.buffer : Ready(d, o)
             r == [d EXCEPT !.buffer = @ \ {op}]
  <2>1. op \in d.buffer /\ Ready(d, op)
    BY <1>2
  <2>2. e = IF op.id \in Applied(d) THEN r ELSE Take(r, op)
    BY <1>2 DEF DrainOne
  <2> HIDE DEF op
  <2>3. r = [d EXCEPT !.buffer = d.buffer \ {op}]
    OBVIOUS
  <2> HIDE DEF r, e
  <2>4. op \in K /\ op \in Op /\ op.type \in {"ins", "del"} /\ d.buffer \ {op} \subseteq {o \in K : o.type # "write"}
    BY <2>1, <1>0, OpFacts DEF Fits
  <2>5. /\ Fits(r, K)
        /\ r.buffer = d.buffer \ {op} /\ r.log = d.log /\ r.counter = d.counter /\ r.seen = d.seen
        /\ Ids(r) = Ids(d)
        /\ Served(r) <=> Served(d)
        /\ \A o \in Op : Effected(r, o) <=> Effected(d, o)
        /\ Ready(r, op)
        /\ Applied(r) = Applied(d)
    <3> DEFINE B == d.buffer \ {op}
    <3>1. B \subseteq {o \in K : o.type # "write"} /\ r = WithBuffer(d, B)
      BY <2>3, <2>4 DEF WithBuffer
    <3> HIDE DEF B
    <3>2. /\ Fits(r, K)
          /\ r.buffer = B /\ r.log = d.log /\ r.counter = d.counter /\ r.seen = d.seen
          /\ Ids(r) = Ids(d)
          /\ Served(r) <=> Served(d)
          /\ \A o \in Op : Effected(r, o) <=> Effected(d, o)
          /\ \A o : Ready(r, o) <=> Ready(d, o)
          /\ Applied(r) = Applied(d)
      BY <3>1, Rebuffer
    <3> QED
      BY <2>1, <3>2 DEF B
  <2>6. CASE op.id \in Applied(d)
    <3>1. op \in d.log
      BY <2>4, <2>6, AppliedLogged
    <3>2. Grows(d, r, {})
      <4>1. r.log \cup r.buffer = d.log \cup d.buffer \cup {}
        BY <2>5, <3>1
      <4>2. d.counter \in Nat /\ \A x \in Authors : d.seen[x] \in Nat
        BY <1>0, DocFields
      <4> QED
        BY <2>5, <4>1, <4>2 DEF Grows
    <3> QED
      BY <2>1, <2>2, <2>5, <2>6, <3>2 DEF e
  <2>7. CASE op.id \notin Applied(d)
    <3>1. Fits(e, K) /\ Grows(r, e, {op}) /\ e.buffer = r.buffer /\ op \in e.log
      BY <2>2, <2>4, <2>5, <2>7, TakeInsert, TakeDelete
    <3>2. Grows(d, e, {})
      <4>1. e.log \cup e.buffer = d.log \cup d.buffer \cup {}
        BY <2>1, <2>5, <3>1 DEF Grows
      <4> QED
        BY <2>5, <3>1, <4>1 DEF Grows
    <3> QED
      BY <2>1, <2>5, <3>1, <3>2 DEF e
  <2> QED
    BY <2>6, <2>7
<1> QED
  BY <1>1, <1>2

IsDrain(run, d, K, n) == /\ run[0] = d
                         /\ \A k \in 0..n : Fits(run[k], K)
                         /\ \A k \in 1..n : run[k] = DrainOne(run[k - 1])

Rounds(d, n) == Iterate(DrainOne, d, n)

\* The rounds of the loop as a function.
LEMMA DrainRun ==
  ASSUME NEW K, Named(K), NEW d, Fits(d, K), NEW n \in Nat
  PROVE  \E run : IsDrain(run, d, K, n) /\ Rounds(d, n) = run[n]
<1> DEFINE D == {e \in Doc : Fits(e, K)}
           F == [e \in D |-> DrainOne(e)]
           G(g) == [k \in 0..n |-> IF k = 0 THEN d ELSE DrainOne(g[k - 1])]
<1>1. d \in D /\ F \in [D -> D]
  <2>0. \A e : Fits(e, K) => e \in Doc
    BY DEF Fits
  <2>1. \A e \in D : DrainOne(e) \in D
    BY <2>0, DrainOneStep
  <2>2. d \in D
    BY DEF Fits
  <2> HIDE DEF D
  <2> QED
    BY <2>1, <2>2
<1>2. PICK g : g \in [0..n -> D] /\ g[0] = d /\ \A k \in 1..n : g[k] = F[g[k - 1]]
  <2> HIDE DEF D, F
  <2>1. \E g : IsRun(g, D, F, d, n)
    BY <1>1, RunExists
  <2> QED
    BY <2>1 DEF IsRun
<1>3. \A k \in 1..n : g[k - 1] \in D /\ g[k] = DrainOne(g[k - 1])
  <2> HIDE DEF D
  <2> SUFFICES ASSUME NEW k \in 1..n
               PROVE  g[k - 1] \in D /\ g[k] = DrainOne(g[k - 1])
    OBVIOUS
  <2>1. k - 1 \in 0..n
    OBVIOUS
  <2>2. g[k - 1] \in D
    BY <2>1, <1>2
  <2> QED
    BY <1>2, <2>2
<1>4. g = G(g)
  <2> HIDE DEF D
  <2>1. ASSUME NEW k \in 0..n PROVE g[k] = IF k = 0 THEN d ELSE DrainOne(g[k - 1])
    BY <1>2, <1>3
  <2> QED
    BY <1>2, <2>1
<1> DEFINE run == CHOOSE h : h = G(h)
<1>5. run = G(run)
  BY <1>4, Zenon
<1>6. Rounds(d, n) = run[n]
  BY DEF Rounds, Iterate
<1> HIDE DEF run
<1>7. run[0] = d /\ \A k \in 1..n : run[k] = DrainOne(run[k - 1])
  BY <1>5
<1>8. \A k \in 0..n : k \in {j \in 0..n : Fits(run[j], K)}
  <2> DEFINE S == {j \in 0..n : Fits(run[j], K)}
  <2>1. 0 \in S
    BY <1>7
  <2>2. ASSUME NEW k \in 1..n, k - 1 \in S PROVE k \in S
    BY <2>2, <1>7, DrainOneStep
  <2> HIDE DEF S
  <2>3. \A k \in 0..n : k \in S
    BY <2>1, <2>2, UpTo
  <2> QED
    BY <2>3 DEF S
<1> QED
  BY <1>6, <1>7, <1>8 DEF IsDrain

\* The loop ends with nothing ready: it has as many rounds as there are
\* buffered operations, and each takes one.
LEMMA DrainEffect ==
  ASSUME NEW K, Named(K), NEW d, Fits(d, K)
  PROVE  Fits(Drain(d), K) /\ Grows(d, Drain(d), {}) /\ Settled(Drain(d))
<1> DEFINE n == Cardinality(d.buffer)
<1>1. IsFiniteSet(d.buffer) /\ n \in Nat
  <2>1. IsFiniteSet(d.buffer)
    BY FS_Subset DEF Fits, Named
  <2> QED
    BY <2>1, FS_CardinalityType
<1> HIDE DEF n
<1>2. PICK run : /\ run[0] = d
                 /\ \A k \in 0..n : Fits(run[k], K)
                 /\ \A k \in 1..n : run[k] = DrainOne(run[k - 1])
                 /\ Rounds(d, n) = run[n]
  <2>1. \E run : IsDrain(run, d, K, n) /\ Rounds(d, n) = run[n]
    BY <1>1, DrainRun
  <2> QED
    BY <2>1 DEF IsDrain
<1> DEFINE Left(k) == IsFiniteSet(run[k].buffer) /\ Cardinality(run[k].buffer) = n - k
           S == {k \in 0..n : Grows(d, run[k], {}) /\ (Settled(run[k]) \/ Left(k))}
<1>3. d \in Doc /\ \A k \in 0..n : run[k] \in Doc
  BY <1>2 DEF Fits
<1>4. 0 \in S
  BY <1>1, <1>2, <1>3, GrowsStill DEF n
<1>5. ASSUME NEW k \in 1..n, k - 1 \in S PROVE k \in S
  <2> DEFINE c == run[k - 1]
             e == run[k]
  <2>1. k - 1 \in 0..n /\ k \in 0..n /\ e = DrainOne(c) /\ Fits(c, K) /\ c \in Doc /\ e \in Doc
    BY <1>1, <1>2, <1>3
  <2>2. Grows(d, c, {}) /\ (Settled(c) \/ Left(k - 1))
    BY <1>5
  <2> HIDE DEF c, e
  <2>3. /\ Grows(c, e, {})
        /\ \/ Settled(c) /\ e = c
           \/ \E op \in c.buffer : e.buffer = c.buffer \ {op}
    BY <2>1, DrainOneStep
  <2>4. Grows(d, e, {})
    <3>1. Grows(d, e, {} \cup {})
      BY <1>3, <2>1, <2>2, <2>3, GrowsOn
    <3> QED
      BY <3>1
  <2>5. Settled(c) => e = c
    BY <2>1 DEF DrainOne, Settled
  <2>6. ASSUME ~Settled(c) PROVE Left(k)
    <3>1. PICK op \in c.buffer : e.buffer = c.buffer \ {op}
      BY <2>3, <2>6
    <3>2. IsFiniteSet(c.buffer) /\ Cardinality(c.buffer) = n - (k - 1)
      BY <2>2, <2>6 DEF c
    <3>3. IsFiniteSet(e.buffer) /\ Cardinality(e.buffer) = Cardinality(c.buffer) - 1
      BY <3>1, <3>2, FS_RemoveElement
    <3>4. Cardinality(e.buffer) = n - k
      BY <3>2, <3>3, <1>1
    <3> QED
      BY <3>3, <3>4 DEF e
  <2> HIDE DEF Left
  <2>7. Settled(e) \/ Left(k)
    BY <2>5, <2>6
  <2> QED
    BY <2>1, <2>4, <2>7 DEF e
<1>6. n \in S
  <2> HIDE DEF S
  <2> QED
    BY <1>1, <1>4, <1>5, UpTo
<1>7. Drain(d) = run[n]
  <2>1. Drain(d) = Rounds(d, n)
    BY DEF Drain, Rounds, Iterate, n
  <2> QED
    BY <1>2, <2>1
<1>8. Settled(run[n])
  <2>1. CASE Left(n)
    <3>1. run[n].buffer = {}
      BY <2>1, <1>1, FS_EmptySet
    <3> QED
      BY <3>1 DEF Settled
  <2> QED
    BY <2>1, <1>6
<1> QED
  BY <1>1, <1>2, <1>6, <1>7, <1>8

-----------------------------------------------------------------------------
(* Applying one operation, and many. *)

\* A replica that receives an operation shows it or keeps it for later.
LEMMA ApplyEffect ==
  ASSUME NEW K, Named(K), NEW d, Fits(d, K), Settled(d), NEW op \in K
  PROVE  /\ Fits(Apply(d, op), K)
         /\ Settled(Apply(d, op))
         /\ Grows(d, Apply(d, op), {op})
         /\ op.type = "write" \/ Ready(d, op) => op \in Apply(d, op).log
<1> DEFINE e == Apply(d, op)
<1>0. d \in Doc /\ op \in Op /\ op.type \in {"ins", "del", "write"}
  BY OpFacts DEF Fits, Named
<1>1. CASE op.id \in Applied(d)
  <2>1. e = d /\ op \in d.log
    BY <1>1, AppliedLogged DEF Apply
  <2>2. Grows(d, d, {op})
    BY <2>1, <1>0, GrowsStill DEF Grows
  <2> QED
    BY <2>1, <2>2
<1>2. CASE op.id \notin Applied(d) /\ op.type = "write"
  <2>1. e = Record(WriteRegister(d, op), op)
    BY <1>2 DEF Apply
  <2>2. /\ Fits(e, K) /\ Grows(d, e, {op}) /\ e.buffer = d.buffer
        /\ op \in e.log /\ Ids(e) = Ids(d)
    BY <1>2, <2>1, TakeWrite
  <2>3. Settled(e)
    BY <2>2 DEF Settled, Ready
  <2> QED
    BY <2>2, <2>3
<1>3. CASE op.id \notin Applied(d) /\ op.type # "write" /\ ~Ready(d, op)
  <2> DEFINE B == d.buffer \cup {op}
  <2>1. e = WithBuffer(d, B)
    BY <1>3 DEF Apply, WithBuffer
  <2>2. B \subseteq {o \in K : o.type # "write"}
    BY <1>3 DEF Fits
  <2> HIDE DEF e, B
  <2>3. /\ Fits(e, K)
        /\ e.buffer = B /\ e.log = d.log /\ e.counter = d.counter /\ e.seen = d.seen
        /\ Ids(e) = Ids(d)
        /\ Served(e) <=> Served(d)
        /\ \A o \in Op : Effected(e, o) <=> Effected(d, o)
        /\ \A o : Ready(e, o) <=> Ready(d, o)
    BY <2>1, <2>2, Rebuffer
  <2>4. Settled(e)
    BY <2>3, <1>3 DEF Settled, B
  <2>5. Grows(d, e, {op})
    <3>1. d.counter \in Nat /\ \A x \in Authors : d.seen[x] \in Nat
      BY <1>0, DocFields
    <3> QED
      BY <2>3, <3>1 DEF Grows, B
  <2> QED
    BY <1>3, <2>3, <2>4, <2>5 DEF e
<1>4. CASE op.id \notin Applied(d) /\ op.type = "ins" /\ Ready(d, op)
  <2> DEFINE t == Take(d, op)
  <2>1. e = Drain(t)
    BY <1>4 DEF Apply
  <2>2. Fits(t, K) /\ Grows(d, t, {op}) /\ op \in t.log
    BY <1>4, TakeInsert
  <2> HIDE DEF t, e
  <2>3. Fits(e, K) /\ Grows(t, e, {}) /\ Settled(e)
    BY <2>1, <2>2, DrainEffect
  <2>4. Grows(d, e, {op})
    <3>1. t \in Doc /\ e \in Doc
      BY <2>2, <2>3 DEF Fits
    <3>2. Grows(d, e, {op} \cup {})
      BY <1>0, <2>2, <2>3, <3>1, GrowsOn
    <3> QED
      BY <3>2
  <2>5. op \in e.log
    BY <2>2, <2>3 DEF Grows
  <2> QED
    BY <2>3, <2>4, <2>5 DEF e
<1>5. CASE op.id \notin Applied(d) /\ op.type = "del" /\ Ready(d, op)
  <2>1. e = Take(d, op)
    BY <1>5 DEF Apply
  <2>2. /\ Fits(e, K) /\ Grows(d, e, {op}) /\ e.buffer = d.buffer
        /\ op \in e.log /\ Ids(e) = Ids(d)
    BY <1>5, <2>1, TakeDelete
  <2>3. Settled(e)
    BY <2>2 DEF Settled, Ready
  <2> QED
    BY <2>2, <2>3
<1> QED
  BY <1>0, <1>1, <1>2, <1>3, <1>4, <1>5

\* After k of the operations ops have been applied to d.
Batched(d, ops, K, b, k) ==
  /\ Fits(b.doc, K) /\ Settled(b.doc)
  /\ b.left \subseteq ops
  /\ IsFiniteSet(b.left) /\ Cardinality(b.left) = Cardinality(ops) - k
  /\ Grows(d, b.doc, ops \ b.left)

\* One more of them.
LEMMA ApplyNextStep ==
  ASSUME NEW K, Named(K), NEW d \in Doc, NEW ops, ops \subseteq K, IsFiniteSet(ops),
         NEW b, NEW k \in 1..Cardinality(ops), Batched(d, ops, K, b, k - 1)
  PROVE  b.left # {} /\ Batched(d, ops, K, ApplyNext(b), k)
<1> DEFINE n == Cardinality(ops)
           op == CHOOSE o \in b.left : TRUE
           c == ApplyNext(b)
<1>1. n \in Nat
  BY FS_CardinalityType
<1>2. /\ Fits(b.doc, K) /\ Settled(b.doc) /\ b.left \subseteq ops /\ IsFiniteSet(b.left)
      /\ Cardinality(b.left) = n - (k - 1) /\ Grows(d, b.doc, ops \ b.left)
  BY DEF Batched
<1>3. b.left # {}
  BY <1>1, <1>2, FS_EmptySet
<1>4. op \in b.left
  BY <1>3
<1>5. c.doc = Apply(b.doc, op) /\ c.left = b.left \ {op}
  BY DEF ApplyNext
<1> HIDE DEF op, c
<1>6. op \in K
  BY <1>2, <1>4
<1>7. Fits(c.doc, K) /\ Settled(c.doc) /\ Grows(b.doc, c.doc, {op})
  BY <1>2, <1>5, <1>6, ApplyEffect
<1>8. IsFiniteSet(c.left) /\ Cardinality(c.left) = Cardinality(b.left) - 1
  BY <1>2, <1>4, <1>5, FS_RemoveElement
<1>9. Cardinality(c.left) = n - k
  BY <1>1, <1>2, <1>8
<1>10. Grows(d, c.doc, ops \ c.left)
  <2>1. b.doc \in Doc /\ c.doc \in Doc
    BY <1>2, <1>7 DEF Fits
  <2>2. Grows(d, c.doc, (ops \ b.left) \cup {op})
    BY <2>1, <1>2, <1>7, GrowsOn
  <2>3. (ops \ b.left) \cup {op} = ops \ c.left
    BY <1>2, <1>4, <1>5
  <2> QED
    BY <2>2, <2>3
<1>11. c.left \subseteq ops
  BY <1>2, <1>5
<1>12. Batched(d, ops, K, c, k)
  BY <1>7, <1>8, <1>9, <1>10, <1>11 DEF Batched
<1> QED
  BY <1>3, <1>12 DEF c

\* All of them, one after the other.
LEMMA BatchRun ==
  ASSUME NEW K, Named(K), NEW d, Fits(d, K), Settled(d),
         NEW ops, ops \subseteq K, IsFiniteSet(ops), NEW run,
         run[0] = [doc |-> d, left |-> ops],
         \A k \in 1..Cardinality(ops) :
            run[k - 1].left # {} => run[k] = ApplyNext(run[k - 1])
  PROVE  \A k \in 0..Cardinality(ops) : Batched(d, ops, K, run[k], k)
<1> DEFINE n == Cardinality(ops)
           S == {k \in 0..n : Batched(d, ops, K, run[k], k)}
<1>1. n \in Nat /\ d \in Doc
  BY FS_CardinalityType DEF Fits
<1>2. 0 \in S
  <2>1. ops \ ops = {} /\ Grows(d, d, {})
    BY <1>1, GrowsStill
  <2>2. run[0].doc = d /\ run[0].left = ops
    OBVIOUS
  <2>3. Cardinality(ops) = n - 0
    BY <1>1
  <2>4. Batched(d, ops, K, run[0], 0)
    BY <2>1, <2>2, <2>3 DEF Batched
  <2> QED
    BY <1>1, <2>4
<1>3. ASSUME NEW k \in 1..n, k - 1 \in S PROVE k \in S
  <2>1. Batched(d, ops, K, run[k - 1], k - 1)
    BY <1>3
  <2>2. run[k - 1].left # {} /\ Batched(d, ops, K, ApplyNext(run[k - 1]), k)
    BY <1>1, <2>1, ApplyNextStep
  <2> QED
    BY <1>1, <2>2
<1> HIDE DEF S
<1>4. \A k \in 0..n : k \in S
  BY <1>1, <1>2, <1>3, UpTo
<1> QED
  BY <1>4 DEF S

\* A batch does to a replica what its operations do one by one.
LEMMA ApplyManyEffect ==
  ASSUME NEW K, Named(K), NEW d, Fits(d, K), Settled(d), NEW ops, ops \subseteq K
  PROVE  /\ Fits(ApplyMany(d, ops), K)
         /\ Settled(ApplyMany(d, ops))
         /\ Grows(d, ApplyMany(d, ops), ops)
<1> DEFINE n == Cardinality(ops)
           x == [doc |-> d, left |-> ops]
           D == {b \in [doc : Doc, left : SUBSET ops] : Fits(b.doc, K) /\ Settled(b.doc)}
           F == [b \in D |-> IF b.left = {} THEN b ELSE ApplyNext(b)]
           G(g) == [k \in 0..n |-> IF k = 0 THEN x ELSE ApplyNext(g[k - 1])]
<1>1. IsFiniteSet(ops) /\ n \in Nat
  <2>1. IsFiniteSet(ops)
    BY FS_Subset DEF Named
  <2> QED
    BY <2>1, FS_CardinalityType
<1> HIDE DEF n
<1>2. x \in D /\ F \in [D -> D]
  <2>1. x \in D
    BY DEF Fits
  <2>2. ASSUME NEW b \in D, b.left # {} PROVE ApplyNext(b) \in D
    <3> DEFINE op == CHOOSE o \in b.left : TRUE
    <3>1. op \in b.left
      BY <2>2
    <3>2. ApplyNext(b) = [doc |-> Apply(b.doc, op), left |-> b.left \ {op}]
      BY DEF ApplyNext
    <3> HIDE DEF op
    <3>3. op \in K /\ b.left \ {op} \in SUBSET ops /\ Fits(b.doc, K) /\ Settled(b.doc)
      BY <3>1
    <3>4. Fits(Apply(b.doc, op), K) /\ Settled(Apply(b.doc, op))
      BY <3>3, ApplyEffect
    <3>5. Apply(b.doc, op) \in Doc
      BY <3>4 DEF Fits
    <3> QED
      BY <3>2, <3>3, <3>4, <3>5
  <2> HIDE DEF D, x
  <2> QED
    BY <2>1, <2>2
<1>3. PICK g : g \in [0..n -> D] /\ g[0] = x /\ \A k \in 1..n : g[k] = F[g[k - 1]]
  <2> HIDE DEF D, F, x
  <2>1. \E g : IsRun(g, D, F, x, n)
    BY <1>1, <1>2, RunExists
  <2> QED
    BY <2>1 DEF IsRun
<1>4. \A k \in 1..n : g[k - 1].left # {} => g[k] = ApplyNext(g[k - 1])
  <2> HIDE DEF D, x
  <2> SUFFICES ASSUME NEW k \in 1..n, g[k - 1].left # {}
               PROVE  g[k] = ApplyNext(g[k - 1])
    OBVIOUS
  <2>1. k - 1 \in 0..n
    BY <1>1
  <2>2. g[k - 1] \in D
    BY <2>1, <1>3
  <2> QED
    BY <1>3, <2>2
<1>5. \A k \in 0..n : Batched(d, ops, K, g[k], k)
  <2> HIDE DEF D, F
  <2> QED
    BY <1>1, <1>3, <1>4, BatchRun DEF n
<1>6. g = G(g)
  <2> HIDE DEF D, F, x
  <2>1. ASSUME NEW k \in 1..n PROVE g[k] = ApplyNext(g[k - 1])
    <3>1. k - 1 \in 0..n
      BY <1>1
    <3>2. Batched(d, ops, K, g[k - 1], k - 1)
      BY <3>1, <1>5
    <3>3. g[k - 1].left # {}
      BY <1>1, <3>2, ApplyNextStep DEF n, Fits
    <3> QED
      BY <1>4, <3>3
  <2> QED
    BY <1>1, <1>3, <2>1
<1> DEFINE run == CHOOSE h : h = G(h)
<1>7. run = G(run)
  BY <1>6, Zenon
<1>8. ApplyMany(d, ops) = run[n].doc
  BY DEF ApplyMany, Iterate, n
<1> HIDE DEF run
<1>9. run[0] = x /\ \A k \in 1..n : run[k] = ApplyNext(run[k - 1])
  <2> HIDE DEF x
  <2> QED
    BY <1>1, <1>7
<1>10. \A k \in 0..n : Batched(d, ops, K, run[k], k)
  BY <1>1, <1>9, BatchRun DEF n
<1>11. Batched(d, ops, K, run[n], n)
  BY <1>1, <1>10
<1>12. run[n].left = {} /\ ops \ {} = ops
  <2>1. Cardinality(run[n].left) = 0 /\ IsFiniteSet(run[n].left)
    BY <1>1, <1>11 DEF Batched, n
  <2> QED
    BY <2>1, FS_EmptySet
<1> QED
  BY <1>8, <1>11, <1>12 DEF Batched

-----------------------------------------------------------------------------
(* Replicas of the same operations. *)

\* A buffer is empty when the elements its operations refer to have been
\* received: the oldest buffered insert would be ready.
LEMMA NothingBuffered ==
  ASSUME NEW K, Named(K), NEW d, Fits(d, K), Settled(d),
         \A op \in d.buffer, p \in K :
            p.type = "ins" /\ p.id = op.ref => p \in d.log \cup d.buffer
  PROVE  d.buffer = {}
<1> DEFINE B == {op \in d.buffer : op.type = "ins"}
           T == {op.id[1] : op \in B}
<1>1. \A op \in d.buffer : op \in K /\ op.type # "write" /\ op \in Op /\ op.id[1] \in Nat
  BY OpFacts DEF Fits, Named
<1>2. ASSUME NEW op \in d.buffer PROVE \E p \in B : p.id = op.ref
  <2>1. op.ref # HEAD /\ op.ref \notin Ids(d)
    BY DEF Settled, Ready
  <2>2. PICK p \in K : p.type = "ins" /\ p.id = op.ref
    BY <1>1, <2>1 DEF Named
  <2>3. p \notin d.log
    <3>1. SUFFICES ASSUME p \in d.log PROVE FALSE
      OBVIOUS
    <3>2. Effected(d, p)
      BY <3>1 DEF Fits
    <3> QED
      BY <3>2, <2>1, <2>2 DEF Effected
  <2> QED
    BY <2>2, <2>3
<1>3. T = {}
  <2>1. SUFFICES ASSUME T # {} PROVE FALSE
    OBVIOUS
  <2>2. T \subseteq Nat
    BY <1>1
  <2>3. PICK t \in T : \A u \in T : t <= u
    <3> HIDE DEF T
    <3> QED
      BY <2>1, <2>2, LeastNat
  <2>4. PICK op \in B : op.id[1] = t
    BY <2>3
  <2>5. PICK p \in B : p.id = op.ref
    BY <1>2
  <2>6. op.ref[1] < op.id[1]
    BY <1>1 DEF Named
  <2>7. p.id[1] \in T /\ p.id[1] \in Nat /\ op.id[1] \in Nat
    BY <1>1
  <2>8. t \in Nat /\ t <= p.id[1] /\ p.id[1] = op.ref[1]
    <3> HIDE DEF T, B
    <3> QED
      BY <2>2, <2>3, <2>5, <2>7
  <2> HIDE DEF T, B
  <2> QED
    BY <2>4, <2>6, <2>7, <2>8
<1>4. B = {}
  BY <1>3
<1> QED
  BY <1>2, <1>4

\* The elements of a replica are ordered.
LEMMA NodesOrdered ==
  ASSUME NEW K, Named(K), NEW d, Fits(d, K)
  PROVE  /\ Len(d.nodes) \in Nat
         /\ d.nodes \in [1..Len(d.nodes) -> Node]
         /\ DOMAIN d.nodes = 1..Len(d.nodes)
         /\ Ordered(d.nodes)
<1>1. d.nodes \in Seq(Node)
  BY DocFields DEF Fits
<1>2. Distinct(d.nodes) /\ Nearest(d.nodes)
  BY DEF Fits
<1>3. ASSUME NEW i \in DOMAIN d.nodes PROVE d.nodes[i].origin[1] < d.nodes[i].id[1]
  <2> DEFINE op == Ins(d.nodes[i].id, d.nodes[i].origin)
  <2>1. op \in K
    BY DEF Fits
  <2>2. op.type = "ins" /\ op.id = d.nodes[i].id /\ op.ref = d.nodes[i].origin
    BY DEF Ins
  <2> HIDE DEF op
  <2>3. op.ref[1] < op.id[1]
    BY <2>1, <2>2 DEF Named
  <2> QED
    BY <2>2, <2>3
<1> QED
  BY <1>1, <1>2, <1>3 DEF Ordered

\* Two replicas have the same origin for an element.
LEMMA NodesSameOrigins ==
  ASSUME NEW K, Named(K), NEW d, Fits(d, K), NEW e, Fits(e, K)
  PROVE  SameOrigins(d.nodes, e.nodes)
<1> SUFFICES ASSUME NEW i \in DOMAIN d.nodes, NEW j \in DOMAIN e.nodes,
                    d.nodes[i].id = e.nodes[j].id
             PROVE  d.nodes[i].origin = e.nodes[j].origin
  BY DEF SameOrigins
<1> DEFINE o == Ins(d.nodes[i].id, d.nodes[i].origin)
           p == Ins(e.nodes[j].id, e.nodes[j].origin)
<1>1. o \in K /\ p \in K
  BY DEF Fits
<1>2. o.id = p.id /\ o.ref = d.nodes[i].origin /\ p.ref = e.nodes[j].origin
  BY DEF Ins
<1> HIDE DEF o, p
<1>3. o = p
  BY <1>1, <1>2 DEF Named
<1> QED
  BY <1>2, <1>3

\* Hence they have common elements in the same order.
LEMMA NodesUnswapped ==
  ASSUME NEW K, Named(K), NEW d, Fits(d, K), NEW e, Fits(e, K)
  PROVE  Unswapped(d.nodes, e.nodes)
<1>1. /\ Len(d.nodes) \in Nat /\ d.nodes \in [1..Len(d.nodes) -> Node]
      /\ DOMAIN d.nodes = 1..Len(d.nodes) /\ Ordered(d.nodes)
  BY NodesOrdered
<1>2. /\ Len(e.nodes) \in Nat /\ e.nodes \in [1..Len(e.nodes) -> Node]
      /\ DOMAIN e.nodes = 1..Len(e.nodes) /\ Ordered(e.nodes)
  BY NodesOrdered
<1>3. SameOrigins(d.nodes, e.nodes)
  BY NodesSameOrigins
<1> QED
  BY <1>1, <1>2, <1>3, OrderAgrees DEF Unswapped

Dead(d) == {d.nodes[i].id : i \in {j \in DOMAIN d.nodes : d.nodes[j].deleted}}

\* The elements of one replica, with their tombstones, are in another.
LEMMA NodesWithin ==
  ASSUME NEW K, Named(K), NEW d, Fits(d, K), NEW e, Fits(e, K),
         Ids(d) \subseteq Ids(e), Dead(d) = Dead(e)
  PROVE  Within(d.nodes, e.nodes)
<1> SUFFICES ASSUME NEW i \in DOMAIN d.nodes
             PROVE  \E j \in DOMAIN e.nodes : e.nodes[j] = d.nodes[i]
  BY DEF Within
<1>1. PICK j \in DOMAIN e.nodes : e.nodes[j].id = d.nodes[i].id
  BY DEF Ids
<1>2. d.nodes[i].origin = e.nodes[j].origin
  BY <1>1, NodesSameOrigins DEF SameOrigins
<1>3. d.nodes[i] \in Node /\ e.nodes[j] \in Node /\ Distinct(d.nodes) /\ Distinct(e.nodes)
  BY NodesOrdered DEF Ordered
<1>4. d.nodes[i].deleted => e.nodes[j].deleted
  <2>1. SUFFICES ASSUME d.nodes[i].deleted PROVE e.nodes[j].deleted
    OBVIOUS
  <2>2. d.nodes[i].id \in Dead(e)
    BY <2>1 DEF Dead
  <2>3. PICK k \in DOMAIN e.nodes : e.nodes[k].deleted /\ e.nodes[k].id = d.nodes[i].id
    BY <2>2 DEF Dead
  <2> QED
    BY <2>3, <1>1, <1>3 DEF Distinct
<1>5. e.nodes[j].deleted => d.nodes[i].deleted
  <2>1. SUFFICES ASSUME e.nodes[j].deleted PROVE d.nodes[i].deleted
    OBVIOUS
  <2>2. e.nodes[j].id \in Dead(d)
    BY <2>1 DEF Dead
  <2>3. PICK k \in DOMAIN d.nodes : d.nodes[k].deleted /\ d.nodes[k].id = e.nodes[j].id
    BY <2>2 DEF Dead
  <2> QED
    BY <2>3, <1>1, <1>3 DEF Distinct
<1>6. e.nodes[j].deleted = d.nodes[i].deleted
  BY <1>3, <1>4, <1>5 DEF Node
<1>7. e.nodes[j] = d.nodes[i]
  BY <1>1, <1>2, <1>3, <1>6 DEF Node
<1> QED
  BY <1>7

\* Replicas with the same elements and tombstones show the same sequence.
LEMMA SameNodes ==
  ASSUME NEW K, Named(K), NEW d, Fits(d, K), NEW e, Fits(e, K),
         Ids(d) = Ids(e), Dead(d) = Dead(e)
  PROVE  d.nodes = e.nodes
<1>1. /\ Len(d.nodes) \in Nat /\ d.nodes \in [1..Len(d.nodes) -> Node]
      /\ Distinct(d.nodes)
  BY NodesOrdered DEF Ordered
<1>2. /\ Len(e.nodes) \in Nat /\ e.nodes \in [1..Len(e.nodes) -> Node]
      /\ Distinct(e.nodes)
  BY NodesOrdered DEF Ordered
<1>3. Within(d.nodes, e.nodes) /\ Within(e.nodes, d.nodes) /\ Unswapped(d.nodes, e.nodes)
  BY NodesWithin, NodesUnswapped
<1> QED
  BY <1>1, <1>2, <1>3, SameSequence

-----------------------------------------------------------------------------
(* The same content. *)

\* One replica shows all that another shows.
Shown(d, e) == Ids(d) \subseteq Ids(e) /\ Dead(d) \subseteq Dead(e) /\ ~IdGreater(d.attr, e.attr)

\* Replicas that show no more than each other show the same.
LEMMA SameContent ==
  ASSUME NEW K, Named(K), NEW d, Fits(d, K), NEW e, Fits(e, K), Shown(d, e), Shown(e, d)
  PROVE  Content(d) = Content(e)
<1>1. d.nodes = e.nodes
  <2>1. Ids(d) = Ids(e) /\ Dead(d) = Dead(e)
    BY DEF Shown
  <2> QED
    BY <2>1, SameNodes
<1>2. d.attr = e.attr
  BY DocFields, IdOrder DEF Shown, Fits
<1> QED
  BY <1>1, <1>2 DEF Content

\* A delete shows as a tombstone.
LEMMA DeleteShows ==
  ASSUME NEW d, NEW op, op.type = "del", Effected(d, op)
  PROVE  op.ref \in Dead(d)
BY DEF Effected, Dead

\* What a replica shows comes from operations of the set L.
ComesFrom(d, L) ==
  /\ \A i \in DOMAIN d.nodes :
       /\ Ins(d.nodes[i].id, d.nodes[i].origin) \in L
       /\ d.nodes[i].deleted => \E op \in L : op.type = "del" /\ op.ref = d.nodes[i].id
  /\ d.attr = HEAD \/ \E op \in L : op.type = "write" /\ op.id = d.attr

\* It comes from the known operations, and from the log if that serves it.
LEMMA Sources ==
  ASSUME NEW K, NEW d, Fits(d, K)
  PROVE  ComesFrom(d, K) /\ (Served(d) => ComesFrom(d, d.log))
BY DEF Fits, ComesFrom, Served

\* A replica shows all that comes from operations that show in it.
LEMMA ShowsAll ==
  ASSUME NEW K, Named(K), NEW d, NEW e, Fits(e, K), NEW L, ComesFrom(d, L),
         \A op \in L : Effected(e, op)
  PROVE  Shown(d, e)
<1>1. ASSUME NEW i \in DOMAIN d.nodes PROVE d.nodes[i].id \in Ids(e)
  <2> DEFINE p == Ins(d.nodes[i].id, d.nodes[i].origin)
  <2>1. p \in L
    BY DEF ComesFrom
  <2>2. p.type = "ins" /\ p.id = d.nodes[i].id
    BY DEF Ins
  <2> HIDE DEF p
  <2> QED
    BY <2>1, <2>2 DEF Effected
<1>2. ASSUME NEW i \in DOMAIN d.nodes, d.nodes[i].deleted PROVE d.nodes[i].id \in Dead(e)
  <2>1. PICK op \in L : op.type = "del" /\ op.ref = d.nodes[i].id
    BY <1>2 DEF ComesFrom
  <2> QED
    BY <2>1, DeleteShows
<1>3. ~IdGreater(d.attr, e.attr)
  <2>1. CASE d.attr = HEAD
    <3>1. e.attr \in Id
      BY DocFields DEF Fits
    <3>2. e.attr[1] \in Nat
      BY <3>1 DEF Id
    <3>3. e.attr = HEAD \/ e.attr[1] > 0
      <4>1. e.attr = HEAD \/ \E op \in K : op.id = e.attr
        BY DEF Fits
      <4> QED
        BY <4>1, OpFacts DEF Named
    <3> QED
      BY <2>1, <3>2, <3>3 DEF IdGreater, HEAD
  <2>2. CASE d.attr # HEAD
    <3>1. PICK op \in L : op.type = "write" /\ op.id = d.attr
      BY <2>2 DEF ComesFrom
    <3>2. Effected(e, op)
      OBVIOUS
    <3> QED
      BY <3>1, <3>2 DEF Effected
  <2> QED
    BY <2>1, <2>2
<1> QED
  BY <1>1, <1>2, <1>3 DEF Shown, Ids, Dead

\* What a logged operation refers to is in the document.
LEMMA LoggedReady ==
  ASSUME NEW K, Named(K), NEW d, Fits(d, K), NEW op \in d.log, op.type # "write"
  PROVE  Ready(d, op)
<1>1. op \in K /\ Effected(d, op) /\ op.type \in {"ins", "del"}
  BY OpFacts DEF Fits, Named
<1>2. CASE op.type = "del"
  BY <1>1, <1>2 DEF Effected, Ready, Ids
<1>3. CASE op.type = "ins"
  <2>1. PICK i \in DOMAIN d.nodes : d.nodes[i].id = op.id
    BY <1>1, <1>3 DEF Effected, Ids
  <2> DEFINE p == Ins(d.nodes[i].id, d.nodes[i].origin)
  <2>2. p \in K
    BY DEF Fits
  <2>3. p.ref = d.nodes[i].origin /\ p.id = op.id
    BY <2>1 DEF Ins
  <2> HIDE DEF p
  <2>4. op.ref = d.nodes[i].origin
    BY <1>1, <2>2, <2>3 DEF Named
  <2>5. PICK f \in 0..i - 1 : d.nodes[i].origin = IF f = 0 THEN HEAD ELSE d.nodes[f].id
    BY DEF Fits, Nearest
  <2>6. f = 0 \/ f \in DOMAIN d.nodes
    BY <2>1, NodesOrdered
  <2> QED
    BY <2>4, <2>5, <2>6 DEF Ready, Ids
<1> QED
  BY <1>1, <1>2, <1>3

\* Operations that become known later do not disturb a replica.
LEMMA FitsMore ==
  ASSUME NEW K, NEW X, NEW d, Fits(d, K)
  PROVE  Fits(d, K \cup X)
<1>1. d.log \subseteq K \cup X /\ d.buffer \subseteq {op \in K \cup X : op.type # "write"}
  BY DEF Fits
<1>2. \A i \in DOMAIN d.nodes : d.nodes[i].deleted
        => \E op \in K \cup X : op.type = "del" /\ op.ref = d.nodes[i].id
  BY DEF Fits
<1>3. d.attr = HEAD \/ \E op \in K \cup X : op.type = "write" /\ op.id = d.attr
  BY DEF Fits
<1>4. \A x \in Authors : d.seen[x] = 0 \/ \E op \in K \cup X : op.id = <<d.seen[x], x>>
  BY DEF Fits
<1> QED
  BY <1>1, <1>2, <1>3, <1>4 DEF Fits

-----------------------------------------------------------------------------
(* Steps of one replica. *)

\* A replica is either there or absent.
LEMMA OpenDocs ==
  ASSUME TypeInv, NEW s \in Open
  PROVE  s \in Sites /\ docs[s] \in Doc
BY DEF TypeInv, Open

\* A site that has not joined has no document.
LEMMA AbsentIsNoDoc == Absent \notin Doc
<1>1. \A d \in Doc : DOMAIN d = {"nodes", "buffer", "log", "counter", "seen", "attr"}
  BY DEF Doc
<1>2. DOMAIN Absent = {"nodes"}
  BY DEF Absent
<1> QED
  BY <1>1, <1>2

\* A known operation of a site is one that was sent; others come from snapshots.
LEMMA KnownSites ==
  ASSUME NEW op \in Known, Named(Known)
  PROVE  /\ op.id[2] \in Sites => op \in sent
         /\ op \in sent \/ op.id[2] < 0
         /\ op.type = "ins" => op \in sent
<1>1. op \in sent \/ op.id[2] < 0
  BY DEF Known
<1>2. op.type = "ins" => op.id[2] > 0
  BY DEF Named
<1>3. op.id[2] \in Int
  BY OpFacts DEF Named
<1> QED
  BY <1>1, <1>2, <1>3, SitesAssumption

\* One replica changes, and the operations in X are new.
StepOf(s, e, X) ==
  /\ docs' = [docs EXCEPT ![s] = e]
  /\ sent' = sent \cup X
  /\ kind' = kind
  /\ Named(Known \cup X)
  /\ Fits(e, Known \cup X)
  /\ Settled(e)
  /\ docs[s].log \subseteq e.log
  /\ docs[s].seen[s] <= e.seen[s]
  /\ \A op \in X : /\ op.id[2] = s /\ op.id[1] <= e.seen[s]
                   /\ op.type = "write" => kind[1] = "block"

\* What such a step leaves as it is.
LEMMA StepOfKnown ==
  ASSUME IInv, NEW s \in Open, NEW e, NEW X, StepOf(s, e, X)
  PROVE  /\ Open' = Open
         /\ \A t \in Sites : docs'[t] = IF t = s THEN e ELSE docs[t]
         /\ Known' = Known \cup X
<1>1. s \in Sites /\ e \in Doc /\ e # Absent /\ DOMAIN docs = Sites
  BY OpenDocs, AbsentIsNoDoc DEF IInv, StepOf, Fits, TypeInv
<1>2. \A t \in Sites : docs'[t] = IF t = s THEN e ELSE docs[t]
  BY <1>1 DEF StepOf
<1>3. Open' = Open
  BY <1>1, <1>2 DEF Open
<1>4. ASSUME NEW op \in Known' PROVE op \in Known \cup X
  <2>1. CASE op \in sent'
    BY <2>1 DEF StepOf, Known
  <2>2. CASE op \notin sent'
    <3>1. PICK u \in Open : op \in docs'[u].log /\ op.id[2] < 0
      BY <1>3, <2>2 DEF Known
    <3>2. u \in Sites
      BY DEF Open
    <3>3. CASE u = s
      <4>1. op \in e.log
        BY <3>1, <3>2, <3>3, <1>2
      <4> QED
        BY <4>1 DEF StepOf, Fits
    <3>4. CASE u # s
      BY <3>1, <3>2, <3>4, <1>2 DEF Known
    <3> QED
      BY <3>3, <3>4
  <2> QED
    BY <2>1, <2>2
<1>5. ASSUME NEW op \in Known \cup X PROVE op \in Known'
  <2>1. CASE op \in sent \cup X
    BY <2>1 DEF StepOf, Known
  <2>2. CASE op \notin sent \cup X
    <3>1. PICK u \in Open : op \in docs[u].log /\ op.id[2] < 0
      BY <2>2 DEF Known
    <3>2. u \in Sites
      BY DEF Open
    <3>3. op \in docs'[u].log
      BY <3>1, <3>2, <1>2 DEF StepOf
    <3> QED
      BY <3>1, <3>3, <1>3 DEF Known
  <2> QED
    BY <2>1, <2>2
<1>6. Known' = Known \cup X
  BY <1>4, <1>5
<1> QED
  BY <1>2, <1>3, <1>6

\* Such a step keeps the invariant.
LEMMA StepOfKeeps ==
  ASSUME IInv, NEW s \in Open, NEW e, NEW X, StepOf(s, e, X)
  PROVE  IInv'
<1>1. Open' = Open /\ Known' = Known \cup X
  BY StepOfKnown
<1>2. \A t \in Sites : docs'[t] = IF t = s THEN e ELSE docs[t]
  BY StepOfKnown
<1>3. s \in Sites /\ e \in Doc /\ TypeInv
  BY OpenDocs DEF IInv, StepOf, Fits
<1>4. TypeInv'
  <2>1. docs' \in [Sites -> Doc \cup {Absent}]
    BY <1>3 DEF StepOf, TypeInv
  <2>2. kind' \in Kinds /\ Founders \subseteq Open'
    BY <1>1, <1>3 DEF StepOf, TypeInv
  <2> QED
    BY <2>1, <2>2 DEF TypeInv
<1>5. Named(Known')
  BY <1>1 DEF StepOf
<1>6. ASSUME NEW op \in sent'
      PROVE  /\ op.id[2] \in Open'
             /\ op.id[1] <= docs'[op.id[2]].seen[op.id[2]]
             /\ op.type = "write" => kind'[1] = "block"
  <2>1. CASE op \in X
    BY <2>1, <1>1, <1>2, <1>3 DEF StepOf
  <2>2. CASE op \in sent
    <3>1. /\ op.id[2] \in Open /\ op.id[1] <= docs[op.id[2]].seen[op.id[2]]
          /\ op.type = "write" => kind[1] = "block"
      BY <2>2 DEF IInv, Authored
    <3>2. op.id[2] \in Sites
      BY <3>1 DEF Open
    <3>3. op.id[1] \in Nat /\ op.id[2] \in Authors
      BY <2>2, OpFacts DEF IInv, Named, Known
    <3>4. docs[s] \in Doc /\ docs[s].seen[s] \in Nat /\ e.seen[s] \in Nat
      <4>1. docs[s] \in Doc /\ s \in Authors
        BY OpenDocs, <1>3 DEF Authors
      <4> QED
        BY <4>1, <1>3, DocFields
    <3>5. CASE op.id[2] = s
      BY <3>1, <3>3, <3>4, <3>5, <1>1, <1>2, <1>3 DEF StepOf
    <3>6. CASE op.id[2] # s
      BY <3>1, <3>2, <3>6, <1>1, <1>2 DEF StepOf
    <3> QED
      BY <3>5, <3>6
  <2> QED
    BY <2>1, <2>2 DEF StepOf
<1>7. ASSUME NEW op \in Known', op.id[2] < 0
      PROVE  /\ -op.id[2] \in Open'
             /\ op.type = "del"
             /\ \E o \in sent' : o.type = "del" /\ o.ref = op.ref
  <2>1. op \in Known
    BY <1>1, <1>3, <1>7, SitesAssumption DEF StepOf
  <2> QED
    BY <2>1, <1>1, <1>7 DEF IInv, Authored, StepOf
<1>8. ASSUME NEW t \in Open' PROVE Fits(docs'[t], Known') /\ Settled(docs'[t])
  <2>1. t \in Open /\ t \in Sites
    BY <1>1 DEF Open
  <2>2. CASE t = s
    BY <2>1, <2>2, <1>1, <1>2 DEF StepOf
  <2>3. CASE t # s
    <3>1. docs'[t] = docs[t]
      BY <2>1, <2>3, <1>2
    <3>2. Fits(docs[t], Known) /\ Settled(docs[t])
      BY <2>1 DEF IInv, Replicas
    <3>3. Fits(docs[t], Known \cup X)
      BY <3>2, FitsMore
    <3> QED
      BY <3>1, <3>2, <3>3, <1>1
  <2> QED
    BY <2>2, <2>3
<1>9. Authored'
  BY <1>6, <1>7 DEF Authored
<1>10. Replicas'
  BY <1>8 DEF Replicas
<1> QED
  BY <1>4, <1>5, <1>9, <1>10 DEF IInv

-----------------------------------------------------------------------------
(* Edits. *)

\* An edit has the next id of its author, and refers to what the author has.
Edit(s, op) ==
  /\ op \in Op
  /\ op.id = MintId(s)
  /\ op.type # "write" => Ready(docs[s], op)
  /\ op.type = "del" => op.ref # HEAD
  /\ op.type = "write" => kind[1] = "block"

\* The three kinds of local operation are edits.
LEMMA LocalIsEdit ==
  ASSUME IInv, NEW s \in Open, LocalInsert(s) \/ LocalDelete(s) \/ SetBlockAttr(s)
  PROVE  \E op : Edit(s, op) /\ Local(s, op)
<1> DEFINE d == docs[s]
           id == MintId(s)
<1>1. s \in Sites /\ d \in Doc /\ d.nodes \in Seq(Node) /\ d.counter \in Nat
  BY OpenDocs, DocFields DEF IInv
<1>2. id \in OpId /\ HEAD \in Id
  BY <1>1 DEF MintId, OpId, Authors, HEAD, Id
<1>3. \A i \in DOMAIN d.nodes : d.nodes[i].id \in Id /\ d.nodes[i].id # HEAD
  BY <1>1, NodeIds
<1>4. Visible(d) \subseteq Ids(d) /\ \A x \in Ids(d) : x \in Id /\ x # HEAD
  BY <1>3 DEF Visible, Ids
<1> HIDE DEF d, id
<1>5. CASE LocalInsert(s)
  <2>1. PICK origin \in Anchors(d) : Local(s, Ins(id, origin))
    BY <1>5 DEF LocalInsert, d, id
  <2>2. origin \in Id /\ (origin = HEAD \/ origin \in Ids(d))
    BY <1>2, <1>4 DEF Anchors
  <2> DEFINE op == Ins(id, origin)
  <2>3. op \in Op /\ op.id = id /\ op.ref = origin /\ op.type = "ins"
    BY <1>2, <2>2 DEF Ins, Op
  <2> HIDE DEF op
  <2>4. Edit(s, op)
    BY <2>2, <2>3 DEF Edit, Ready, id, d
  <2> QED
    BY <2>1, <2>4 DEF op
<1>6. CASE LocalDelete(s)
  <2>1. PICK target \in Visible(d) : Local(s, Del(id, target))
    BY <1>6 DEF LocalDelete, d, id
  <2>2. target \in Id /\ target # HEAD /\ target \in Ids(d)
    BY <1>4
  <2> DEFINE op == Del(id, target)
  <2>3. op \in Op /\ op.id = id /\ op.ref = target /\ op.type = "del"
    BY <1>2, <2>2 DEF Del, Op
  <2> HIDE DEF op
  <2>4. Edit(s, op)
    BY <2>2, <2>3 DEF Edit, Ready, id, d
  <2> QED
    BY <2>1, <2>4 DEF op
<1>7. CASE SetBlockAttr(s)
  <2> DEFINE op == Write(id)
  <2>1. Local(s, op) /\ kind[1] = "block"
    BY <1>7 DEF SetBlockAttr, id
  <2>2. op \in Op /\ op.id = id /\ op.type = "write"
    BY <1>2 DEF Write, Op
  <2> HIDE DEF op
  <2>3. Edit(s, op)
    BY <2>1, <2>2 DEF Edit, id, d
  <2> QED
    BY <2>1, <2>3
<1> QED
  BY <1>5, <1>6, <1>7

\* The id of an edit is new, and greater than the author's other ids.
LEMMA EditIsNew ==
  ASSUME IInv, NEW s \in Open, NEW op, Edit(s, op)
  PROVE  /\ op.id[1] = docs[s].counter + 1 /\ op.id[2] = s
         /\ \A p \in Known : p.id[2] = s => p.id[1] <= docs[s].seen[s]
         /\ docs[s].seen[s] <= docs[s].counter /\ docs[s].seen[s] \in Nat
         /\ docs[s].counter \in Nat
         /\ \A p \in Known : p.id # op.id
<1>1. op.id[1] = docs[s].counter + 1 /\ op.id[2] = s
  BY DEF Edit, MintId
<1>2. docs[s] \in Doc /\ s \in Sites /\ s \in Authors
  BY OpenDocs DEF IInv, Authors
<1>3. docs[s].seen[s] <= docs[s].counter /\ docs[s].seen[s] \in Nat /\ docs[s].counter \in Nat
  BY <1>2, DocFields DEF IInv, Replicas, Fits
<1>4. ASSUME NEW p \in Known, p.id[2] = s PROVE p.id[1] <= docs[s].seen[s] /\ p.id[1] \in Nat
  <2>1. p \in sent
    BY <1>2, <1>4, KnownSites DEF IInv
  <2>2. p.id[1] \in Nat
    BY OpFacts DEF IInv, Named
  <2> QED
    BY <2>1, <2>2, <1>4 DEF IInv, Authored
<1>5. ASSUME NEW p \in Known PROVE p.id # op.id
  BY <1>1, <1>3, <1>4
<1> QED
  BY <1>1, <1>3, <1>4, <1>5

\* The known operations are well named with the edit.
LEMMA EditNamed ==
  ASSUME IInv, NEW s \in Open, NEW op, Edit(s, op)
  PROVE  Named(Known \cup {op})
<1> DEFINE K == Known
           L == Known \cup {op}
           d == docs[s]
<1>1. Named(K) /\ K \subseteq Op /\ op \in Op /\ Fits(d, K)
  BY DEF IInv, Named, Edit, Replicas
<1>2. L \subseteq Op /\ IsFiniteSet(L)
  BY <1>1, FS_AddElement DEF Named
<1>3. \A o, p \in L : o.id = p.id => o = p
  BY <1>1, EditIsNew DEF Named
<1>4. op.type # "write" /\ op.ref # HEAD
        => \E p \in K : p.type = "ins" /\ p.id = op.ref /\ op.ref[1] <= d.counter
  <2>1. SUFFICES ASSUME op.type # "write", op.ref # HEAD
                 PROVE  \E p \in K : p.type = "ins" /\ p.id = op.ref /\ op.ref[1] <= d.counter
    OBVIOUS
  <2>2. PICK i \in DOMAIN d.nodes : d.nodes[i].id = op.ref
    BY <2>1 DEF Edit, Ready, Ids
  <2> DEFINE q == Ins(d.nodes[i].id, d.nodes[i].origin)
  <2>3. q \in K /\ d.nodes[i].id[1] <= d.counter
    BY <1>1 DEF Fits
  <2>4. q.type = "ins" /\ q.id = op.ref
    BY <2>2 DEF Ins
  <2> HIDE DEF q, d
  <2> QED
    BY <2>2, <2>3, <2>4
<1>5. op.type = "ins" => op.id[2] > 0 /\ op.ref[1] < op.id[1]
  <2>1. op.id[2] > 0 /\ op.id[1] = d.counter + 1 /\ d.counter \in Nat
    <3>1. s \in Sites
      BY OpenDocs DEF IInv
    <3>2. s \in Nat /\ s > 0
      BY <3>1, SitesAssumption
    <3> QED
      BY <3>2, EditIsNew
  <2>2. op.ref[1] \in Nat /\ (op.ref = HEAD => op.ref[1] = 0)
    BY <1>1, OpFacts DEF Id, HEAD
  <2> HIDE DEF d
  <2> QED
    BY <2>1, <2>2, <1>4
<1>6. op.type = "del" => op.ref # HEAD
  BY DEF Edit
<1>7. ASSUME NEW o \in L
      PROVE  /\ o.type = "ins" => o.id[2] > 0 /\ o.ref[1] < o.id[1]
             /\ o.type = "del" => o.ref # HEAD
             /\ o.type # "write" /\ o.ref # HEAD
                  => \E p \in L : p.type = "ins" /\ p.id = o.ref
  <2> HIDE DEF K, d
  <2>1. CASE o = op
    BY <2>1, <1>4, <1>5, <1>6 DEF K
  <2>2. CASE o \in K
    BY <2>2, <1>1 DEF Named, K
  <2> QED
    BY <2>1, <2>2 DEF K
<1> QED
  BY <1>2, <1>3, <1>7 DEF Named

\* A local operation is a step of its author.
LEMMA EditStep ==
  ASSUME IInv, NEW s \in Open, NEW op, Edit(s, op), Local(s, op)
  PROVE  /\ StepOf(s, Apply(docs[s], op), {op})
         /\ Grows(docs[s], Apply(docs[s], op), {op})
         /\ op \in Apply(docs[s], op).log
<1> DEFINE K == Known
           L == Known \cup {op}
           d == docs[s]
           e == Apply(docs[s], op)
<1>1. Named(L)
  BY EditNamed
<1>2. Fits(d, L) /\ Settled(d) /\ op \in L
  BY FitsMore DEF IInv, Replicas
<1>3. Fits(e, L) /\ Settled(e) /\ Grows(d, e, {op}) /\ op \in e.log
  <2> HIDE DEF L, d
  <2>1. op.type = "write" \/ Ready(d, op)
    BY DEF Edit, d
  <2> QED
    BY <1>1, <1>2, <2>1, ApplyEffect DEF d
<1>4. docs' = [docs EXCEPT ![s] = e] /\ sent' = sent \cup {op} /\ kind' = kind
  BY DEF Local
<1>5. op.id[2] = s /\ (op.type = "write" => kind[1] = "block")
  BY EditIsNew DEF Edit
<1>6. s \in Authors
  BY OpenDocs DEF IInv, Authors
<1>7. d.log \subseteq e.log /\ d.seen[s] <= e.seen[s] /\ op.id[1] <= e.seen[s]
  <2> HIDE DEF d, e, L
  <2> QED
    BY <1>3, <1>5, <1>6 DEF Grows, Fits
<1> HIDE DEF e
<1> QED
  BY <1>1, <1>3, <1>4, <1>5, <1>7 DEF StepOf, e

-----------------------------------------------------------------------------
(* Delivery and sync. *)

\* A delivery is a step of the receiver.
LEMMA DeliverStep ==
  ASSUME IInv, NEW s \in Open, Deliver(s)
  PROVE  \E e : StepOf(s, e, {})
<1>1. PICK op \in sent : docs' = [docs EXCEPT ![s] = Apply(docs[s], op)]
  BY DEF Deliver
<1> DEFINE K == Known
           d == docs[s]
           e == Apply(docs[s], op)
<1>2. Named(K) /\ Fits(d, K) /\ Settled(d) /\ op \in K
  BY DEF IInv, Replicas, Known
<1>3. Fits(e, K) /\ Settled(e) /\ Grows(d, e, {op})
  <2> HIDE DEF K, d
  <2> QED
    BY <1>2, ApplyEffect DEF d
<1>4. sent' = sent \cup {} /\ kind' = kind /\ K \cup {} = K
  BY DEF Deliver
<1>5. s \in Authors
  BY OpenDocs DEF IInv, Authors
<1>6. d.log \subseteq e.log /\ d.seen[s] <= e.seen[s]
  <2> HIDE DEF d, e, K
  <2> QED
    BY <1>3, <1>5 DEF Grows
<1> HIDE DEF e
<1>7. StepOf(s, e, {})
  BY <1>1, <1>2, <1>3, <1>4, <1>6 DEF StepOf, e
<1> QED
  BY <1>7

\* The operations a peer serves are in its log, and known.
LEMMA OpsSinceKnown ==
  ASSUME NEW K, NEW d, Fits(d, K), NEW since
  PROVE  OpsSince(d, since) \subseteq K /\ OpsSince(d, since) \subseteq d.log
BY DEF OpsSince, Fits

\* A pull is a step of the replica that pulls.
LEMMA PullStep ==
  ASSUME IInv, NEW s \in Open, NEW peer \in Open, Pull(s, peer)
  PROVE  LET ops == OpsSince(docs[peer], docs[s].seen)
             e == ApplyMany(docs[s], ops)
         IN  StepOf(s, e, {}) /\ Grows(docs[s], e, ops)
<1> DEFINE K == Known
           d == docs[s]
           ops == OpsSince(docs[peer], docs[s].seen)
           e == ApplyMany(d, ops)
<1>1. Named(K) /\ Fits(d, K) /\ Settled(d) /\ Fits(docs[peer], K)
  BY DEF IInv, Replicas
<1>2. ops \subseteq K
  BY <1>1, OpsSinceKnown
<1>3. Fits(e, K) /\ Settled(e) /\ Grows(d, e, ops)
  <2> HIDE DEF K, d, ops
  <2> QED
    BY <1>1, <1>2, ApplyManyEffect
<1>4. docs' = [docs EXCEPT ![s] = e] /\ sent' = sent \cup {} /\ kind' = kind /\ K \cup {} = K
  BY DEF Pull
<1>5. s \in Authors
  BY OpenDocs DEF IInv, Authors
<1>6. d.log \subseteq e.log /\ d.seen[s] <= e.seen[s]
  <2> HIDE DEF d, e, K, ops
  <2> QED
    BY <1>3, <1>5 DEF Grows
<1>7. StepOf(s, e, {})
  <2> HIDE DEF e
  <2> QED
    BY <1>1, <1>3, <1>4, <1>6 DEF StepOf
<1> QED
  BY <1>3, <1>7

\* An edit leaves its author in step.
LEMMA EditInStep ==
  ASSUME IInv, NEW s \in Open, NEW op, Edit(s, op), Local(s, op), InStep(docs[s], Known)
  PROVE  InStep(Apply(docs[s], op), Known \cup {op})
<1> DEFINE d == docs[s]
           e == Apply(docs[s], op)
           K == Known
           L == Known \cup {op}
<1>1. Named(L) /\ Fits(e, L) /\ Settled(e) /\ Grows(d, e, {op}) /\ op \in e.log
  BY EditStep DEF StepOf
<1>2. Named(K) /\ Fits(d, K) /\ d.buffer = {} /\ Served(d) /\ Covers(d, K)
  BY DEF IInv, Replicas, InStep
<1>3. K \subseteq Op /\ op \in Op /\ d \in Doc /\ e \in Doc
  BY <1>1, <1>2 DEF Named, Fits, Edit
<1>4. op.id[2] = s /\ s \in Authors /\ op.id[1] = d.counter + 1 /\ d.seen[s] <= d.counter
      /\ d.seen[s] \in Nat /\ d.counter \in Nat
  BY EditIsNew, OpenDocs DEF IInv, Authors
<1>5. \A p \in K : p.id[2] = s => p.id[1] <= d.seen[s]
  BY EditIsNew
<1>6. op.type # "write" => Ready(d, op)
  BY DEF Edit
<1> HIDE DEF d, e, K
<1>7. e.buffer = {}
  <2>1. SUFFICES ASSUME NEW q \in e.buffer PROVE FALSE
    OBVIOUS
  <2>2. q \in d.log \/ q = op
    BY <1>1, <1>2 DEF Grows
  <2>3. q.type # "write" /\ ~Ready(e, q)
    BY <1>1 DEF Fits, Settled
  <2>4. Ready(d, q)
    BY <2>2, <2>3, <1>2, <1>6, LoggedReady
  <2> QED
    BY <2>3, <2>4, <1>1 DEF Ready, Grows
<1>8. Served(e)
  BY <1>1, <1>2 DEF Grows
<1>9. ASSUME NEW o \in K \cup {op}, o.id[1] <= e.seen[o.id[2]] PROVE Effected(e, o)
  <2>1. CASE o = op
    BY <2>1, <1>1 DEF Fits
  <2>2. CASE o \in K
    <3>1. o \in Op /\ o.id[2] \in Authors /\ o.id[1] \in Nat
      BY <2>2, <1>3, OpFacts
    <3> DEFINE x == o.id[2]
    <3>2. d.seen[x] \in Nat /\ e.seen[x] \in Nat /\ d.seen[x] <= e.seen[x]
      BY <3>1, <1>3, <1>1, DocFields DEF Grows
    <3>3. CASE o.id[1] <= d.seen[x]
      <4>1. Effected(d, o)
        BY <3>3, <2>2, <1>2 DEF Covers
      <4> QED
        BY <4>1, <3>1, <1>1 DEF Grows
    <3>4. CASE o.id[1] > d.seen[x]
      <4>1. PICK p \in e.log : p.id = <<e.seen[x], x>>
        BY <3>1, <3>2, <3>4, <1>1, <1>9 DEF Grows
      <4>2. p \in d.log => p.id[1] <= d.seen[p.id[2]]
        BY <1>2 DEF Fits
      <4>3. p \notin d.log
        BY <4>1, <4>2, <3>1, <3>2, <3>4, <1>9
      <4>4. p = op
        BY <4>3, <1>1, <1>2 DEF Grows
      <4>5. x = s
        BY <4>1, <4>4, <1>4
      <4> QED
        BY <4>5, <1>5, <2>2, <3>1, <3>2, <3>4
    <3> QED
      BY <3>1, <3>2, <3>3, <3>4
  <2> QED
    BY <2>1, <2>2
<1> QED
  BY <1>7, <1>8, <1>9 DEF InStep, Covers, K, e

\* A pull leaves a replica in step if it and its peer were.
LEMMA PullInStep ==
  ASSUME NEW K, Named(K), NEW d, Fits(d, K), InStep(d, K),
         NEW f, Fits(f, K), InStep(f, K),
         NEW e, Fits(e, K), Settled(e), Grows(d, e, OpsSince(f, d.seen))
  PROVE  InStep(e, K)
<1> DEFINE ops == OpsSince(f, d.seen)
<1>1. d \in Doc /\ e \in Doc /\ f \in Doc /\ K \subseteq Op /\ f.log \subseteq K /\ d.log \subseteq K
  BY DEF Fits, Named
<1>2. d.buffer = {} /\ Served(d) /\ Covers(d, K) /\ Served(f) /\ Covers(f, K)
  BY DEF InStep
<1>3. \A q \in f.log : q \in ops \/ q.id[1] <= d.seen[q.id[2]]
  <2> SUFFICES ASSUME NEW q \in f.log PROVE q \in ops \/ q.id[1] <= d.seen[q.id[2]]
    OBVIOUS
  <2>1. q.id[1] \in Nat /\ q.id[2] \in Authors
    BY <1>1, OpFacts
  <2>2. d.seen[q.id[2]] \in Nat
    BY <1>1, <2>1, DocFields
  <2> QED
    BY <2>1, <2>2 DEF OpsSince
<1>4. ops \subseteq f.log
  BY DEF OpsSince
<1>5. e.log \cup e.buffer = d.log \cup ops
  BY <1>2 DEF Grows
<1> HIDE DEF ops
<1>6. e.buffer = {}
  <2>1. ASSUME NEW q \in e.buffer, NEW p \in K, p.type = "ins", p.id = q.ref
        PROVE  p \in e.log \cup e.buffer
    <3>1. q.type # "write" /\ ~Ready(e, q)
      BY <2>1 DEF Fits, Settled
    <3>2. q \notin d.log
      BY <3>1, LoggedReady DEF Ready, Grows
    <3>3. q \in f.log
      BY <3>2, <1>4, <1>5
    <3>4. Ready(f, q) /\ q.ref # HEAD
      BY <3>1, <3>3, LoggedReady DEF Ready
    <3>5. PICK i \in DOMAIN f.nodes : f.nodes[i].id = q.ref
      BY <3>4 DEF Ready, Ids
    <3> DEFINE r == Ins(f.nodes[i].id, f.nodes[i].origin)
    <3>6. r \in f.log
      BY DEF Fits
    <3>7. r.id = p.id
      BY <2>1, <3>5 DEF Ins
    <3> HIDE DEF r
    <3>8. p \in f.log
      BY <3>6, <3>7, <1>1 DEF Named
    <3>9. ~(p.id[1] <= d.seen[p.id[2]])
      <4>1. SUFFICES ASSUME p.id[1] <= d.seen[p.id[2]] PROVE FALSE
        OBVIOUS
      <4>2. Effected(d, p)
        BY <4>1, <1>2 DEF Covers
      <4>3. q.ref \in Ids(d)
        BY <4>2, <2>1 DEF Effected
      <4> QED
        BY <4>3, <3>1 DEF Ready, Grows
    <3> QED
      BY <3>8, <3>9, <1>3, <1>5
  <2> QED
    BY <2>1, NothingBuffered
<1>7. Served(e)
  BY <1>2 DEF Grows
<1>8. ASSUME NEW q \in f.log PROVE Effected(e, q)
  <2>1. CASE q \in ops
    BY <2>1, <1>5, <1>6 DEF Fits
  <2>2. CASE q.id[1] <= d.seen[q.id[2]]
    <3>1. Effected(d, q) /\ q \in Op
      BY <2>2, <1>1, <1>2 DEF Covers
    <3> QED
      BY <3>1 DEF Grows
  <2> QED
    BY <2>1, <2>2, <1>3
<1>9. Shown(f, e)
  BY <1>2, <1>8, Sources, ShowsAll
<1>10. ASSUME NEW o \in K, o.id[1] <= e.seen[o.id[2]] PROVE Effected(e, o)
  <2>1. o \in Op /\ o.id[2] \in Authors /\ o.id[1] \in Nat /\ o.id \in Id
        /\ o.type \in {"ins", "del", "write"}
    BY <1>1, OpFacts
  <2> DEFINE x == o.id[2]
  <2>2. d.seen[x] \in Nat /\ e.seen[x] \in Nat /\ f.seen[x] \in Nat /\ d.seen[x] <= e.seen[x]
    BY <2>1, <1>1, DocFields DEF Grows
  <2>3. CASE o.id[1] <= d.seen[x]
    <3>1. Effected(d, o)
      BY <2>3, <1>2 DEF Covers
    <3> QED
      BY <3>1, <2>1 DEF Grows
  <2>4. CASE o.id[1] > d.seen[x]
    <3>1. PICK p \in e.log : p.id = <<e.seen[x], x>>
      BY <2>1, <2>2, <2>4, <1>10 DEF Grows
    <3>2. p \in d.log => p.id[1] <= d.seen[p.id[2]]
      BY DEF Fits
    <3>3. p \notin d.log
      BY <3>1, <3>2, <2>1, <2>2, <2>4, <1>10
    <3>4. p \in f.log
      BY <3>3, <1>4, <1>5
    <3>5. p.id[1] <= f.seen[p.id[2]]
      BY <3>4 DEF Fits
    <3>6. o.id[1] <= f.seen[x]
      BY <3>1, <3>5, <2>1, <2>2, <1>10
    <3>7. Effected(f, o)
      BY <3>6, <1>2 DEF Covers
    <3>8. CASE o.type = "ins"
      BY <3>7, <3>8, <1>9 DEF Effected, Shown
    <3>9. CASE o.type = "del"
      <4>1. o.ref \in Dead(e)
        BY <3>7, <3>9, <1>9, DeleteShows DEF Shown
      <4> QED
        BY <4>1, <3>9 DEF Dead, Effected
    <3>10. CASE o.type = "write"
      <4>1. ~IdGreater(o.id, f.attr) /\ ~IdGreater(f.attr, e.attr)
        BY <3>7, <3>10, <1>9 DEF Effected, Shown
      <4>2. f.attr \in Id /\ e.attr \in Id
        BY <1>1, DocFields
      <4>3. ~IdGreater(o.id, e.attr)
        BY <4>1, <4>2, <2>1, IdOrder, IdTransitive
      <4> QED
        BY <4>3, <3>10 DEF Effected
    <3> QED
      BY <2>1, <3>8, <3>9, <3>10
  <2> QED
    BY <2>1, <2>2, <2>3, <2>4
<1> QED
  BY <1>6, <1>7, <1>10 DEF InStep, Covers

-----------------------------------------------------------------------------
(* Snapshots. *)

DeadAt(d) == {i \in DOMAIN d.nodes : d.nodes[i].deleted}
Rank(d, i) == Cardinality({j \in DeadAt(d) : j <= i})
Elements(d) == {Ins(d.nodes[i].id, d.nodes[i].origin) : i \in DOMAIN d.nodes}
Tomb(s, d, i) == Del(<<Rank(d, i), SnapSite(s)>>, d.nodes[i].id)
Tombs(s, d) == IF kind[1] = "text" THEN {Tomb(s, d, i) : i \in DeadAt(d)} ELSE {}

\* The log of a snapshot has the elements and their tombstones.
LEMMA SnapshotLogIs ==
  ASSUME NEW s, NEW d
  PROVE  SnapshotLog(s, d) = Elements(d) \cup Tombs(s, d)
BY DEF SnapshotLog, Elements, Tombs, Tomb, Rank, DeadAt

\* Tombstones are numbered from one, each with a number of its own.
LEMMA RankOrder ==
  ASSUME NEW d \in Doc, NEW i \in DeadAt(d), NEW k \in DeadAt(d)
  PROVE  /\ Rank(d, i) \in Nat \ {0}
         /\ Rank(d, i) <= Len(d.nodes)
         /\ Rank(d, i) = Rank(d, k) => i = k
<1> DEFINE n == Len(d.nodes)
           U(m) == {j \in DeadAt(d) : j <= m}
<1>1. n \in Nat /\ DeadAt(d) \subseteq 1..n /\ DOMAIN d.nodes = 1..n
  BY DocFields DEF DeadAt
<1>2. IsFiniteSet(1..n) /\ Cardinality(1..n) = n
  BY <1>1, FS_Interval
<1>3. ASSUME NEW m PROVE IsFiniteSet(U(m)) /\ Cardinality(U(m)) \in Nat /\ Cardinality(U(m)) <= n
  <2>1. U(m) \in SUBSET (1..n)
    BY <1>1
  <2> HIDE DEF U
  <2> QED
    BY <2>1, <1>2, FS_Subset, FS_CardinalityType
<1>4. ASSUME NEW m \in DeadAt(d) PROVE Cardinality(U(m)) # 0
  <2>1. m \in U(m)
    BY <1>1
  <2> HIDE DEF U
  <2> QED
    BY <2>1, <1>3, FS_EmptySet
<1>5. ASSUME NEW a \in DeadAt(d), NEW b \in DeadAt(d), a < b
      PROVE  Cardinality(U(a)) # Cardinality(U(b))
  <2>1. U(a) \in SUBSET U(b) /\ b \in U(b) /\ b \notin U(a)
    BY <1>1, <1>5
  <2> HIDE DEF U
  <2> QED
    BY <2>1, <1>3, FS_Subset
<1>6. \A m : Rank(d, m) = Cardinality(U(m))
  BY DEF Rank
<1>7. i \in Nat /\ k \in Nat
  BY <1>1
<1> HIDE DEF U
<1>8. Cardinality(U(i)) = Cardinality(U(k)) => i = k
  <2>1. i < k => Cardinality(U(i)) # Cardinality(U(k))
    BY <1>5
  <2>2. k < i => Cardinality(U(i)) # Cardinality(U(k))
    BY <1>5
  <2> QED
    BY <2>1, <2>2, <1>7
<1> QED
  BY <1>3, <1>4, <1>6, <1>8

\* The deletes of a snapshot: one for each tombstone, named after the joiner.
LEMMA TombsAre ==
  ASSUME NEW d \in Doc, NEW s \in Sites
  PROVE  /\ IsFiniteSet(Tombs(s, d))
         /\ Tombs(s, d) \subseteq Op
         /\ \A o \in Tombs(s, d) : /\ o.type = "del" /\ o.id[2] = -s
                                   /\ o.id[1] <= Len(d.nodes)
                                   /\ \E i \in DeadAt(d) : o.ref = d.nodes[i].id
         /\ \A o, p \in Tombs(s, d) : o.id = p.id => o = p
         /\ kind[1] = "text" => \A i \in DeadAt(d) : \E o \in Tombs(s, d) : o.ref = d.nodes[i].id
<1>1. d.nodes \in Seq(Node) /\ DeadAt(d) \subseteq 1..Len(d.nodes) /\ Len(d.nodes) \in Nat
  BY DocFields DEF DeadAt
<1>2. ASSUME NEW i \in DeadAt(d)
      PROVE  /\ Tomb(s, d, i).type = "del" /\ Tomb(s, d, i).ref = d.nodes[i].id
             /\ Tomb(s, d, i).id = <<Rank(d, i), -s>>
             /\ Tomb(s, d, i) \in Op
  <2>1. Rank(d, i) \in Nat \ {0}
    BY RankOrder
  <2>2. d.nodes[i] \in Node
    BY <1>1
  <2>3. d.nodes[i].id \in Id
    BY <2>2, NodeIds
  <2>4. <<Rank(d, i), -s>> \in OpId
    BY <2>1 DEF OpId, Authors, SnapSite
  <2> QED
    BY <2>3, <2>4 DEF Tomb, Del, SnapSite, Op
<1>3. ASSUME NEW o \in Tombs(s, d) PROVE \E i \in DeadAt(d) : o = Tomb(s, d, i)
  BY DEF Tombs
<1>4. ASSUME NEW o \in Tombs(s, d), NEW p \in Tombs(s, d), o.id = p.id PROVE o = p
  <2>1. PICK i \in DeadAt(d) : o = Tomb(s, d, i)
    BY <1>3
  <2>2. PICK k \in DeadAt(d) : p = Tomb(s, d, k)
    BY <1>3
  <2>3. Rank(d, i) = Rank(d, k)
    BY <2>1, <2>2, <1>2, <1>4
  <2> QED
    BY <2>1, <2>2, <2>3, RankOrder
<1>5. ASSUME NEW o \in Tombs(s, d)
      PROVE  /\ o \in Op /\ o.type = "del" /\ o.id[2] = -s /\ o.id[1] <= Len(d.nodes)
             /\ \E i \in DeadAt(d) : o.ref = d.nodes[i].id
  <2>1. PICK i \in DeadAt(d) : o = Tomb(s, d, i)
    BY <1>3
  <2>2. Rank(d, i) <= Len(d.nodes)
    BY RankOrder
  <2> QED
    BY <2>1, <2>2, <1>2
<1>6. IsFiniteSet(Tombs(s, d))
  <2> DEFINE S == Tombs(s, d)
             F == [o \in S |-> o.id[1]]
             n == Len(d.nodes)
  <2>1. F \in [S -> 1..n]
    <3> SUFFICES ASSUME NEW o \in S PROVE o.id[1] \in 1..n
      OBVIOUS
    <3>1. o.id[1] \in Nat /\ o.id[1] > 0
      BY <1>5, OpFacts
    <3> QED
      BY <3>1, <1>5, <1>1
  <2>2. \A o, p \in S : F[o] = F[p] => o = p
    <3> SUFFICES ASSUME NEW o \in S, NEW p \in S, o.id[1] = p.id[1] PROVE o = p
      OBVIOUS
    <3>1. o.id = <<o.id[1], o.id[2]>> /\ p.id = <<p.id[1], p.id[2]>>
      BY <1>5, OpFacts
    <3> QED
      BY <3>1, <1>4, <1>5
  <2> HIDE DEF S, F
  <2>3. F \in Injection(S, 1..n)
    BY <2>1, <2>2 DEF Injection, IsInjective
  <2>4. IsFiniteSet(1..n)
    BY <1>1, FS_Interval
  <2>5. IsFiniteSet(S)
    BY <2>3, <2>4, FS_Injection, Zenon
  <2> QED
    BY <2>5 DEF S
<1>7. ASSUME kind[1] = "text", NEW i \in DeadAt(d)
      PROVE  \E o \in Tombs(s, d) : o.ref = d.nodes[i].id
  BY <1>2, <1>7 DEF Tombs
<1> QED
  BY <1>4, <1>5, <1>6, <1>7

\* The counters of one author in a snapshot.
Tops(s, d, x) ==
  {0} \cup {op.id[1] : op \in {o \in Elements(d) \cup Tombs(s, d) : o.id[2] = x}}
      \cup {m[1] : m \in {n \in Ids(d) \cup {d.attr} : n[2] = x}}

Marks(d) == {m[1] : m \in (Ids(d) \cup {d.attr}) \cup {HEAD}}

\* The fields of a replica loaded from a snapshot.
LEMMA SnapshotFields ==
  ASSUME NEW s, NEW d
  PROVE  LET e == FromSnapshot(s, d)
         IN  /\ e = [nodes |-> d.nodes, buffer |-> {}, log |-> e.log, attr |-> d.attr,
                     counter |-> e.counter, seen |-> e.seen]
             /\ e.nodes = d.nodes /\ e.buffer = {} /\ e.attr = d.attr
             /\ e.log = Elements(d) \cup Tombs(s, d)
             /\ e.counter = Max(Marks(d))
             /\ e.seen = [x \in DOMAIN d.seen |-> Max(Tops(s, d, x))]
BY SnapshotLogIs DEF FromSnapshot, Tops, Marks

\* The elements of a replica are its inserts.
LEMMA ElementsAre ==
  ASSUME NEW K, Named(K), NEW d, Fits(d, K)
  PROVE  /\ Elements(d) \subseteq d.log /\ Elements(d) \subseteq Op
         /\ \A o \in Elements(d) : o.type = "ins" /\ o.id \in Ids(d) /\ o.id[2] \in Sites
         /\ \A id \in Ids(d) : /\ \E o \in Elements(d) : o.id = id
                               /\ id[1] \in Nat /\ id[1] <= d.counter /\ id[2] \in Sites
<1>1. Elements(d) \subseteq d.log /\ d.log \subseteq K /\ K \subseteq Op /\ d.nodes \in Seq(Node)
  BY DocFields DEF Fits, Named, Elements
<1>2. ASSUME NEW id \in Ids(d)
      PROVE  id[1] \in Nat /\ id[1] <= d.counter /\ id[2] \in Sites
  <2>1. PICK i \in DOMAIN d.nodes : d.nodes[i].id = id
    BY DEF Ids
  <2>2. d.nodes[i] \in Node /\ d.nodes[i].id[1] <= d.counter
    BY <1>1 DEF Fits
  <2>3. d.nodes[i].id \in (Nat \ {0}) \X Sites
    BY <2>2 DEF Node
  <2> QED
    BY <2>1, <2>2, <2>3
<1>3. ASSUME NEW o \in Elements(d) PROVE o.type = "ins" /\ o.id \in Ids(d)
  BY DEF Elements, Ids, Ins
<1>4. ASSUME NEW id \in Ids(d) PROVE \E o \in Elements(d) : o.id = id
  <2>1. PICK i \in DOMAIN d.nodes : d.nodes[i].id = id
    BY DEF Ids
  <2> DEFINE o == Ins(d.nodes[i].id, d.nodes[i].origin)
  <2>2. o \in Elements(d)
    BY DEF Elements
  <2>3. o.id = id
    BY <2>1 DEF Ins
  <2> QED
    BY <2>2, <2>3
<1> QED
  BY <1>1, <1>2, <1>3, <1>4

\* The counters in a snapshot are numbers with a greatest one.
LEMMA TopIsGreatest ==
  ASSUME NEW K, Named(K), NEW d, Fits(d, K), NEW s \in Sites, NEW x \in Authors
  PROVE  /\ Max(Tops(s, d, x)) \in Nat
         /\ Max(Tops(s, d, x)) \in Tops(s, d, x)
         /\ \A y \in Tops(s, d, x) : y \in Nat /\ y <= Max(Tops(s, d, x))
<1> DEFINE T == Tops(s, d, x)
           b == d.counter + Len(d.nodes) + d.attr[1]
<1>1. d \in Doc /\ d.counter \in Nat /\ Len(d.nodes) \in Nat /\ d.attr[1] \in Nat
  BY DocFields DEF Fits, Id
<1>2. \A o \in Elements(d) : o.id[1] \in Nat /\ o.id[1] <= d.counter
  BY ElementsAre
<1>3. \A o \in Tombs(s, d) : o.id[1] \in Nat /\ o.id[1] <= Len(d.nodes)
  BY <1>1, TombsAre, OpFacts
<1>4. \A id \in Ids(d) : id[1] \in Nat /\ id[1] <= d.counter
  BY ElementsAre
<1>5. ASSUME NEW y \in T PROVE y \in Nat /\ y <= b
  <2>1. \/ y = 0
        \/ \E o \in Elements(d) : y = o.id[1]
        \/ \E o \in Tombs(s, d) : y = o.id[1]
        \/ \E id \in Ids(d) : y = id[1]
        \/ y = d.attr[1]
    BY DEF Tops
  <2> QED
    BY <2>1, <1>1, <1>2, <1>3, <1>4
<1>6. T # {} /\ T \subseteq Nat /\ b \in Nat
  <2>1. 0 \in T
    BY DEF Tops
  <2> QED
    BY <2>1, <1>1, <1>5
<1> HIDE DEF T, b
<1>7. Max(T) \in T /\ \A y \in T : y <= Max(T)
  BY <1>5, <1>6, MaxIsGreatest
<1> QED
  BY <1>6, <1>7 DEF T

\* The counter of a snapshot is above all ids in it.
LEMMA MarkIsGreatest ==
  ASSUME NEW K, Named(K), NEW d, Fits(d, K)
  PROVE  /\ Max(Marks(d)) \in Nat
         /\ \A y \in Marks(d) : y \in Nat /\ y <= Max(Marks(d))
<1> DEFINE T == Marks(d)
           b == d.counter + d.attr[1]
<1>1. d \in Doc /\ d.counter \in Nat /\ d.attr[1] \in Nat
  BY DocFields DEF Fits, Id
<1>2. \A id \in Ids(d) : id[1] \in Nat /\ id[1] <= d.counter
  BY ElementsAre
<1>3. ASSUME NEW y \in T PROVE y \in Nat /\ y <= b
  <2>1. y = HEAD[1] \/ (\E id \in Ids(d) : y = id[1]) \/ y = d.attr[1]
    BY DEF Marks
  <2>2. HEAD[1] = 0
    BY DEF HEAD
  <2> QED
    BY <2>1, <2>2, <1>1, <1>2
<1>4. T # {} /\ T \subseteq Nat /\ b \in Nat
  BY <1>1, <1>3 DEF Marks
<1> HIDE DEF T, b
<1>5. Max(T) \in T /\ \A y \in T : y <= Max(T)
  BY <1>3, <1>4, MaxIsGreatest
<1> QED
  BY <1>4, <1>5 DEF T

\* The known operations are well named with the deletes of a snapshot.
LEMMA SnapshotNamed ==
  ASSUME NEW K, Named(K), NEW d, Fits(d, K), NEW s \in Sites, \A o \in K : o.id[2] # -s
  PROVE  Named(K \cup Tombs(s, d))
<1> DEFINE Z == Tombs(s, d)
           L == K \cup Z
<1>1. d \in Doc /\ d.nodes \in Seq(Node) /\ K \subseteq Op /\ IsFiniteSet(K)
  BY DocFields DEF Fits, Named
<1>2. IsFiniteSet(Z) /\ Z \subseteq Op
  BY <1>1, TombsAre
<1>3. \A o \in Z : /\ o.type = "del" /\ o.id[2] = -s
                   /\ \E i \in DeadAt(d) : o.ref = d.nodes[i].id
  BY <1>1, TombsAre
<1>4. \A o, p \in Z : o.id = p.id => o = p
  BY <1>1, TombsAre
<1> HIDE DEF Z
<1>5. L \subseteq Op /\ IsFiniteSet(L)
  BY <1>1, <1>2, FS_Union
<1>6. \A o, p \in L : o.id = p.id => o = p
  <2> SUFFICES ASSUME NEW o \in L, NEW p \in L, o.id = p.id PROVE o = p
    OBVIOUS
  <2>1. CASE o \in K /\ p \in K
    BY <2>1 DEF Named
  <2>2. CASE o \in Z /\ p \in Z
    BY <2>2, <1>4
  <2> QED
    BY <2>1, <2>2, <1>3
<1>7. ASSUME NEW o \in Z
      PROVE  o.ref # HEAD /\ \E p \in K : p.type = "ins" /\ p.id = o.ref
  <2>1. PICK i \in DOMAIN d.nodes : o.ref = d.nodes[i].id
    BY <1>3 DEF DeadAt
  <2>2. d.nodes[i].id # HEAD
    BY <1>1, NodeIds
  <2> DEFINE p == Ins(d.nodes[i].id, d.nodes[i].origin)
  <2>3. p \in K
    BY DEF Fits
  <2>4. p.type = "ins" /\ p.id = o.ref
    BY <2>1 DEF Ins
  <2> HIDE DEF p
  <2> QED
    BY <2>1, <2>2, <2>3, <2>4
<1>8. ASSUME NEW o \in L
      PROVE  /\ o.type = "ins" => o.id[2] > 0 /\ o.ref[1] < o.id[1]
             /\ o.type = "del" => o.ref # HEAD
             /\ o.type # "write" /\ o.ref # HEAD
                  => \E p \in L : p.type = "ins" /\ p.id = o.ref
  <2>1. CASE o \in Z
    BY <2>1, <1>3, <1>7
  <2>2. CASE o \in K
    BY <2>2 DEF Named
  <2> QED
    BY <2>1, <2>2
<1>9. Named(L)
  <2> HIDE DEF L
  <2> QED
    BY <1>5, <1>6, <1>8 DEF Named
<1> QED
  BY <1>9 DEF Z

\* The vector and the counter of a snapshot are those of its operations.
LEMMA SnapshotSeen ==
  ASSUME NEW K, Named(K), NEW d, Fits(d, K), NEW s \in Sites, NEW e, e = FromSnapshot(s, d)
  PROVE  /\ e \in Doc
         /\ \A o \in e.log : o.id[1] <= e.seen[o.id[2]]
         /\ \A x \in Authors : \/ e.seen[x] = 0
                               \/ \E o \in e.log : o.id = <<e.seen[x], x>>
                               \/ d.attr # HEAD /\ d.attr = <<e.seen[x], x>>
         /\ \A x \in Sites : e.seen[x] <= e.counter
         /\ \A i \in DOMAIN d.nodes : d.nodes[i].id[1] <= e.counter
<1>1. /\ e.nodes = d.nodes /\ e.buffer = {} /\ e.attr = d.attr
      /\ e.log = Elements(d) \cup Tombs(s, d)
      /\ e.counter = Max(Marks(d))
      /\ e.seen = [x \in DOMAIN d.seen |-> Max(Tops(s, d, x))]
      /\ e = [nodes |-> d.nodes, buffer |-> {}, log |-> e.log, attr |-> d.attr,
              counter |-> e.counter, seen |-> e.seen]
  BY SnapshotFields
<1>2. d \in Doc /\ d.nodes \in Seq(Node) /\ d.attr \in Id /\ DOMAIN d.seen = Authors
  BY DocFields DEF Fits
<1>3. e.log \subseteq Op
  BY <1>1, <1>2, ElementsAre, TombsAre
<1>4. e.seen \in [Authors -> Nat] /\ \A x \in Authors : e.seen[x] = Max(Tops(s, d, x))
  BY <1>1, <1>2, TopIsGreatest
<1>5. e.counter \in Nat
  BY <1>1, MarkIsGreatest
<1>6. e \in Doc
  BY <1>1, <1>2, <1>3, <1>4, <1>5 DEF Doc
<1>7. ASSUME NEW o \in e.log PROVE o.id[1] <= e.seen[o.id[2]]
  <2>1. o.id[2] \in Authors
    BY <1>3, OpFacts
  <2>2. o.id[1] \in Tops(s, d, o.id[2])
    BY <1>1 DEF Tops
  <2> QED
    BY <2>1, <2>2, <1>4, TopIsGreatest
<1>8. ASSUME NEW x \in Authors
      PROVE  \/ e.seen[x] = 0
             \/ \E o \in e.log : o.id = <<e.seen[x], x>>
             \/ d.attr # HEAD /\ d.attr = <<e.seen[x], x>>
  <2> DEFINE v == e.seen[x]
  <2>1. v \in Tops(s, d, x)
    BY <1>4, TopIsGreatest
  <2> HIDE DEF v
  <2>2. \/ v = 0
        \/ \E o \in e.log : o.id[2] = x /\ v = o.id[1]
        \/ \E id \in Ids(d) : id[2] = x /\ v = id[1]
        \/ d.attr[2] = x /\ v = d.attr[1]
    BY <2>1, <1>1 DEF Tops
  <2>3. CASE v = 0
    BY <2>3 DEF v
  <2>4. CASE \E o \in e.log : o.id[2] = x /\ v = o.id[1]
    BY <2>4, <1>3, OpFacts DEF v
  <2>5. CASE \E id \in Ids(d) : id[2] = x /\ v = id[1]
    <3>1. PICK id \in Ids(d) : id[2] = x /\ v = id[1]
      BY <2>5
    <3>2. PICK o \in Elements(d) : o.id = id
      BY ElementsAre
    <3>3. o \in e.log
      BY <1>1
    <3> QED
      BY <3>1, <3>2, <3>3, <1>3, OpFacts DEF v
  <2>6. CASE d.attr[2] = x /\ v = d.attr[1]
    <3>1. d.attr = <<v, x>>
      BY <2>6, <1>2 DEF Id
    <3>2. d.attr = HEAD => v = 0
      BY <2>6 DEF HEAD
    <3> QED
      BY <3>1, <3>2 DEF v
  <2> QED
    BY <2>2, <2>3, <2>4, <2>5, <2>6
<1>9. \A id \in Ids(d) : id[1] \in Marks(d) /\ id[1] <= e.counter
  <2> SUFFICES ASSUME NEW id \in Ids(d) PROVE id[1] \in Marks(d) /\ id[1] <= e.counter
    OBVIOUS
  <2>1. id[1] \in Marks(d)
    BY DEF Marks
  <2> QED
    BY <2>1, <1>1, MarkIsGreatest
<1>10. d.attr[1] <= e.counter
  <2>1. d.attr[1] \in Marks(d)
    BY DEF Marks
  <2> QED
    BY <2>1, <1>1, MarkIsGreatest
<1>11. ASSUME NEW x \in Sites PROVE e.seen[x] <= e.counter
  <2>1. x \in Authors
    BY DEF Authors
  <2> DEFINE v == e.seen[x]
  <2>2. v \in Tops(s, d, x)
    BY <2>1, <1>4, TopIsGreatest
  <2> HIDE DEF v
  <2>3. \/ v = 0
        \/ \E o \in Elements(d) : v = o.id[1]
        \/ \E o \in Tombs(s, d) : o.id[2] = x
        \/ \E id \in Ids(d) : v = id[1]
        \/ v = d.attr[1]
    BY <2>2 DEF Tops
  <2>4. \A o \in Tombs(s, d) : o.id[2] # x
    <3>1. \A o \in Tombs(s, d) : o.id[2] = -s
      BY <1>2, TombsAre
    <3>2. -s # x
      BY SitesAssumption
    <3> QED
      BY <3>1, <3>2
  <2>5. \A o \in Elements(d) : o.id \in Ids(d)
    BY ElementsAre
  <2>6. v <= e.counter
    BY <2>3, <2>4, <2>5, <1>5, <1>9, <1>10
  <2> QED
    BY <2>6 DEF v
<1>12. \A i \in DOMAIN d.nodes : d.nodes[i].id[1] <= e.counter
  BY <1>9 DEF Ids
<1> QED
  BY <1>6, <1>7, <1>8, <1>11, <1>12

\* A replica loaded from a snapshot fits.
LEMMA SnapshotFits ==
  ASSUME NEW K, Named(K), NEW d, Fits(d, K), NEW s \in Sites, NEW e, e = FromSnapshot(s, d)
  PROVE  /\ Fits(e, K \cup Tombs(s, d))
         /\ e.nodes = d.nodes /\ e.attr = d.attr /\ e.buffer = {}
         /\ e.log = Elements(d) \cup Tombs(s, d)
<1> DEFINE L == K \cup Tombs(s, d)
<1>1. /\ e.nodes = d.nodes /\ e.buffer = {} /\ e.attr = d.attr
      /\ e.log = Elements(d) \cup Tombs(s, d)
  BY SnapshotFields
<1>2. e \in Doc /\ \A o \in e.log : o.id[1] <= e.seen[o.id[2]]
  BY SnapshotSeen
<1>3. \A x \in Sites : e.seen[x] <= e.counter
  BY SnapshotSeen
<1>4. d \in Doc /\ Elements(d) \subseteq K
  BY ElementsAre DEF Fits
<1>5. e.log \subseteq L
  BY <1>1, <1>4
<1>6. ASSUME NEW o \in e.log PROVE Effected(e, o)
  <2>1. CASE o \in Elements(d)
    <3>1. o.type = "ins" /\ o.id \in Ids(d)
      BY <2>1, ElementsAre
    <3> QED
      BY <3>1, <1>1 DEF Effected, Ids
  <2>2. CASE o \in Tombs(s, d)
    <3>1. o.type = "del" /\ \E i \in DeadAt(d) : o.ref = d.nodes[i].id
      BY <2>2, <1>4, TombsAre
    <3> QED
      BY <3>1, <1>1 DEF Effected, DeadAt
  <2> QED
    BY <2>1, <2>2, <1>1
<1>7. Fits(d, L)
  BY FitsMore
<1>8. \A i \in DOMAIN d.nodes : /\ Ins(d.nodes[i].id, d.nodes[i].origin) \in e.log
                                /\ d.nodes[i].id[1] <= e.counter
  BY <1>1, SnapshotSeen DEF Elements
<1>9. ASSUME NEW x \in Authors PROVE e.seen[x] = 0 \/ \E op \in L : op.id = <<e.seen[x], x>>
  <2>1. d.attr = HEAD \/ \E op \in L : op.id = d.attr
    BY <1>7 DEF Fits
  <2>2. \/ e.seen[x] = 0
        \/ \E o \in e.log : o.id = <<e.seen[x], x>>
        \/ d.attr # HEAD /\ d.attr = <<e.seen[x], x>>
    BY SnapshotSeen
  <2> QED
    BY <2>1, <2>2, <1>5
<1> HIDE DEF L
<1>10. /\ Distinct(d.nodes) /\ Nearest(d.nodes)
       /\ d.attr = HEAD \/ \E op \in L : op.type = "write" /\ op.id = d.attr
       /\ \A i \in DOMAIN d.nodes : d.nodes[i].deleted
            => \E op \in L : op.type = "del" /\ op.ref = d.nodes[i].id
  BY <1>7 DEF Fits
<1>11. /\ Distinct(e.nodes) /\ Nearest(e.nodes)
       /\ e.attr = HEAD \/ \E op \in L : op.type = "write" /\ op.id = e.attr
       /\ e.buffer \subseteq {op \in L : op.type # "write"}
  BY <1>1, <1>10
<1>12. \A i \in DOMAIN e.nodes : /\ Ins(e.nodes[i].id, e.nodes[i].origin) \in e.log
                                 /\ e.nodes[i].id[1] <= e.counter
                                 /\ e.nodes[i].deleted
                                      => \E op \in L : op.type = "del" /\ op.ref = e.nodes[i].id
  BY <1>1, <1>8, <1>10, Zenon
<1>13. \A o \in e.log : Effected(e, o) /\ o.id[1] <= e.seen[o.id[2]]
  BY <1>2, <1>6
<1>14. Fits(e, L)
  BY <1>2, <1>3, <1>5, <1>9, <1>11, <1>12, <1>13, Zenon DEF Fits
<1> QED
  BY <1>1, <1>14 DEF L

\* A site that joins has not been seen before.
LEMMA JoinerIsNew ==
  ASSUME IInv, NEW s \in Sites \ Open
  PROVE  /\ \A op \in Known : op.id[2] # -s
         /\ \A t \in Open : docs[t].seen[-s] = 0
<1>1. s \in Nat /\ s > 0
  BY SitesAssumption
<1>2. ASSUME NEW op \in Known PROVE op.id[2] # -s
  <2>1. SUFFICES ASSUME op.id[2] = -s PROVE FALSE
    OBVIOUS
  <2>2. -op.id[2] \in Open
    BY <2>1, <1>1 DEF IInv, Authored
  <2>3. -op.id[2] = s
    BY <2>1, <1>1
  <2> QED
    BY <2>2, <2>3
<1>3. ASSUME NEW t \in Open PROVE docs[t].seen[-s] = 0
  <2>1. -s \in Authors
    BY DEF Authors, SnapSite
  <2>2. Fits(docs[t], Known)
    BY DEF IInv, Replicas
  <2>3. docs[t].seen[-s] = 0 \/ \E op \in Known : op.id = <<docs[t].seen[-s], -s>>
    BY <2>1, <2>2 DEF Fits
  <2> QED
    BY <2>3, <1>2
<1> QED
  BY <1>2, <1>3

\* What is known after a site has joined.
LEMMA JoinKnown ==
  ASSUME IInv, NEW s \in Sites \ Open, NEW peer \in Open, Join(s, peer)
  PROVE  /\ Open' = Open \cup {s}
         /\ \A t \in Sites : docs'[t] = IF t = s THEN FromSnapshot(s, docs[peer]) ELSE docs[t]
         /\ Known' = Known \cup Tombs(s, docs[peer])
         /\ Named(Known \cup Tombs(s, docs[peer]))
<1> DEFINE d == docs[peer]
           e == FromSnapshot(s, d)
           Z == Tombs(s, d)
<1>1. Named(Known) /\ Fits(d, Known) /\ d \in Doc
  BY DEF IInv, Replicas, Fits
<1>2. e \in Doc /\ e # Absent
  BY <1>1, SnapshotSeen, AbsentIsNoDoc
<1>3. e.log = Elements(d) \cup Z
  <2> HIDE DEF d
  <2>1. FromSnapshot(s, d).log = Elements(d) \cup Tombs(s, d)
    BY SnapshotFields, Zenon
  <2> QED
    BY <2>1
<1>4. \A o \in Elements(d) : ~(o.id[2] < 0)
  <2>1. \A o \in Elements(d) : o.id[2] \in Sites
    BY <1>1, ElementsAre
  <2>2. \A x \in Sites : ~(x < 0)
    BY SitesAssumption
  <2> QED
    BY <2>1, <2>2, Zenon
<1>5. \A o \in Z : o.id[2] < 0
  <2>1. \A o \in Z : o.id[2] = -s
    BY <1>1, TombsAre
  <2> QED
    BY <2>1, SitesAssumption
<1>6. sent' = sent /\ docs' = [docs EXCEPT ![s] = e] /\ DOMAIN docs = Sites
  BY DEF Join, IInv, TypeInv
<1> HIDE DEF e, Z, d
<1>7. \A t \in Sites : docs'[t] = IF t = s THEN e ELSE docs[t]
  BY <1>6
<1>8. Open' = Open \cup {s}
  BY <1>2, <1>7 DEF Open
<1>9. ASSUME NEW op \in Known' PROVE op \in Known \cup Z
  <2>1. CASE op \in sent'
    BY <2>1, <1>6 DEF Known
  <2>2. CASE op \notin sent'
    <3>1. PICK u \in Open \cup {s} : op \in docs'[u].log /\ op.id[2] < 0
      BY <1>8, <2>2 DEF Known
    <3>2. u \in Sites
      BY DEF Open
    <3>3. CASE u = s
      BY <3>1, <3>2, <3>3, <1>3, <1>4, <1>7
    <3>4. CASE u # s
      BY <3>1, <3>2, <3>4, <1>7 DEF Known
    <3> QED
      BY <3>3, <3>4
  <2> QED
    BY <2>1, <2>2
<1>10. ASSUME NEW op \in Known \cup Z PROVE op \in Known'
  <2>1. CASE op \in sent
    BY <2>1, <1>6 DEF Known
  <2>2. CASE op \in Z
    <3>1. s \in Open' /\ op \in docs'[s].log /\ op.id[2] < 0
      BY <2>2, <1>3, <1>5, <1>7, <1>8
    <3> QED
      BY <3>1 DEF Known
  <2>3. CASE op \notin sent \cup Z
    <3>1. PICK u \in Open : op \in docs[u].log /\ op.id[2] < 0
      BY <2>3 DEF Known
    <3>2. u \in Sites /\ u # s
      BY DEF Open
    <3>3. u \in Open' /\ op \in docs'[u].log
      BY <3>1, <3>2, <1>7, <1>8
    <3> QED
      BY <3>1, <3>3 DEF Known
  <2> QED
    BY <2>1, <2>2, <2>3
<1>11. Known' = Known \cup Z
  BY <1>9, <1>10
<1>12. Named(Known \cup Z)
  BY <1>1, JoinerIsNew, SnapshotNamed DEF Z
<1> QED
  BY <1>7, <1>8, <1>11, <1>12 DEF e, Z, d

\* Joining keeps the invariant.
LEMMA JoinKeeps ==
  ASSUME IInv, NEW s \in Sites \ Open, NEW peer \in Open, Join(s, peer)
  PROVE  IInv'
<1> DEFINE d == docs[peer]
           e == FromSnapshot(s, d)
           Z == Tombs(s, d)
<1>1. Named(Known) /\ Fits(d, Known) /\ d \in Doc
  BY DEF IInv, Replicas, Fits
<1>2. Open' = Open \cup {s} /\ Known' = Known \cup Z /\ Named(Known')
  BY JoinKnown
<1>3. \A t \in Sites : docs'[t] = IF t = s THEN e ELSE docs[t]
  BY JoinKnown
<1>4. Fits(e, Known \cup Z) /\ e.buffer = {}
  BY <1>1, SnapshotFits
<1>5. sent' = sent /\ kind' = kind /\ docs' = [docs EXCEPT ![s] = e]
  BY DEF Join
<1>6. TypeInv'
  <2>1. e \in Doc
    BY <1>4 DEF Fits
  <2> HIDE DEF e
  <2> QED
    BY <2>1, <1>2, <1>5 DEF IInv, TypeInv
<1>7. ASSUME NEW op \in sent'
      PROVE  /\ op.id[2] \in Open'
             /\ op.id[1] <= docs'[op.id[2]].seen[op.id[2]]
             /\ op.type = "write" => kind'[1] = "block"
  <2>1. /\ op.id[2] \in Open /\ op.id[1] <= docs[op.id[2]].seen[op.id[2]]
        /\ op.type = "write" => kind[1] = "block"
    BY <1>5 DEF IInv, Authored
  <2>2. op.id[2] \in Sites /\ op.id[2] # s
    BY <2>1 DEF Open
  <2>3. docs'[op.id[2]] = docs[op.id[2]]
    BY <2>2, <1>3
  <2> QED
    BY <2>1, <2>3, <1>2, <1>5
<1>8. ASSUME NEW op \in Known', op.id[2] < 0
      PROVE  /\ -op.id[2] \in Open'
             /\ op.type = "del"
             /\ \E o \in sent' : o.type = "del" /\ o.ref = op.ref
  <2>1. CASE op \in Known
    BY <2>1, <1>2, <1>5, <1>8 DEF IInv, Authored
  <2>2. CASE op \in Z
    <3>1. op.type = "del" /\ op.id[2] = -s /\ \E i \in DeadAt(d) : op.ref = d.nodes[i].id
      BY <2>2, <1>1, TombsAre
    <3>2. -op.id[2] = s
      BY <3>1, SitesAssumption
    <3>3. PICK o \in Known : o.type = "del" /\ o.ref = op.ref
      BY <3>1, <1>1 DEF Fits, DeadAt
    <3>4. \E q \in sent : q.type = "del" /\ q.ref = op.ref
      <4>1. CASE o \in sent
        BY <4>1, <3>3
      <4>2. CASE o \notin sent
        <5>1. o.id[2] < 0
          BY <4>2, <1>1, KnownSites
        <5> QED
          BY <5>1, <3>3 DEF IInv, Authored
      <4> QED
        BY <4>1, <4>2
    <3> QED
      BY <3>1, <3>2, <3>4, <1>2, <1>5
  <2> QED
    BY <2>1, <2>2, <1>2
<1>9. ASSUME NEW t \in Open' PROVE Fits(docs'[t], Known') /\ Settled(docs'[t])
  <2>1. CASE t = s
    BY <2>1, <1>2, <1>3, <1>4 DEF Settled
  <2>2. CASE t \in Open
    <3>1. docs'[t] = docs[t]
      BY <2>2, <1>3 DEF Open
    <3>2. Fits(docs[t], Known) /\ Settled(docs[t])
      BY <2>2 DEF IInv, Replicas
    <3>3. Fits(docs[t], Known \cup Z)
      BY <3>2, FitsMore
    <3> QED
      BY <3>1, <3>2, <3>3, <1>2
  <2> QED
    BY <2>1, <2>2, <1>2
<1>10. Authored' /\ Replicas'
  BY <1>7, <1>8, <1>9 DEF Authored, Replicas
<1> QED
  BY <1>2, <1>6, <1>10 DEF IInv

\* A text replica that joins is in step if its peer was.
LEMMA SnapshotInStep ==
  ASSUME NEW K, Named(K), NEW d, Fits(d, K), InStep(d, K), NEW s \in Sites,
         kind[1] = "text", \A o \in K : o.type # "write" /\ o.id[2] # -s,
         NEW e, e = FromSnapshot(s, d)
  PROVE  InStep(e, K \cup Tombs(s, d))
<1> DEFINE Z == Tombs(s, d)
<1>1. /\ Fits(e, K \cup Z) /\ e.nodes = d.nodes /\ e.attr = d.attr /\ e.buffer = {}
      /\ e.log = Elements(d) \cup Z
  BY SnapshotFits
<1>2. d \in Doc /\ e \in Doc /\ Elements(d) \subseteq d.log /\ K \subseteq Op /\ d.attr = HEAD
  <2>1. d \in Doc /\ e \in Doc /\ K \subseteq Op
    BY <1>1 DEF Fits, Named
  <2>2. Elements(d) \subseteq d.log
    BY ElementsAre
  <2>3. d.attr = HEAD
    BY DEF Fits
  <2> QED
    BY <2>1, <2>2, <2>3
<1>3. \A o \in Z : o.type = "del" /\ o.id[2] = -s /\ o \in Op
  BY <1>2, TombsAre
<1>4. \A i \in DeadAt(d) : \E o \in Z : o.ref = d.nodes[i].id
  BY <1>2, TombsAre
<1> HIDE DEF Z
<1>5. Served(e)
  <2> SUFFICES ASSUME NEW i \in DOMAIN d.nodes, d.nodes[i].deleted
               PROVE  \E op \in e.log : op.type = "del" /\ op.ref = d.nodes[i].id
    BY <1>1, <1>2 DEF Served
  <2>1. PICK o \in Z : o.ref = d.nodes[i].id
    BY <1>4 DEF DeadAt
  <2> QED
    BY <2>1, <1>1, <1>3
<1>6. ASSUME NEW o \in K \cup Z, o.id[1] <= e.seen[o.id[2]] PROVE Effected(e, o)
  <2>1. CASE o \in Z
    BY <2>1, <1>1 DEF Fits
  <2>2. CASE o \in K
    <3>1. o.id[1] \in Nat /\ o.id[1] > 0 /\ o.id[2] \in Authors
      BY <2>2, <1>2, OpFacts
    <3> DEFINE x == o.id[2]
    <3>2. e.seen[x] \in Nat /\ d.seen[x] \in Nat
      BY <3>1, <1>2, DocFields
    <3>3. PICK p \in e.log : p.id = <<e.seen[x], x>>
      <4>1. \/ e.seen[x] = 0
            \/ \E q \in e.log : q.id = <<e.seen[x], x>>
            \/ d.attr # HEAD
        BY <3>1, SnapshotSeen
      <4>2. e.seen[x] # 0
        BY <3>1, <3>2, <1>6
      <4> QED
        BY <4>1, <4>2, <1>2
    <3>4. p \in Elements(d)
      BY <3>3, <2>2, <1>1, <1>3
    <3>5. p.id[1] <= d.seen[p.id[2]]
      BY <3>4, <1>2 DEF Fits
    <3>6. o.id[1] <= d.seen[x]
      BY <3>1, <3>2, <3>3, <3>5, <1>6
    <3>7. Effected(d, o)
      BY <3>6, <2>2 DEF InStep, Covers
    <3> QED
      BY <3>7, <1>1 DEF Effected, Ids
  <2> QED
    BY <2>1, <2>2
<1> QED
  BY <1>1, <1>5, <1>6 DEF InStep, Covers, Z

-----------------------------------------------------------------------------
(* The invariant. *)

\* It holds for empty documents.
LEMMA InitInv == Init => IInv /\ Synced
<1> SUFFICES ASSUME Init PROVE IInv /\ Synced
  OBVIOUS
<1>1. kind \in Kinds /\ sent = {} /\ docs = [s \in Sites |-> IF s \in Founders THEN NewDoc ELSE Absent]
  BY DEF Init
<1>2. /\ NewDoc \in Doc /\ NewDoc.log = {} /\ NewDoc.buffer = {} /\ NewDoc.nodes = <<>>
      /\ NewDoc.counter = 0 /\ NewDoc.attr = HEAD /\ \A x \in Authors : NewDoc.seen[x] = 0
  <2>1. NewDoc.seen = [x \in Authors |-> 0] /\ NewDoc.nodes = <<>> /\ NewDoc.attr = HEAD
    BY DEF NewDoc, Authors
  <2>2. <<>> \in Seq(Node) /\ HEAD \in Id
    BY DEF HEAD, Id
  <2> QED
    BY <2>1, <2>2 DEF NewDoc, Doc, Authors
<1>3. Open = {s \in Sites : s \in Founders} /\ \A s \in Open : docs[s] = NewDoc
  BY <1>1, <1>2, AbsentIsNoDoc DEF Open
<1>4. Founders \subseteq Open
  BY <1>3 DEF Sites
<1>5. Known = {}
  BY <1>1, <1>2, <1>3 DEF Known
<1>6. DOMAIN NewDoc.nodes = {}
  BY <1>2
<1>7. TypeInv
  BY <1>1, <1>2, <1>4 DEF TypeInv
<1>8. Named(Known)
  BY <1>5, FS_EmptySet DEF Named
<1>9. Authored
  BY <1>1, <1>5 DEF Authored
<1>10. Fits(NewDoc, {})
  <2>1. \A x \in Sites : NewDoc.seen[x] <= NewDoc.counter
    BY <1>2 DEF Authors
  <2> QED
    BY <2>1, <1>2, <1>6 DEF Fits, Distinct, Nearest
<1>11. Settled(NewDoc) /\ Served(NewDoc) /\ Covers(NewDoc, {})
  BY <1>2, <1>6 DEF Settled, Served, Covers
<1>12. Replicas
  BY <1>3, <1>5, <1>10, <1>11 DEF Replicas
<1>13. Synced
  BY <1>2, <1>3, <1>5, <1>11 DEF Synced, InStep
<1> QED
  BY <1>7, <1>8, <1>9, <1>12, <1>13 DEF IInv

\* Every edit, delivery, pull and join keeps it.
LEMMA NextInv == IInv /\ [Next]_vars => IInv'
<1> SUFFICES ASSUME IInv, [Next]_vars PROVE IInv'
  OBVIOUS
<1>1. CASE UNCHANGED vars
  <2>1. Open' = Open /\ Known' = Known
    BY <1>1 DEF vars, Open, Known
  <2>2. TypeInv' /\ Named(Known')
    BY <1>1, <2>1 DEF vars, IInv, TypeInv
  <2>3. Authored'
    BY <1>1, <2>1 DEF vars, IInv, Authored
  <2>4. Replicas'
    BY <1>1, <2>1 DEF vars, IInv, Replicas
  <2> QED
    BY <2>2, <2>3, <2>4 DEF IInv
<1>2. ASSUME NEW s \in Open, LocalInsert(s) \/ LocalDelete(s) \/ SetBlockAttr(s) PROVE IInv'
  <2>1. PICK op : Edit(s, op) /\ Local(s, op)
    BY <1>2, LocalIsEdit
  <2> QED
    BY <2>1, EditStep, StepOfKeeps
<1>3. ASSUME NEW s \in Open, Deliver(s) PROVE IInv'
  BY <1>3, DeliverStep, StepOfKeeps
<1>4. ASSUME NEW s \in Open, NEW peer \in Open, Pull(s, peer) PROVE IInv'
  BY <1>4, PullStep, StepOfKeeps
<1>5. ASSUME NEW s \in Sites \ Open, NEW peer \in Open, Join(s, peer) PROVE IInv'
  BY <1>5, JoinKeeps
<1> QED
  BY <1>1, <1>2, <1>3, <1>4, <1>5 DEF Next

\* It is an invariant of the replicas.
LEMMA InvHolds == Spec => []IInv
BY InitInv, NextInv, PTL DEF Spec

\* A replica may load a snapshot only where it can serve what it has loaded:
\* BlockDoc.fromSnapshot restores no delete and no attribute as an operation.
Supported == <<"block", "sync">> \in Kinds => Joiners \subseteq Founders

\* Other replicas stay in step with operations that are later than their vectors.
LEMMA StaysInStep ==
  ASSUME NEW K, NEW X, NEW d, InStep(d, K),
         \A op \in X : ~(op.id[1] <= d.seen[op.id[2]])
  PROVE  InStep(d, K \cup X)
BY DEF InStep, Covers

\* A step that leaves its replica in step, and whose operations no other
\* replica has seen, leaves all in step.
LEMMA StepOfSynced ==
  ASSUME IInv, Synced, NEW s \in Open, NEW e, NEW X, StepOf(s, e, X),
         kind[2] = "sync" => InStep(e, Known \cup X),
         \A t \in Open, op \in X : t # s => ~(op.id[1] <= docs[t].seen[op.id[2]])
  PROVE  Synced'
<1>1. Open' = Open /\ Known' = Known \cup X
  BY StepOfKnown
<1>2. \A t \in Sites : docs'[t] = IF t = s THEN e ELSE docs[t]
  BY StepOfKnown
<1> SUFFICES ASSUME kind[2] = "sync", NEW t \in Open PROVE InStep(docs'[t], Known')
  BY <1>1 DEF Synced, StepOf
<1>3. t \in Sites
  BY DEF Open
<1>4. CASE t = s
  BY <1>1, <1>2, <1>3, <1>4
<1>5. CASE t # s
  <2>1. InStep(docs[t], Known)
    BY DEF Synced
  <2>2. InStep(docs[t], Known \cup X)
    BY <2>1, <1>5, StaysInStep
  <2> QED
    BY <2>2, <1>1, <1>2, <1>3, <1>5
<1> QED
  BY <1>4, <1>5

\* Every step keeps the replicas in step, where snapshots are supported.
LEMMA NextSynced == Supported /\ IInv /\ Synced /\ [Next]_vars => Synced'
<1> SUFFICES ASSUME Supported, IInv, Synced, [Next]_vars PROVE Synced'
  OBVIOUS
<1>1. CASE UNCHANGED vars
  <2>1. Open' = Open /\ Known' = Known
    BY <1>1 DEF vars, Open, Known
  <2> QED
    BY <1>1, <2>1 DEF vars, Synced
<1>2. ASSUME NEW s \in Open, LocalInsert(s) \/ LocalDelete(s) \/ SetBlockAttr(s) PROVE Synced'
  <2>1. PICK op : Edit(s, op) /\ Local(s, op)
    BY <1>2, LocalIsEdit
  <2> DEFINE e == Apply(docs[s], op)
  <2>2. StepOf(s, e, {op})
    BY <2>1, EditStep
  <2>3. kind[2] = "sync" => InStep(e, Known \cup {op})
    BY <2>1, EditInStep DEF Synced
  <2>4. ASSUME NEW t \in Open PROVE ~(op.id[1] <= docs[t].seen[op.id[2]])
    <3>1. /\ op.id[1] = docs[s].counter + 1 /\ op.id[2] = s
          /\ docs[s].seen[s] <= docs[s].counter /\ docs[s].seen[s] \in Nat
          /\ docs[s].counter \in Nat
      BY <2>1, EditIsNew
    <3>2. \A p \in Known : p.id[2] = s => p.id[1] <= docs[s].seen[s]
      BY <2>1, EditIsNew
    <3>3. s \in Authors /\ docs[t] \in Doc /\ Fits(docs[t], Known)
      BY OpenDocs DEF IInv, Authors, Replicas
    <3>4. docs[t].seen[s] \in Nat
      BY <3>3, DocFields
    <3>5. docs[t].seen[s] = 0 \/ \E p \in Known : p.id = <<docs[t].seen[s], s>>
      BY <3>3 DEF Fits
    <3>6. docs[t].seen[s] <= docs[s].seen[s]
      BY <3>1, <3>2, <3>5
    <3> QED
      BY <3>1, <3>4, <3>6
  <2> HIDE DEF e
  <2> QED
    BY <2>2, <2>3, <2>4, StepOfSynced
<1>3. ASSUME NEW s \in Open, Deliver(s) PROVE Synced'
  <2>1. kind[2] = "broadcast" /\ kind' = kind
    BY <1>3 DEF Deliver
  <2> QED
    BY <2>1 DEF Synced
<1>4. ASSUME NEW s \in Open, NEW peer \in Open, Pull(s, peer) PROVE Synced'
  <2> DEFINE ops == OpsSince(docs[peer], docs[s].seen)
             e == ApplyMany(docs[s], ops)
  <2>1. StepOf(s, e, {}) /\ Grows(docs[s], e, ops)
    BY <1>4, PullStep
  <2>2. kind[2] = "sync" => InStep(e, Known \cup {})
    <3>1. SUFFICES ASSUME kind[2] = "sync" PROVE InStep(e, Known)
      BY Known \cup {} = Known
    <3>2. InStep(docs[s], Known) /\ InStep(docs[peer], Known)
      BY <3>1 DEF Synced
    <3>3. Named(Known) /\ Fits(docs[s], Known) /\ Fits(docs[peer], Known)
      BY DEF IInv, Replicas
    <3>4. Fits(e, Known) /\ Settled(e)
      <4>1. Known \cup {} = Known
        OBVIOUS
      <4> HIDE DEF e
      <4> QED
        BY <2>1, <4>1 DEF StepOf
    <3> HIDE DEF e
    <3> QED
      BY <2>1, <3>2, <3>3, <3>4, PullInStep
  <2> HIDE DEF e
  <2> QED
    BY <2>1, <2>2, StepOfSynced
<1>5. ASSUME NEW s \in Sites \ Open, NEW peer \in Open, Join(s, peer) PROVE Synced'
  <2> DEFINE d == docs[peer]
             e == FromSnapshot(s, d)
             Z == Tombs(s, d)
  <2>1. Open' = Open \cup {s} /\ Known' = Known \cup Z
    BY <1>5, JoinKnown
  <2>2. \A t \in Sites : docs'[t] = IF t = s THEN e ELSE docs[t]
    BY <1>5, JoinKnown
  <2>3. kind' = kind
    BY <1>5 DEF Join
  <2>4. SUFFICES ASSUME kind[2] = "sync", NEW t \in Open \cup {s} PROVE InStep(docs'[t], Known')
    BY <2>1, <2>3 DEF Synced
  <2>5. Named(Known) /\ Fits(d, Known) /\ InStep(d, Known) /\ d \in Doc
    BY <2>4 DEF IInv, Replicas, Synced, Fits
  <2>6. kind[1] = "text"
    <3>1. s \in Joiners /\ s \notin Founders
      BY DEF IInv, TypeInv, Sites
    <3>2. kind \in {"text", "block"} \X {"broadcast", "sync"} /\ kind \in Kinds
      BY KindsAssumption DEF IInv, TypeInv
    <3>3. kind # <<"block", "sync">>
      BY <3>1, <3>2 DEF Supported
    <3> QED
      BY <2>4, <3>2, <3>3
  <2>7. \A o \in Known : o.type # "write" /\ o.id[2] # -s
    <3>1. \A o \in Known : o.id[2] # -s
      BY JoinerIsNew
    <3>2. ASSUME NEW o \in Known PROVE o.type # "write"
      <4>1. CASE o \in sent
        BY <4>1, <2>6 DEF IInv, Authored
      <4>2. CASE o \notin sent
        <5>1. o.id[2] < 0
          BY <4>2, <2>5, KnownSites
        <5> QED
          BY <5>1 DEF IInv, Authored
      <4> QED
        BY <4>1, <4>2
    <3> QED
      BY <3>1, <3>2
  <2>8. CASE t = s
    <3>1. InStep(e, Known \cup Z)
      BY <2>5, <2>6, <2>7, SnapshotInStep
    <3> QED
      BY <3>1, <2>1, <2>2, <2>8
  <2>9. CASE t # s
    <3>1. t \in Open /\ t \in Sites /\ InStep(docs[t], Known) /\ docs[t].seen[-s] = 0
      BY <2>4, <2>9, JoinerIsNew DEF Synced, Open
    <3>2. \A o \in Z : o \in Op /\ o.id[2] = -s
      BY <2>5, TombsAre
    <3>3. \A o \in Z : ~(o.id[1] <= docs[t].seen[o.id[2]])
      <4> HIDE DEF Z
      <4> QED
        BY <3>1, <3>2, OpFacts
    <3>4. InStep(docs[t], Known \cup Z)
      BY <3>1, <3>3, StaysInStep
    <3> QED
      BY <3>1, <3>4, <2>1, <2>2, <2>9
  <2> QED
    BY <2>8, <2>9
<1> QED
  BY <1>1, <1>2, <1>3, <1>4, <1>5 DEF Next

-----------------------------------------------------------------------------
(* The results. *)

\* At every moment, whatever each replica has received and in which order, two
\* replicas of an RgaDoc or a BlockDoc show their common elements in one order.
THEOREM OrderSafe == Spec => []SameOrder
<1>1. IInv => SameOrder
  <2> SUFFICES ASSUME IInv, NEW s \in Open, NEW t \in Open,
                      NEW a \in Ids(docs[s]) \cap Ids(docs[t]),
                      NEW b \in Ids(docs[s]) \cap Ids(docs[t])
               PROVE  IndexOf(docs[s], a) < IndexOf(docs[s], b)
                        <=> IndexOf(docs[t], a) < IndexOf(docs[t], b)
    BY DEF SameOrder
  <2> DEFINE d == docs[s]
             e == docs[t]
  <2>1. Named(Known) /\ Fits(d, Known) /\ Fits(e, Known)
    BY DEF IInv, Replicas
  <2> HIDE DEF d, e
  <2>2. Unswapped(d.nodes, e.nodes)
    BY <2>1, NodesUnswapped
  <2>3. /\ Distinct(d.nodes) /\ Distinct(e.nodes)
        /\ DOMAIN d.nodes = 1..Len(d.nodes) /\ DOMAIN e.nodes = 1..Len(e.nodes)
        /\ Len(d.nodes) \in Nat /\ Len(e.nodes) \in Nat
    BY <2>1, NodesOrdered DEF Ordered
  <2> DEFINE i == IndexOf(d, a)
             j == IndexOf(d, b)
             k == IndexOf(e, a)
             l == IndexOf(e, b)
  <2>4. /\ i \in DOMAIN d.nodes /\ d.nodes[i].id = a
        /\ j \in DOMAIN d.nodes /\ d.nodes[j].id = b
    BY <2>3, IndexOfElement DEF d
  <2>5. /\ k \in DOMAIN e.nodes /\ e.nodes[k].id = a
        /\ l \in DOMAIN e.nodes /\ e.nodes[l].id = b
    BY <2>3, IndexOfElement DEF e
  <2> HIDE DEF i, j, k, l
  <2>6. i \in Nat /\ j \in Nat /\ k \in Nat /\ l \in Nat
    BY <2>3, <2>4, <2>5
  <2>7. ~(i < j /\ l < k) /\ ~(j < i /\ k < l)
    BY <2>2, <2>4, <2>5 DEF Unswapped, Swapped
  <2>8. i = j <=> k = l
    BY <2>3, <2>4, <2>5 DEF Distinct
  <2>9. i < j <=> k < l
    BY <2>6, <2>7, <2>8
  <2> QED
    BY <2>9 DEF i, j, k, l, d, e
<1> QED
  BY <1>1, InvHolds, PTL

\* In every replica an element stands behind the one it was typed behind, and
\* only elements with greater ids, typed later or at the same time, are between.
THEOREM OriginSafe == Spec => []BehindOrigin
<1>1. IInv => BehindOrigin
  <2> SUFFICES ASSUME IInv, NEW s \in Open, NEW i \in DOMAIN docs[s].nodes
               PROVE  LET d == docs[s]
                          from == IF d.nodes[i].origin = HEAD THEN 0 ELSE IndexOf(d, d.nodes[i].origin)
                      IN  /\ from < i
                          /\ \A j \in from + 1..i - 1 : IdGreater(d.nodes[j].id, d.nodes[i].id)
    BY DEF BehindOrigin
  <2> DEFINE d == docs[s]
             from == IF d.nodes[i].origin = HEAD THEN 0 ELSE IndexOf(d, d.nodes[i].origin)
  <2>1. Named(Known) /\ Fits(d, Known) /\ Distinct(d.nodes) /\ d \in Doc
    BY DEF IInv, Replicas, Fits
  <2>2. i \in DOMAIN d.nodes
    OBVIOUS
  <2> HIDE DEF d
  <2>3. PICK f \in 0..i - 1 : /\ d.nodes[i].origin = IF f = 0 THEN HEAD ELSE d.nodes[f].id
                              /\ \A j \in f + 1..i - 1 : IdGreater(d.nodes[j].id, d.nodes[i].id)
    BY <2>1, <2>2 DEF Fits, Nearest
  <2>4. i \in Nat /\ d.nodes \in Seq(Node) /\ (f = 0 \/ f \in DOMAIN d.nodes)
    BY <2>1, <2>2, DocFields
  <2>5. from = f
    <3>1. CASE f = 0
      BY <3>1, <2>3
    <3>2. CASE f # 0
      <4>1. f \in DOMAIN d.nodes /\ d.nodes[f].id # HEAD
        BY <3>2, <2>4, NodeIds
      <4>2. IndexOf(d, d.nodes[f].id) = f
        BY <4>1, <2>1, IndexOfElement
      <4> QED
        BY <4>1, <4>2, <3>2, <2>3
    <3> QED
      BY <3>1, <3>2
  <2> HIDE DEF from
  <2>6. from < i /\ \A j \in from + 1..i - 1 : IdGreater(d.nodes[j].id, d.nodes[i].id)
    BY <2>3, <2>4, <2>5
  <2> QED
    BY <2>6 DEF from, d
<1> QED
  BY <1>1, InvHolds, PTL

\* A replica that has received all edits has taken them all.
LEMMA AllTaken ==
  ASSUME IInv, NEW s \in Open, \A op \in sent : op.id \in Received(docs[s])
  PROVE  \A op \in Known : Effected(docs[s], op)
<1> DEFINE d == docs[s]
           K == Known
<1>1. Named(K) /\ Fits(d, K) /\ Settled(d) /\ sent \subseteq K
  BY DEF IInv, Replicas, Known
<1>2. ASSUME NEW op \in sent PROVE op \in d.log \cup d.buffer
  <2>1. PICK q \in d.log \cup d.buffer : q.id = op.id
    BY DEF Received
  <2>2. q \in K
    BY <1>1 DEF Fits
  <2>3. q = op
    BY <2>1, <2>2, <1>1 DEF Named
  <2> QED
    BY <2>3
<1>3. \A p \in K : p.type = "ins" => p \in sent
  BY <1>1, KnownSites
<1> HIDE DEF d, K
<1>4. d.buffer = {}
  BY <1>1, <1>2, <1>3, NothingBuffered
<1>5. \A op \in sent : Effected(d, op)
  BY <1>1, <1>2, <1>4 DEF Fits
<1>6. ASSUME NEW op \in K PROVE Effected(d, op)
  <2>1. CASE op \in sent
    BY <2>1, <1>5
  <2>2. CASE op \notin sent
    <3>1. op.id[2] < 0
      BY <2>2, <1>1, KnownSites DEF K
    <3>2. op.type = "del" /\ \E o \in sent : o.type = "del" /\ o.ref = op.ref
      BY <3>1 DEF IInv, Authored, K
    <3>3. PICK o \in sent : o.type = "del" /\ o.ref = op.ref
      BY <3>2
    <3>4. Effected(d, o)
      BY <1>5
    <3> QED
      BY <3>2, <3>3, <3>4 DEF Effected
  <2> QED
    BY <2>1, <2>2
<1> QED
  BY <1>6 DEF d, K

\* Replicas that all broadcast operations have reached, each in its own order,
\* show the same document, those that loaded a snapshot on the way included.
THEOREM ConvergenceSafe == Spec => []Converged
<1>1. IInv => Converged
  <2> SUFFICES ASSUME IInv, NEW s \in Open, NEW t \in Open,
                      \A op \in sent : op.id \in Received(docs[s]) \cap Received(docs[t])
               PROVE  Content(docs[s]) = Content(docs[t])
    BY DEF Converged
  <2>1. Named(Known) /\ Fits(docs[s], Known) /\ Fits(docs[t], Known)
    BY DEF IInv, Replicas
  <2>2. \A op \in Known : Effected(docs[s], op)
    BY AllTaken
  <2>3. \A op \in Known : Effected(docs[t], op)
    BY AllTaken
  <2>4. Shown(docs[s], docs[t]) /\ Shown(docs[t], docs[s])
    BY <2>1, <2>2, <2>3, Sources, ShowsAll
  <2> QED
    BY <2>1, <2>4, SameContent
<1> QED
  BY <1>1, InvHolds, PTL

\* Replicas that owe each other nothing by opsSince and their state vectors show
\* the same document, provided that no BlockDoc loads a snapshot and then syncs.
THEOREM SyncSafe == Supported => (Spec => []SyncComplete)
<1>1. IInv /\ Synced => SyncComplete
  <2> SUFFICES ASSUME IInv, Synced, kind[2] = "sync", NEW s \in Open, NEW t \in Open,
                      OpsSince(docs[s], docs[t].seen) = {},
                      OpsSince(docs[t], docs[s].seen) = {}
               PROVE  Content(docs[s]) = Content(docs[t])
    BY DEF SyncComplete
  <2>1. Named(Known) /\ Fits(docs[s], Known) /\ Fits(docs[t], Known)
    BY DEF IInv, Replicas
  <2>2. InStep(docs[s], Known) /\ InStep(docs[t], Known)
    BY DEF Synced
  <2>3. ASSUME NEW d, NEW e, Fits(d, Known), Fits(e, Known), InStep(d, Known), InStep(e, Known),
               OpsSince(d, e.seen) = {}
        PROVE  Shown(d, e)
    <3>1. ASSUME NEW op \in d.log PROVE Effected(e, op)
      <4>1. op \in Known /\ op \in Op /\ e \in Doc
        BY <2>1, <2>3 DEF Fits, Named
      <4>2. op.id[1] \in Nat /\ op.id[2] \in Authors
        BY <4>1, OpFacts
      <4>3. e.seen[op.id[2]] \in Nat
        BY <4>1, <4>2, DocFields
      <4>4. op.id[1] <= e.seen[op.id[2]]
        BY <2>3, <4>2, <4>3 DEF OpsSince
      <4> QED
        BY <4>1, <4>4, <2>3 DEF InStep, Covers
    <3>2. ComesFrom(d, d.log)
      BY <2>3, Sources DEF InStep
    <3> QED
      BY <3>1, <3>2, <2>1, <2>3, ShowsAll
  <2>4. Shown(docs[s], docs[t]) /\ Shown(docs[t], docs[s])
    BY <2>1, <2>2, <2>3
  <2> QED
    BY <2>1, <2>4, SameContent
<1>2. Supported /\ (IInv /\ Synced) /\ [Next]_vars => (IInv /\ Synced)'
  BY NextInv, NextSynced
<1> SUFFICES ASSUME Supported PROVE Spec => []SyncComplete
  OBVIOUS
<1>3. IInv /\ Synced /\ [Next]_vars => (IInv /\ Synced)'
  BY <1>2
<1> QED
  BY <1>1, <1>3, InitInv, PTL DEF Spec
=============================================================================
