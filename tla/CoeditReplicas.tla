--------------------------- MODULE CoeditReplicas ---------------------------
(***************************************************************************)
(* The collaborative documents of packages/collab: RgaDoc (rga.ts), a text  *)
(* whose characters carry permanent ids, and BlockDoc (block-doc.ts), the   *)
(* same sequence of elements with last-writer-wins attributes and marks.    *)
(* Replicas edit on their own; the operations reach the others one by one   *)
(* in any order (broadcast), or in the batches that opsSince computes from  *)
(* a state vector (sync).  A replica may start from a snapshot of another.  *)
(*                                                                          *)
(* An id is <<counter, site>>.  What is inserted is told apart by its id.   *)
(* All attributes and marks are one register: each of them is the same      *)
(* comparison of ids.                                                       *)
(***************************************************************************)
EXTENDS Integers, FiniteSets, Sequences, SequencesExt, FiniteSetsExt

CONSTANTS Founders,     \* sites that start with an empty document
          Joiners,      \* sites that start from a snapshot
          Kinds,        \* pairs of a document class and a transport
          MaxEdits      \* bound on the edits made to a document of each class

Sites == Founders \cup Joiners

ASSUME SitesAssumption == Sites \subseteq Nat \ {0} /\ IsFiniteSet(Sites)
ASSUME KindsAssumption ==
  Kinds \subseteq ({"text", "block"} \X {"broadcast", "sync"})

VARIABLES kind,      \* the class of the document and the transport in use
          docs,      \* site -> its replica, Absent before a joiner has joined
          sent       \* the operations replicas have returned for broadcast

vars == <<kind, docs, sent>>

Absent == [nodes |-> <<>>]
HEAD == <<0, 0>>                 \* originId === null, and no register value

\* The author of the deletes a snapshot of site s stands for (__snap__:s).
SnapSite(s) == -s

-----------------------------------------------------------------------------
(* Ids and operations. *)

IdGreater(a, b) == a[1] > b[1] \/ (a[1] = b[1] /\ a[2] > b[2])

Ins(id, origin) == [type |-> "ins", id |-> id, ref |-> origin]
Del(id, target) == [type |-> "del", id |-> id, ref |-> target]
Write(id)       == [type |-> "write", id |-> id, ref |-> HEAD]

NewDoc == [nodes |-> <<>>, buffer |-> {}, log |-> {}, counter |-> 0,
           seen |-> [s \in Sites \cup {SnapSite(t) : t \in Sites} |-> 0],
           attr |-> HEAD]

Ids(d) == {d.nodes[i].id : i \in DOMAIN d.nodes}
Applied(d) == {op.id : op \in d.log}
IndexOf(d, id) == CHOOSE i \in DOMAIN d.nodes : d.nodes[i].id = id
Visible(d) == {d.nodes[i].id : i \in {j \in DOMAIN d.nodes : ~d.nodes[j].deleted}}

-----------------------------------------------------------------------------
(* Applying an operation. *)

\* F applied n times to x: the loops of drainBuffer and applyMany.
Iterate(F(_), x, n) ==
  LET run[k \in 0..n] == IF k = 0 THEN x ELSE F(run[k - 1])
  IN  run[n]

\* Mutant: only concurrent inserts at the same place are skipped, not what was
\* typed behind them.
IntegrateAmongSiblings(d, op) ==
  LET from == IF op.ref = HEAD THEN 1 ELSE IndexOf(d, op.ref) + 1
  IN  Min({i \in from..Len(d.nodes) : ~(/\ d.nodes[i].origin = op.ref
                                       /\ IdGreater(d.nodes[i].id, op.id))}
            \cup {Len(d.nodes) + 1})

\* Mutant: directly behind the origin.
IntegrateAtOrigin(d, op) ==
  IF op.ref = HEAD THEN 1 ELSE IndexOf(d, op.ref) + 1

\* Behind the origin, and then behind every element with a greater id.
IntegrateAt(d, op) ==
  LET from == IF op.ref = HEAD THEN 1 ELSE IndexOf(d, op.ref) + 1
  IN  Min({i \in from..Len(d.nodes) : ~IdGreater(d.nodes[i].id, op.id)}
            \cup {Len(d.nodes) + 1})

Integrate(d, op) ==
  [d EXCEPT !.nodes = InsertAt(@, IntegrateAt(d, op),
                               [id |-> op.id, origin |-> op.ref, deleted |-> FALSE])]

Tombstone(d, target) == [d EXCEPT !.nodes[IndexOf(d, target)].deleted = TRUE]

Bump(d, id) == [d EXCEPT !.seen[id[2]] = Max({@, id[1]}),
                         !.counter = Max({@, id[1]})]

Record(d, op) == [Bump(d, op.id) EXCEPT !.log = @ \cup {op}]

\* The element an operation refers to is there.
Ready(d, op) == op.ref = HEAD \/ op.ref \in Ids(d)

Take(d, op) ==
  CASE op.type = "ins" -> Record(Integrate(d, op), op)
    [] op.type = "del" -> Record(Tombstone(d, op.ref), op)

DrainOne(d) ==
  IF \E op \in d.buffer : Ready(d, op)
  THEN LET op == CHOOSE o \in d.buffer : Ready(d, o)
           rest == [d EXCEPT !.buffer = @ \ {op}]
       IN  IF op.id \in Applied(d) THEN rest ELSE Take(rest, op)
  ELSE d

\* Until no buffered operation is ready: each round takes one, or none is left.
Drain(d) == Iterate(DrainOne, d, Cardinality(d.buffer))

\* Mutant: the last write to arrive wins.
WriteRegisterLast(d, op) == [d EXCEPT !.attr = op.id]

WriteRegister(d, op) == [d EXCEPT !.attr = IF IdGreater(op.id, @) THEN op.id ELSE @]

Apply(d, op) ==
  IF op.id \in Applied(d) THEN d
  ELSE CASE op.type = "write" -> Record(WriteRegister(d, op), op)
         [] op.type # "write" /\ ~Ready(d, op) -> [d EXCEPT !.buffer = @ \cup {op}]
         [] op.type = "ins" /\ Ready(d, op) -> Drain(Take(d, op))
         [] op.type = "del" /\ Ready(d, op) -> Take(d, op)

\* The operations a peer with state vector since lacks.  The log is a set:
\* Apply buffers what comes early, so the order in a batch does not matter.
OpsSince(d, since) == {op \in d.log : op.id[1] > since[op.id[2]]}

ApplyNext(b) == LET op == CHOOSE o \in b.left : TRUE
                IN  [doc |-> Apply(b.doc, op), left |-> b.left \ {op}]

ApplyMany(d, ops) ==
  Iterate(ApplyNext, [doc |-> d, left |-> ops], Cardinality(ops)).doc

-----------------------------------------------------------------------------
(* Snapshots: the elements in order with their tombstones, and the register. *)

\* Mutant: deletes are not reconstructed.
SnapshotLogInserts(site, d) ==
  {Ins(d.nodes[i].id, d.nodes[i].origin) : i \in DOMAIN d.nodes}

\* The operations that the loaded replica can serve: an insert per element
\* and, in RgaDoc only, a delete per tombstone, numbered in document order.
SnapshotLog(site, d) ==
  LET dead == {i \in DOMAIN d.nodes : d.nodes[i].deleted}
      nth(i) == Cardinality({j \in dead : j <= i})
  IN  {Ins(d.nodes[i].id, d.nodes[i].origin) : i \in DOMAIN d.nodes}
        \cup IF kind[1] = "text"
             THEN {Del(<<nth(i), SnapSite(site)>>, d.nodes[i].id) : i \in dead}
             ELSE {}

FromSnapshot(site, d) ==
  LET log == SnapshotLog(site, d)
      marks == Ids(d) \cup {d.attr}
      top(s) == Max({0} \cup {op.id[1] : op \in {o \in log : o.id[2] = s}}
                       \cup {m[1] : m \in {n \in marks : n[2] = s}})
  IN  [nodes |-> d.nodes, buffer |-> {}, log |-> log, attr |-> d.attr,
       counter |-> Max({m[1] : m \in marks \cup {HEAD}}),
       seen |-> [s \in DOMAIN d.seen |-> top(s)]]

-----------------------------------------------------------------------------
(* The replicas. *)

Init == /\ kind \in Kinds
        /\ docs = [s \in Sites |-> IF s \in Founders THEN NewDoc ELSE Absent]
        /\ sent = {}

Open == {s \in Sites : docs[s] # Absent}

\* The author applies its own operation and returns it.
Local(s, op) == /\ Cardinality(sent) < MaxEdits[kind[1]]
                /\ docs' = [docs EXCEPT ![s] = Apply(@, op)]
                /\ sent' = sent \cup {op}
                /\ UNCHANGED kind

MintId(s) == <<docs[s].counter + 1, s>>

\* Text goes behind a visible character; a new block may go behind a tombstone.
Anchors(d) == {HEAD} \cup IF kind[1] = "text" THEN Visible(d) ELSE Ids(d)

LocalInsert(s) ==
  \E origin \in Anchors(docs[s]) : Local(s, Ins(MintId(s), origin))

LocalDelete(s) ==
  \E target \in Visible(docs[s]) : Local(s, Del(MintId(s), target))

SetBlockAttr(s) == /\ kind[1] = "block"
                   /\ Local(s, Write(MintId(s)))

\* A duplicate is ignored, so that only news is a step.
Deliver(s) == /\ kind[2] = "broadcast"
              /\ \E op \in sent : /\ op.id \notin Applied(docs[s])
                                  /\ docs' = [docs EXCEPT ![s] = Apply(@, op)]
              /\ UNCHANGED <<kind, sent>>

Pull(s, peer) == /\ kind[2] = "sync"
                 /\ docs' = [docs EXCEPT ![s] =
                              ApplyMany(@, OpsSince(docs[peer], @.seen))]
                 /\ UNCHANGED <<kind, sent>>

Join(s, peer) == /\ docs[s] = Absent
                 /\ docs' = [docs EXCEPT ![s] = FromSnapshot(s, docs[peer])]
                 /\ UNCHANGED <<kind, sent>>

Next == \/ \E s \in Open : LocalInsert(s) \/ LocalDelete(s) \/ SetBlockAttr(s)
        \/ \E s \in Open : Deliver(s)
        \/ \E s, peer \in Open : Pull(s, peer)
        \/ \E s \in Sites \ Open, peer \in Open : Join(s, peer)

Spec == Init /\ [][Next]_vars

-----------------------------------------------------------------------------
(* Properties. *)

\* Any two replicas, whatever each of them has received so far and in which
\* order, show the elements they both have in the same order.
SameOrder ==
  \A s, t \in Open : \A a, b \in Ids(docs[s]) \cap Ids(docs[t]) :
    IndexOf(docs[s], a) < IndexOf(docs[s], b)
      <=> IndexOf(docs[t], a) < IndexOf(docs[t], b)

\* An element comes after the one it was typed behind, and only elements
\* of later edits stand between the two: concurrent typing is not interleaved
\* with what somebody typed before.
BehindOrigin ==
  \A s \in Open : LET d == docs[s] IN \A i \in DOMAIN d.nodes :
    LET from == IF d.nodes[i].origin = HEAD THEN 0 ELSE IndexOf(d, d.nodes[i].origin)
    IN  /\ from < i
        /\ \A j \in from + 1..i - 1 : IdGreater(d.nodes[j].id, d.nodes[i].id)

Content(d) == <<d.nodes, d.attr>>

\* Strong eventual consistency: two replicas that everything sent has reached,
\* each operation once and in any order, show the same document.
Received(d) == {op.id : op \in d.log \cup d.buffer}
Converged ==
  kind[2] = "broadcast" =>
    \A s, t \in Open : (\A op \in sent : op.id \in Received(docs[s]) \cap Received(docs[t]))
                         => Content(docs[s]) = Content(docs[t])

\* Two replicas that owe each other nothing by their state vectors show the
\* same document, although a joiner's vector knows the deletes in its
\* snapshot under other names.
SyncComplete ==
  kind[2] = "sync" =>
    \A s, t \in Open : /\ OpsSince(docs[s], docs[t].seen) = {}
                         /\ OpsSince(docs[t], docs[s].seen) = {}
                         => Content(docs[s]) = Content(docs[t])
=============================================================================
