--------------------------- MODULE SpecExecProofs ---------------------------
(***************************************************************************)
(* Proofs about a request of the edge client, for every tree size, budget, *)
(* beam width, vocabulary, prompt and proactive mode, in three parts:      *)
(*                                                                         *)
(*   what the operations of the token tree preserve;                       *)
(*   what a round relies on: types, the shape of the tree, the budget and  *)
(*     the tree a request in flight described;                             *)
(*   what a request commits: what the target alone would have produced,    *)
(*     with the server in step, and a replay repeating it.                 *)
(***************************************************************************)
EXTENDS SpecExecProps, RankTheorems

(***************************************************************************)
(* The token tree.  Shaped says of the first e slots that they are a tree  *)
(* whose first c slots are a chain and whose other nodes hang below the end*)
(* of that chain; the ancestor mask is the one the parents define.  The    *)
(* first lemmas derive what the rest of the client takes for granted of a  *)
(* mask row: it is the path to the root, in slot order.  The others show   *)
(* that each operation of the tree keeps the shape.                        *)
(***************************************************************************)

\* A node with a token of T and a sequence of Q.
NodeRec(T, Q) == [tok : T, pos : 0 .. MaxLen, par : Slots, st : Status, lp : Int, seq : Q]

Typed(t, T, Q) ==
  t \in [node : [Slots -> NodeRec(T, Q)], mask : [Slots -> SUBSET Slots],
         prefix : 1 .. MaxLen, end : 1 .. MaxLen]

\* Node i hangs below its parent, in a tree whose first c nodes are a chain.
Hangs(t, c, i) ==
  /\ t.node[i].par \in 0 .. i - 1
  /\ t.mask[i] = t.mask[t.node[i].par] \cup {i}
  /\ t.node[i].pos = t.node[t.node[i].par].pos + 1
  /\ i < c => t.node[i].par = i - 1
  /\ i >= c => t.node[i].par >= c - 1

Shaped(t, c, e) ==
  /\ c \in 1 .. e /\ e \in 1 .. MaxLen
  /\ t.mask[0] = {0} /\ t.node[0].pos = 0
  /\ \A i \in 1 .. e - 1 : Hangs(t, c, i)

-----------------------------------------------------------------------------
(* Mask rows are root paths *)

\* Induction over the slots of a tree: what holds of slot 0, and of a slot if of
\* its parent, holds of every slot.
LEMMA SlotInduction ==
  ASSUME NEW t, NEW c, NEW e, Shaped(t, c, e), NEW G, 0 \in G,
         \A i \in 1 .. e - 1 : t.node[i].par \in G => i \in G
  PROVE  0 .. e - 1 \subseteq G
<1>0. e \in 1 .. MaxLen /\ MaxLen \in Nat /\ e \in Nat
  BY MaxLenAssumption DEF Shaped
<1> DEFINE B == {i \in 0 .. e - 1 : i \notin G}
<1>1. SUFFICES ASSUME B # {} PROVE FALSE
  OBVIOUS
<1>2. B \subseteq Nat
  BY <1>0
<1>3. PICK m \in B : \A n \in B : m <= n
  BY <1>1, <1>2, LeastNat
<1>4. m \in 1 .. e - 1
  BY <1>0, <1>3
<1>5. t.node[m].par \in 0 .. m - 1
  BY <1>4 DEF Shaped, Hangs
<1>6. t.node[m].par \notin B
  BY <1>0, <1>3, <1>4, <1>5
<1>7. t.node[m].par \in G
  BY <1>0, <1>4, <1>5, <1>6
<1> QED
  BY <1>3, <1>4, <1>7

\* A row holds its own slot and otherwise only earlier ones.
LEMMA RowBounds ==
  ASSUME NEW t, NEW c, NEW e, Shaped(t, c, e), NEW i \in 0 .. e - 1
  PROVE  i \in t.mask[i] /\ t.mask[i] \subseteq 0 .. i /\ 0 \in t.mask[i]
<1>0. e \in Nat
  BY MaxLenAssumption DEF Shaped
<1> DEFINE G == {k \in 0 .. e - 1 : k \in t.mask[k] /\ t.mask[k] \subseteq 0 .. k /\ 0 \in t.mask[k]}
<1>1. 0 \in G
  BY <1>0 DEF Shaped
<1>2. ASSUME NEW k \in 1 .. e - 1, t.node[k].par \in G PROVE k \in G
  <2>1. Hangs(t, c, k)
    BY DEF Shaped
  <2>2. t.mask[k] = t.mask[t.node[k].par] \cup {k} /\ t.node[k].par \in 0 .. k - 1
    BY <2>1 DEF Hangs
  <2>3. t.mask[t.node[k].par] \subseteq 0 .. t.node[k].par /\ 0 \in t.mask[t.node[k].par]
    BY <1>2
  <2>4. 0 .. t.node[k].par \subseteq 0 .. k /\ k \in 0 .. k /\ k \in 0 .. e - 1
    BY <1>0, <1>2, <2>2
  <2> QED
    BY <2>2, <2>3, <2>4
<1> HIDE DEF G
<1>3. 0 .. e - 1 \subseteq G
  BY <1>1, <1>2, SlotInduction
<1>4. i \in G
  BY <1>3
<1> QED
  BY <1>4 DEF G

\* The row of an ancestor is the part of the row up to it.
LEMMA RowsNest ==
  ASSUME NEW t, NEW c, NEW e, Shaped(t, c, e), NEW i \in 0 .. e - 1, NEW a \in t.mask[i]
  PROVE  a \in 0 .. e - 1 /\ t.mask[a] = {x \in t.mask[i] : x <= a}
<1>0. e \in Nat
  BY MaxLenAssumption DEF Shaped
<1> DEFINE G == {k \in 0 .. e - 1 : \A b \in t.mask[k] :
                   t.mask[b] = {x \in t.mask[k] : x <= b}}
<1>1. 0 \in G
  BY <1>0 DEF Shaped
<1>2. ASSUME NEW k \in 1 .. e - 1, t.node[k].par \in G PROVE k \in G
  <2> DEFINE p == t.node[k].par
  <2>1. Hangs(t, c, k)
    BY DEF Shaped
  <2>2. t.mask[k] = t.mask[p] \cup {k} /\ p \in 0 .. k - 1
    BY <2>1 DEF Hangs
  <2>3. p \in 0 .. e - 1 /\ k \in 0 .. e - 1
    BY <1>0, <1>2, <2>2
  <2>4. t.mask[p] \subseteq 0 .. p
    BY <2>3, RowBounds
  <2>5. \A b \in t.mask[p] : t.mask[b] = {x \in t.mask[p] : x <= b}
    BY <1>2
  <2> HIDE DEF p
  <2>6. ASSUME NEW b \in t.mask[k] PROVE t.mask[b] = {x \in t.mask[k] : x <= b}
    <3>1. CASE b = k
      <4>1. \A x \in 0 .. p : x <= k
        BY <1>2, <2>2
      <4>2. \A x \in t.mask[k] : x <= k
        BY <2>2, <2>4, <4>1
      <4> QED
        BY <3>1, <4>2
    <3>2. CASE b # k
      <4>1. b \in t.mask[p] /\ b \in 0 .. p
        BY <2>2, <2>4, <2>6, <3>2
      <4>2. ~(k <= b)
        BY <1>2, <2>2, <4>1
      <4> QED
        BY <2>2, <2>5, <4>1, <4>2
    <3> QED
      BY <3>1, <3>2
  <2> QED
    BY <2>3, <2>6
<1> HIDE DEF G
<1>3. 0 .. e - 1 \subseteq G
  BY <1>1, <1>2, SlotInduction
<1>4. i \in G
  BY <1>3
<1>5. a \in 0 .. e - 1
  <2>1. a \in 0 .. i
    BY RowBounds
  <2> QED
    BY <1>0, <2>1
<1> QED
  BY <1>4, <1>5 DEF G

\* Before a slot of a row comes its parent, and nothing in between.
LEMMA ParentInRow ==
  ASSUME NEW t, NEW c, NEW e, Shaped(t, c, e), NEW i \in 0 .. e - 1, NEW a \in t.mask[i], a # 0
  PROVE  /\ a \in 1 .. e - 1
         /\ t.node[a].par \in t.mask[i]
         /\ {x \in t.mask[i] : x < a} = t.mask[t.node[a].par]
<1> DEFINE p == t.node[a].par
<1>0. e \in Nat
  BY MaxLenAssumption DEF Shaped
<1>1. a \in 0 .. e - 1 /\ t.mask[a] = {x \in t.mask[i] : x <= a}
  BY RowsNest
<1>2. a \in 1 .. e - 1
  BY <1>0, <1>1
<1>3. t.mask[a] = t.mask[p] \cup {a} /\ p \in 0 .. a - 1
  BY <1>2 DEF Shaped, Hangs
<1>4. p \in 0 .. e - 1
  BY <1>0, <1>2, <1>3
<1>5. p \in t.mask[p] /\ t.mask[p] \subseteq 0 .. p
  BY <1>4, RowBounds
<1>6. t.mask[i] \subseteq 0 .. i
  BY RowBounds
<1> HIDE DEF p
<1>7. p \in t.mask[i]
  BY <1>1, <1>3, <1>5
<1>8. \A x \in t.mask[p] : x < a /\ x \in t.mask[i]
  BY <1>1, <1>2, <1>3, <1>5
<1>9. \A x \in t.mask[i] : x < a => x \in t.mask[p]
  BY <1>0, <1>1, <1>2, <1>3, <1>6
<1> QED
  BY <1>2, <1>7, <1>8, <1>9 DEF p

\* The committed part is a chain, and every later node hangs from its end.
LEMMA RowOfChain ==
  ASSUME NEW t, NEW c, NEW e, Shaped(t, c, e), NEW i \in 0 .. e - 1
  PROVE  /\ i < c => t.mask[i] = 0 .. i /\ t.node[i].pos = i
         /\ i >= c - 1 => 0 .. c - 1 \subseteq t.mask[i]
<1>0. e \in Nat /\ c \in 1 .. e
  BY MaxLenAssumption DEF Shaped
<1> DEFINE G == {k \in 0 .. e - 1 : /\ k < c => t.mask[k] = 0 .. k /\ t.node[k].pos = k
                                    /\ k >= c - 1 => 0 .. c - 1 \subseteq t.mask[k]}
<1>1. 0 \in G
  <2>1. t.mask[0] = {0} /\ t.node[0].pos = 0 /\ 0 .. 0 = {0}
    BY DEF Shaped
  <2>2. 0 >= c - 1 => c - 1 = 0
    BY <1>0
  <2> QED
    BY <1>0, <2>1, <2>2
<1>2. ASSUME NEW k \in 1 .. e - 1, t.node[k].par \in G PROVE k \in G
  <2> DEFINE p == t.node[k].par
  <2>1. /\ t.mask[k] = t.mask[p] \cup {k} /\ p \in 0 .. k - 1
        /\ t.node[k].pos = t.node[p].pos + 1
        /\ k < c => p = k - 1
        /\ k >= c => p >= c - 1
    BY DEF Shaped, Hangs
  <2>2. /\ p < c => t.mask[p] = 0 .. p /\ t.node[p].pos = p
        /\ p >= c - 1 => 0 .. c - 1 \subseteq t.mask[p]
    BY <1>2
  <2> HIDE DEF p
  <2>3. CASE k < c
    <3>1. p = k - 1 /\ p < c /\ t.mask[p] = 0 .. p /\ t.node[p].pos = p
      BY <1>0, <2>1, <2>2, <2>3
    <3>2. t.mask[k] = 0 .. k
      <4>1. (0 .. k - 1) \cup {k} = 0 .. k
        BY <1>2
      <4> QED
        BY <2>1, <3>1, <4>1
    <3>3. t.node[k].pos = k
      BY <1>2, <2>1, <3>1
    <3>4. k >= c - 1 => 0 .. c - 1 = 0 .. k
      BY <1>0, <1>2, <2>3
    <3> QED
      BY <1>0, <1>2, <2>3, <3>2, <3>3, <3>4
  <2>4. CASE ~(k < c)
    <3>1. k >= c /\ p >= c - 1
      BY <1>0, <1>2, <2>1, <2>4
    <3>2. 0 .. c - 1 \subseteq t.mask[k]
      BY <2>1, <2>2, <3>1
    <3> QED
      BY <1>0, <1>2, <2>4, <3>2
  <2> QED
    BY <2>3, <2>4
<1> HIDE DEF G
<1>3. 0 .. e - 1 \subseteq G
  BY <1>1, <1>2, SlotInduction
<1>4. i \in G
  BY <1>3
<1> QED
  BY <1>4 DEF G

\* A position counts the slots before it on the row.
LEMMA PosIsDepth ==
  ASSUME NEW t, NEW c, NEW e, Shaped(t, c, e), NEW i \in 0 .. e - 1
  PROVE  /\ IsFiniteSet(t.mask[i]) /\ Cardinality(t.mask[i]) = t.node[i].pos + 1
         /\ t.node[i].pos \in 0 .. i
<1>0. e \in Nat
  BY MaxLenAssumption DEF Shaped
<1> DEFINE G == {k \in 0 .. e - 1 : /\ IsFiniteSet(t.mask[k])
                                    /\ Cardinality(t.mask[k]) = t.node[k].pos + 1
                                    /\ t.node[k].pos \in 0 .. k}
<1>1. 0 \in G
  <2>1. t.mask[0] = {0} /\ t.node[0].pos = 0
    BY DEF Shaped
  <2>2. IsFiniteSet({0}) /\ Cardinality({0}) = 1
    BY FS_Singleton
  <2>3. IsFiniteSet(t.mask[0]) /\ Cardinality(t.mask[0]) = t.node[0].pos + 1
    BY <2>1, <2>2
  <2>4. t.node[0].pos \in 0 .. 0 /\ 0 \in 0 .. e - 1
    BY <1>0, <2>1 DEF Shaped
  <2> QED
    BY <2>3, <2>4
<1>2. ASSUME NEW k \in 1 .. e - 1, t.node[k].par \in G PROVE k \in G
  <2> DEFINE p == t.node[k].par
  <2>1. /\ t.mask[k] = t.mask[p] \cup {k} /\ p \in 0 .. k - 1
        /\ t.node[k].pos = t.node[p].pos + 1
    BY DEF Shaped, Hangs
  <2>2. /\ IsFiniteSet(t.mask[p]) /\ Cardinality(t.mask[p]) = t.node[p].pos + 1
        /\ t.node[p].pos \in 0 .. p
    BY <1>2
  <2>3. p \in 0 .. e - 1
    BY <1>0, <1>2, <2>1
  <2>4. t.mask[p] \subseteq 0 .. p
    BY <2>3, RowBounds
  <2> HIDE DEF p
  <2>5. k \notin t.mask[p]
    BY <1>2, <2>1, <2>4
  <2>6. IsFiniteSet(t.mask[k]) /\ Cardinality(t.mask[k]) = Cardinality(t.mask[p]) + 1
    <3>1. IsFiniteSet(t.mask[p]) /\ k \notin t.mask[p]
      BY <2>2, <2>5
    <3>2. /\ IsFiniteSet(t.mask[p] \cup {k})
          /\ Cardinality(t.mask[p] \cup {k}) = Cardinality(t.mask[p]) + 1
      BY <3>1, FS_AddElement
    <3> QED
      BY <2>1, <3>2
  <2>7. t.node[k].pos \in 0 .. k /\ Cardinality(t.mask[k]) = t.node[k].pos + 1
    BY <1>2, <2>1, <2>2, <2>6
  <2> QED
    BY <1>0, <1>2, <2>6, <2>7
<1> HIDE DEF G
<1>3. 0 .. e - 1 \subseteq G
  BY <1>1, <1>2, SlotInduction
<1>4. i \in G
  BY <1>3
<1> QED
  BY <1>4 DEF G
-----------------------------------------------------------------------------
(* What the operations keep *)

\* The shape is a matter of parents, positions and mask rows.
LEMMA SameShape ==
  ASSUME NEW t, NEW u, NEW c, NEW e, Shaped(t, c, e),
         \A i \in 0 .. e - 1 : /\ u.node[i].par = t.node[i].par
                               /\ u.node[i].pos = t.node[i].pos
                               /\ u.mask[i] = t.mask[i]
  PROVE  Shaped(u, c, e)
<1>0. e \in Nat \ {0}
  BY MaxLenAssumption DEF Shaped
<1>1. ASSUME NEW i \in 1 .. e - 1 PROVE Hangs(u, c, i)
  <2>1. Hangs(t, c, i)
    BY DEF Shaped
  <2>2. t.node[i].par \in 0 .. e - 1 /\ i \in 0 .. e - 1
    BY <1>0, <2>1 DEF Hangs
  <2> QED
    BY <2>1, <2>2 DEF Hangs
<1>2. 0 \in 0 .. e - 1
  BY <1>0
<1>3. u.mask[0] = {0} /\ u.node[0].pos = 0
  BY <1>2 DEF Shaped
<1> QED
  BY <1>1, <1>3 DEF Shaped

\* SetStatus changes statuses only.
Marked(t, S, status, u) ==
  /\ u.mask = t.mask /\ u.prefix = t.prefix /\ u.end = t.end
  /\ \A s \in Slots : u.node[s] = [t.node[s] EXCEPT !.st = IF s \in S THEN status ELSE @]

\* Tree::set_status changes the status of the slots it is given and nothing else.
LEMMA StatusFields ==
  ASSUME NEW T, NEW Q, NEW t, Typed(t, T, Q), NEW S, NEW status \in Status
  PROVE  /\ Typed(SetStatus(t, S, status), T, Q)
         /\ Marked(t, S, status, SetStatus(t, S, status))
<1> DEFINE u == SetStatus(t, S, status)
<1>1. u = [t EXCEPT !.node = [s \in Slots |-> IF s \in S THEN [t.node[s] EXCEPT !.st = status] ELSE t.node[s]]]
  BY DEF SetStatus
<1>2. t.node \in [Slots -> NodeRec(T, Q)]
  BY DEF Typed
<1>3. [s \in Slots |-> IF s \in S THEN [t.node[s] EXCEPT !.st = status] ELSE t.node[s]]
        \in [Slots -> NodeRec(T, Q)]
  BY <1>2 DEF NodeRec
<1>4. Typed(u, T, Q)
  BY <1>1, <1>3 DEF Typed
<1>5. u.mask = t.mask /\ u.prefix = t.prefix /\ u.end = t.end
  BY <1>1 DEF Typed
<1>6. \A s \in Slots : u.node[s] = IF s \in S THEN [t.node[s] EXCEPT !.st = status] ELSE t.node[s]
  BY <1>1 DEF Typed
<1>7. \A s \in Slots : u.node[s] = [t.node[s] EXCEPT !.st = IF s \in S THEN status ELSE @]
  BY <1>2, <1>6 DEF NodeRec
<1> QED
  BY <1>4, <1>5, <1>7 DEF Marked

\* A new tree is the prompt's chain.
Chain(p, u) ==
  /\ u.prefix = Len(p) /\ u.end = Len(p)
  /\ \A s \in 0 .. Len(p) - 1 :
       /\ u.node[s].tok = p[s + 1]
       /\ u.node[s].st = IF s = Len(p) - 1 THEN kCandidate ELSE kPrompt

\* The constructor makes a chain of the prompt, its last token the only candidate.
LEMMA NewTreeShape ==
  ASSUME NEW T, NEW Q, 0 \in T, 0 \in Q, NEW p \in Seq(T), NewTreeOk(p)
  PROVE  /\ Typed(NewTree(p), T, Q)
         /\ Shaped(NewTree(p), Len(p), Len(p))
         /\ Chain(p, NewTree(p))
<1> DEFINE n == Len(p)
           u == NewTree(p)
<1>1. n \in 1 .. MaxLen /\ MaxLen \in Nat /\ n \in Nat
  BY MaxLenAssumption DEF NewTreeOk
<1>2. /\ u.prefix = n /\ u.end = n /\ u.mask = CausalMask(n)
      /\ u.node = [s \in Slots |->
                    IF s < n
                    THEN [tok |-> p[s + 1],
                          pos |-> s,
                          par |-> IF s = 0 THEN 0 ELSE s - 1,
                          st  |-> IF s = n - 1 THEN kCandidate ELSE kPrompt,
                          lp  |-> 0,
                          seq |-> 0]
                    ELSE BlankNode]
      /\ u = [node |-> u.node, mask |-> u.mask, prefix |-> u.prefix, end |-> u.end]
  BY DEF NewTree
<1> HIDE DEF u
<1>3. BlankNode \in NodeRec(T, Q)
  BY <1>1 DEF BlankNode, NodeRec, Slots, Status, kPrompt
<1>4. ASSUME NEW s \in Slots PROVE u.node[s] \in NodeRec(T, Q)
  <2>1. CASE s < n
    <3>1. s \in 0 .. MaxLen /\ s + 1 \in 1 .. n /\ p[s + 1] \in T /\ s \in Nat
      BY <1>1, <2>1 DEF Slots
    <3>2. (IF s = 0 THEN 0 ELSE s - 1) \in Slots
      BY <1>1 DEF Slots
    <3>3. (IF s = n - 1 THEN kCandidate ELSE kPrompt) \in Status
      BY DEF Status
    <3> QED
      BY <1>2, <2>1, <3>1, <3>2, <3>3 DEF NodeRec
  <2>2. CASE ~(s < n)
    BY <1>2, <1>3, <2>2
  <2> QED
    BY <2>1, <2>2
<1>5. \A s \in 0 .. n - 1 : s \in Slots /\ s < n
  BY <1>1 DEF Slots
<1>6. u.mask \in [Slots -> SUBSET Slots] /\ \A s \in 0 .. n - 1 : u.mask[s] = 0 .. s
  BY <1>1, <1>2, <1>5 DEF CausalMask, Slots
<1>7. Typed(u, T, Q)
  <2>1. u.node \in [Slots -> NodeRec(T, Q)]
    BY <1>2, <1>4
  <2> QED
    BY <1>1, <1>2, <1>6, <2>1 DEF Typed
<1>8. ASSUME NEW i \in 1 .. n - 1 PROVE Hangs(u, n, i)
  <2>1. i \in 0 .. n - 1 /\ i - 1 \in 0 .. n - 1 /\ i # 0
    BY <1>1
  <2>2. u.node[i].par = i - 1 /\ u.node[i].pos = i /\ u.node[i - 1].pos = i - 1
    BY <1>2, <1>5, <2>1
  <2>3. u.mask[i] = 0 .. i /\ u.mask[i - 1] = 0 .. i - 1
    BY <1>6, <2>1
  <2>4. 0 .. i = (0 .. i - 1) \cup {i}
    BY <1>1
  <2> QED
    BY <1>1, <2>1, <2>2, <2>3, <2>4 DEF Hangs
<1>9. u.mask[0] = {0} /\ u.node[0].pos = 0
  <2>1. 0 \in 0 .. n - 1 /\ 0 .. 0 = {0}
    BY <1>1
  <2> QED
    BY <1>2, <1>5, <1>6, <2>1
<1>10. Shaped(u, n, n)
  BY <1>1, <1>8, <1>9 DEF Shaped
<1>11. \A s \in 0 .. n - 1 : u.node[s].tok = p[s + 1] /\ u.node[s].st = IF s = n - 1 THEN kCandidate ELSE kPrompt
  BY <1>2, <1>5
<1> QED
  BY <1>2, <1>7, <1>10, <1>11 DEF u, Chain

\* add: the new nodes hang where they are told to, the old slots stay.
Added(t, kids, u) ==
  /\ u.prefix = t.prefix /\ u.end = t.end + Len(kids)
  /\ \A s \in Slots : s < t.end => u.node[s] = t.node[s] /\ u.mask[s] = t.mask[s]
  /\ \A s \in t.end .. t.end + Len(kids) - 1 : u.node[s] = kids[s - t.end + 1]
  /\ \A s \in Slots : s >= t.end + Len(kids) => u.node[s] = t.node[s]

\* Tree::add keeps the shape of a tree when every new node hangs below the frontier
\* and one position behind its parent.
LEMMA AddShape ==
  ASSUME NEW T, NEW Q, NEW t, Typed(t, T, Q), NEW c, Shaped(t, c, t.end),
         NEW kids \in Seq(NodeRec(T, Q)), Len(kids) <= MaxLen - t.end,
         \A k \in 1 .. Len(kids) :
            /\ kids[k].par \in c - 1 .. t.end - 1
            /\ kids[k].pos = t.node[kids[k].par].pos + 1
  PROVE  /\ Typed(Add(t, kids), T, Q)
         /\ Shaped(Add(t, kids), c, t.end + Len(kids))
         /\ Added(t, kids, Add(t, kids))
<1> DEFINE e == t.end
           n == Len(kids)
           new == e .. e + n - 1
           u == Add(t, kids)
<1>1. e \in 1 .. MaxLen /\ MaxLen \in Nat /\ n \in Nat /\ e \in Nat /\ c \in 1 .. e /\ c \in Nat
  BY MaxLenAssumption DEF Typed, Shaped
<1>2. /\ u.prefix = t.prefix /\ u.end = e + n
      /\ u.node = [s \in Slots |-> IF s \in new THEN kids[s - e + 1] ELSE t.node[s]]
      /\ u.mask = [s \in Slots |-> IF s \in new THEN t.mask[kids[s - e + 1].par] \cup {s} ELSE t.mask[s]]
      /\ u = [t EXCEPT !.node = u.node, !.mask = u.mask, !.end = e + n]
  BY DEF Add, Typed
<1> HIDE DEF u
<1>3. \A s \in new : s - e + 1 \in 1 .. n /\ s \in Slots /\ ~(s < e)
  <2>1. e \in Nat /\ n \in Nat /\ MaxLen \in Nat /\ e + n <= MaxLen
    BY <1>1
  <2> HIDE DEF e, n
  <2> QED
    BY <2>1 DEF Slots
<1>4. \A s \in Slots : (s < e => s \notin new) /\ (s >= e + n => s \notin new)
  BY <1>1 DEF Slots
<1>5. \A s \in new : kids[s - e + 1] \in NodeRec(T, Q)
  BY <1>1, <1>3
<1>6. \A s \in new : kids[s - e + 1].par \in Slots /\ kids[s - e + 1].par \in c - 1 .. e - 1
  <2>0. \A k \in 1 .. n : kids[k] \in NodeRec(T, Q)
    BY <1>1
  <2>1. \A k \in 1 .. n : kids[k].par \in Slots /\ kids[k].par \in c - 1 .. e - 1
    BY <2>0 DEF NodeRec
  <2> QED
    BY <1>3, <2>1
<1>7. t.node \in [Slots -> NodeRec(T, Q)] /\ t.mask \in [Slots -> SUBSET Slots]
  BY DEF Typed
<1>8. Typed(u, T, Q)
  <2> DEFINE N(s) == IF s \in new THEN kids[s - e + 1] ELSE t.node[s]
             M(s) == IF s \in new THEN t.mask[kids[s - e + 1].par] \cup {s} ELSE t.mask[s]
  <2>1. u.node \in [Slots -> NodeRec(T, Q)]
    <3>1. ASSUME NEW s \in Slots PROVE N(s) \in NodeRec(T, Q)
      <4>1. CASE s \in new
        BY <4>1, <1>5
      <4>2. CASE s \notin new
        BY <4>2, <1>7
      <4> QED
        BY <4>1, <4>2
    <3>2. u.node = [s \in Slots |-> N(s)]
      BY <1>2
    <3> HIDE DEF N
    <3> QED
      BY <3>1, <3>2
  <2>2. u.mask \in [Slots -> SUBSET Slots]
    <3>1. ASSUME NEW s \in Slots PROVE M(s) \in SUBSET Slots
      <4>1. CASE s \in new
        <5>1. t.mask[kids[s - e + 1].par] \in SUBSET Slots
          BY <4>1, <1>6, <1>7
        <5> QED
          BY <4>1, <5>1
      <4>2. CASE s \notin new
        BY <4>2, <1>7
      <4> QED
        BY <4>1, <4>2
    <3>2. u.mask = [s \in Slots |-> M(s)]
      BY <1>2
    <3> HIDE DEF M
    <3> QED
      BY <3>1, <3>2
  <2>3. e + n \in 1 .. MaxLen
    BY <1>1
  <2> QED
    BY <1>2, <2>1, <2>2, <2>3 DEF Typed
<1>9. \A s \in Slots : s < e => u.node[s] = t.node[s] /\ u.mask[s] = t.mask[s]
  BY <1>2, <1>4
<1>10. \A s \in 0 .. e - 1 : s \in Slots /\ s < e
  BY <1>1 DEF Slots
<1>11. \A s \in new : /\ u.node[s] = kids[s - e + 1]
                      /\ u.mask[s] = t.mask[kids[s - e + 1].par] \cup {s}
  BY <1>2, <1>3
<1>12. ASSUME NEW i \in 1 .. e + n - 1 PROVE Hangs(u, c, i)
  <2>1. CASE i < e
    <3>1. i \in 1 .. e - 1 /\ i \in 0 .. e - 1
      BY <1>1, <2>1
    <3>2. Hangs(t, c, i)
      BY <3>1 DEF Shaped
    <3>3. t.node[i].par \in 0 .. i - 1 /\ t.node[i].par \in 0 .. e - 1
      BY <1>1, <3>1, <3>2 DEF Hangs
    <3>4. /\ u.node[i] = t.node[i] /\ u.mask[i] = t.mask[i]
          /\ u.node[t.node[i].par] = t.node[t.node[i].par]
          /\ u.mask[t.node[i].par] = t.mask[t.node[i].par]
      BY <1>9, <1>10, <3>1, <3>3
    <3> QED
      BY <3>2, <3>4 DEF Hangs
  <2>2. CASE ~(i < e)
    <3> DEFINE k == i - e + 1
               q == kids[k].par
    <3>1. i \in new /\ k \in 1 .. n
      BY <1>1, <2>2
    <3>2. u.node[i] = kids[k] /\ u.mask[i] = t.mask[q] \cup {i}
      BY <1>11, <3>1
    <3>3. q \in c - 1 .. e - 1 /\ kids[k].pos = t.node[q].pos + 1
      BY <3>1
    <3> HIDE DEF k, q
    <3>4. q \in 0 .. e - 1 /\ q \in 0 .. i - 1 /\ q >= c - 1 /\ i >= c
      <4>1. i \in Int /\ i >= e /\ q \in Int /\ q >= c - 1 /\ q <= e - 1
        BY <1>1, <1>12, <2>2, <3>3
      <4> QED
        BY <1>1, <4>1
    <3>5. u.node[q] = t.node[q] /\ u.mask[q] = t.mask[q]
      BY <1>9, <1>10, <3>4
    <3>6. u.node[i].par = q /\ ~(i < c)
      <4>1. kids[k].par = q
        BY DEF q
      <4> QED
        BY <1>1, <2>2, <3>2, <4>1
    <3> HIDE DEF q
    <3>7. u.node[i].pos = u.node[q].pos + 1
      BY <3>2, <3>3, <3>5
    <3> QED
      BY <3>2, <3>4, <3>5, <3>6, <3>7 DEF Hangs
  <2> QED
    BY <2>1, <2>2
<1>13. u.mask[0] = {0} /\ u.node[0].pos = 0
  <2>1. 0 \in 0 .. e - 1
    BY <1>1
  <2> QED
    BY <1>9, <1>10, <2>1 DEF Shaped
<1>14. Shaped(u, c, e + n)
  BY <1>1, <1>12, <1>13 DEF Shaped
<1>15. \A s \in Slots : s >= e + n => u.node[s] = t.node[s]
  BY <1>2, <1>4
<1>16. \A s \in new : u.node[s] = kids[s - e + 1]
  BY <1>11
<1> QED
  BY <1>2, <1>8, <1>9, <1>14, <1>15, <1>16 DEF u, Added

\* reorder_by_sequence: a mask row becomes the committed chain.
Reordered(t, S, u) ==
  /\ Cardinality(S) \in t.prefix .. t.end
  /\ u.prefix = Cardinality(S) /\ u.end = Cardinality(S)
  /\ \A i \in 0 .. Cardinality(S) - 1 :
       u.node[i].tok = t.node[Nth(S, i)].tok /\ u.node[i].pos = i /\ u.node[i].seq = 0
  /\ \A i \in 0 .. t.prefix - 1 : u.node[i].tok = t.node[i].tok

\* Tree::reorder_by_sequence leaves a chain as long as the accepted path that spells
\* its tokens; what was committed stays where it is.
LEMMA ReorderShape ==
  ASSUME NEW T, NEW Q, 0 \in T, 0 \in Q, NEW t, Typed(t, T, Q),
         NEW S, ReorderOk(t, S)
  PROVE  /\ Typed(ReorderBySequence(t, S), T, Q)
         /\ Shaped(ReorderBySequence(t, S), Cardinality(S), Cardinality(S))
         /\ Reordered(t, S, ReorderBySequence(t, S))
<1> DEFINE n == Cardinality(S)
           u == ReorderBySequence(t, S)
<1>1. /\ MaxLen \in Nat /\ t.prefix \in 1 .. MaxLen /\ t.end \in 1 .. MaxLen
      /\ t.prefix \in Nat /\ t.end \in Nat
      /\ 0 .. t.prefix - 1 \subseteq S /\ S \subseteq 0 .. t.end - 1
  BY MaxLenAssumption DEF Typed, ReorderOk, Live
<1>2. /\ IsFiniteSet(S) /\ n \in Nat /\ n <= t.end
  <2>1. IsFiniteSet(0 .. t.end - 1) /\ Cardinality(0 .. t.end - 1) = t.end
    BY <1>1, FirstNumbers
  <2>2. IsFiniteSet(S) /\ n <= Cardinality(0 .. t.end - 1)
    <3>1. S \subseteq 0 .. t.end - 1
      BY <1>1
    <3> QED
      BY <2>1, <3>1, FS_Subset
  <2>3. n \in Nat
    BY <2>2, FS_CardinalityType
  <2> QED
    BY <2>1, <2>2, <2>3
<1>3. n >= t.prefix
  <2>1. Cardinality(0 .. t.prefix - 1) = t.prefix
    BY <1>1, FirstNumbers
  <2> QED
    BY <1>1, <1>2, <2>1, FS_Subset
<1>4. S \subseteq Nat /\ S \subseteq Int /\ S \subseteq Slots
  BY <1>1 DEF Slots
<1>5. \A i \in 0 .. n - 1 : Nth(S, i) \in S
  BY <1>2, <1>4, NthWorks
<1>6. \A i \in 0 .. t.prefix - 1 : Nth(S, i) = i
  BY <1>1, <1>2, <1>4, NthOfFirst
<1>7. /\ u.prefix = n /\ u.end = n /\ u.mask = CausalMask(n)
      /\ u.node = [i \in Slots |-> IF i < n THEN CommittedNode(t, S, i, 0) ELSE BlankNode]
      /\ u = [node |-> u.node, mask |-> u.mask, prefix |-> n, end |-> n]
  BY DEF ReorderBySequence
<1> HIDE DEF u, n
<1>8. \A i \in 0 .. n - 1 : i \in Slots /\ i < n
  BY <1>1, <1>2 DEF Slots
<1>9. \A i \in 0 .. n - 1 : u.node[i] = CommittedNode(t, S, i, 0)
  BY <1>7, <1>8
<1>10. \A i \in 0 .. n - 1 : t.node[Nth(S, i)].tok \in T
  <2>1. t.node \in [Slots -> NodeRec(T, Q)]
    BY DEF Typed
  <2>2. \A s \in Slots : t.node[s].tok \in T
    BY <2>1 DEF NodeRec
  <2> QED
    BY <1>4, <1>5, <2>2
<1>11. u.node \in [Slots -> NodeRec(T, Q)]
  <2>1. BlankNode \in NodeRec(T, Q)
    BY <1>1 DEF BlankNode, NodeRec, Slots, Status, kPrompt
  <2>2. ASSUME NEW i \in 0 .. n - 1 PROVE CommittedNode(t, S, i, 0) \in NodeRec(T, Q)
    <3>1. i \in 0 .. MaxLen /\ (IF i = 0 THEN 0 ELSE i - 1) \in Slots
      BY <1>1, <1>2 DEF Slots
    <3> QED
      BY <1>10, <3>1 DEF CommittedNode, NodeRec, Status
  <2>3. \A i \in Slots : i < n => i \in 0 .. n - 1
    BY <1>1, <1>2 DEF Slots
  <2> QED
    BY <1>7, <2>1, <2>2, <2>3
<1>12. u.mask \in [Slots -> SUBSET Slots] /\ \A s \in 0 .. n - 1 : u.mask[s] = 0 .. s
  BY <1>1, <1>2, <1>7, <1>8 DEF CausalMask, Slots
<1>13. Typed(u, T, Q)
  BY <1>1, <1>2, <1>3, <1>7, <1>11, <1>12 DEF Typed
<1>14. \A i \in 0 .. n - 1 : /\ u.node[i].pos = i /\ u.node[i].seq = 0
                             /\ u.node[i].par = IF i = 0 THEN 0 ELSE i - 1
                             /\ u.node[i].tok = t.node[Nth(S, i)].tok
  <2> SUFFICES ASSUME NEW i \in 0 .. n - 1
               PROVE  /\ u.node[i].pos = i /\ u.node[i].seq = 0
                      /\ u.node[i].par = IF i = 0 THEN 0 ELSE i - 1
                      /\ u.node[i].tok = t.node[Nth(S, i)].tok
    OBVIOUS
  <2>1. u.node[i] = CommittedNode(t, S, i, 0)
    BY <1>9
  <2> QED
    BY <2>1 DEF CommittedNode
<1>15. ASSUME NEW i \in 1 .. n - 1 PROVE Hangs(u, n, i)
  <2>1. i \in 0 .. n - 1 /\ i - 1 \in 0 .. n - 1 /\ i # 0
    BY <1>2
  <2>2. u.node[i].par = i - 1 /\ u.node[i].pos = i /\ u.node[i - 1].pos = i - 1
    BY <1>14, <2>1
  <2>3. u.mask[i] = 0 .. i /\ u.mask[i - 1] = 0 .. i - 1
    BY <1>12, <2>1
  <2>4. 0 .. i = (0 .. i - 1) \cup {i}
    BY <1>2
  <2> QED
    BY <1>2, <2>1, <2>2, <2>3, <2>4 DEF Hangs
<1>16. u.mask[0] = {0} /\ u.node[0].pos = 0
  <2>1. 0 \in 0 .. n - 1 /\ 0 .. 0 = {0}
    BY <1>1, <1>2, <1>3
  <2> QED
    BY <1>12, <1>14, <2>1
<1>17. Shaped(u, n, n)
  BY <1>1, <1>2, <1>3, <1>15, <1>16 DEF Shaped
<1>18. \A i \in 0 .. t.prefix - 1 : u.node[i].tok = t.node[i].tok
  BY <1>1, <1>2, <1>3, <1>6, <1>14
<1>19. n \in t.prefix .. t.end
  BY <1>1, <1>2, <1>3
<1> QED
  BY <1>7, <1>13, <1>14, <1>17, <1>18, <1>19 DEF u, n, Reordered

-----------------------------------------------------------------------------
(* gather, as TrimByBudget calls it *)

\* Where a kept node comes from, and where it goes to.
OldSlot(t, K, s) == IF s < t.prefix THEN s ELSE Nth(K, s - t.prefix)
NewPlace(t, K, x) == IF x \in K THEN t.prefix + Rank(K, x) ELSE x
Moved(t, K, x)   == [t.node[x] EXCEPT !.par = NewPlace(t, K, @)]
Columns(t, K, n, r) ==
  {k \in 0 .. (t.prefix + n) - 1 : OldSlot(t, K, k) \in t.mask[OldSlot(t, K, r)]}

\* The two are inverse to each other, and keep the order.
LEMMA Places ==
  ASSUME NEW T, NEW Q, NEW t, Typed(t, T, Q), NEW K, K \subseteq Drafted(t), t.prefix <= t.end,
         NEW n \in Nat \ {0}, Cardinality(K) = n
  PROVE  /\ IsFiniteSet(K) /\ K \subseteq Int /\ K \subseteq Slots
         /\ t.prefix + n <= t.end
         /\ \A s \in t.prefix .. (t.prefix + n) - 1 : s - t.prefix \in 0 .. Cardinality(K) - 1
         /\ \A s \in 0 .. (t.prefix + n) - 1 :
              /\ OldSlot(t, K, s) \in (0 .. t.prefix - 1) \cup K
              /\ NewPlace(t, K, OldSlot(t, K, s)) = s
              /\ s < t.prefix => OldSlot(t, K, s) = s
              /\ s >= t.prefix => OldSlot(t, K, s) \in K /\ OldSlot(t, K, s) = Nth(K, s - t.prefix)
         /\ \A x \in (0 .. t.prefix - 1) \cup K :
              /\ NewPlace(t, K, x) \in 0 .. (t.prefix + n) - 1
              /\ OldSlot(t, K, NewPlace(t, K, x)) = x
              /\ x \in K <=> NewPlace(t, K, x) >= t.prefix
         /\ \A x, y \in (0 .. t.prefix - 1) \cup K :
              x < y => NewPlace(t, K, x) < NewPlace(t, K, y)
<1> DEFINE c == t.prefix
           D == (0 .. c - 1) \cup K
           old(s) == OldSlot(t, K, s)
           new(x) == NewPlace(t, K, x)
<1>1. /\ MaxLen \in Nat /\ c \in 1 .. MaxLen /\ t.end \in 1 .. MaxLen /\ c \in Nat /\ t.end \in Nat
      /\ c <= t.end
  BY MaxLenAssumption DEF Typed
<1>2. K \subseteq c .. t.end - 1
  BY DEF Drafted
<1>3. IsFiniteSet(K) /\ n <= t.end - c
  <2>1. IsFiniteSet(c .. t.end - 1) /\ Cardinality(c .. t.end - 1) = t.end - c
    BY <1>1, IntervalSize
  <2> QED
    BY <1>2, <2>1, FS_Subset
<1>4. K \subseteq Int /\ K \subseteq Slots /\ \A x \in K : x >= c /\ x \in Int
  BY <1>1, <1>2 DEF Slots
<1>5. \A s \in c .. (c + n) - 1 : s - c \in 0 .. n - 1
  BY <1>1
<1>6. \A k \in 0 .. n - 1 : Nth(K, k) \in K /\ Rank(K, Nth(K, k)) = k
  BY <1>3, <1>4, NthWorks
<1>7. \A x \in K : Rank(K, x) \in 0 .. n - 1 /\ Nth(K, Rank(K, x)) = x
  BY <1>3, <1>4, RankRange, NthOfRank
<1> HIDE DEF D
<1>8. ASSUME NEW s \in 0 .. (c + n) - 1
      PROVE  /\ old(s) \in D /\ new(old(s)) = s
             /\ s < c => old(s) = s
             /\ s >= c => old(s) \in K /\ old(s) = Nth(K, s - c)
  <2>1. CASE s < c
    <3>1. old(s) = s /\ s \in 0 .. c - 1 /\ s \notin K /\ ~(s >= c)
      BY <1>1, <1>4, <2>1 DEF OldSlot
    <3> QED
      BY <2>1, <3>1 DEF NewPlace, D
  <2>2. CASE ~(s < c)
    <3>1. s \in c .. (c + n) - 1 /\ s - c \in 0 .. n - 1 /\ s \in Int
      BY <1>1, <2>2
    <3>2. old(s) = Nth(K, s - c) /\ old(s) \in K /\ Rank(K, old(s)) = s - c
      BY <1>6, <2>2, <3>1 DEF OldSlot
    <3>3. new(old(s)) = c + (s - c)
      BY <3>2 DEF NewPlace
    <3>4. c + (s - c) = s
      BY <1>1, <3>1
    <3> QED
      BY <2>2, <3>2, <3>3, <3>4 DEF D
  <2> QED
    BY <2>1, <2>2
<1>9. ASSUME NEW x \in D
      PROVE  /\ new(x) \in 0 .. (c + n) - 1 /\ old(new(x)) = x
             /\ x \in K <=> new(x) >= c
  <2>1. CASE x \in K
    <3>1. new(x) = c + Rank(K, x) /\ Rank(K, x) \in 0 .. n - 1 /\ Nth(K, Rank(K, x)) = x
      BY <1>7, <2>1 DEF NewPlace
    <3>2. new(x) \in 0 .. (c + n) - 1 /\ ~(new(x) < c) /\ new(x) - c = Rank(K, x) /\ new(x) >= c
      BY <1>1, <3>1
    <3> QED
      BY <2>1, <3>1, <3>2 DEF OldSlot
  <2>2. CASE x \notin K
    <3>1. x \in 0 .. c - 1 /\ new(x) = x
      BY <2>2 DEF D, NewPlace
    <3>2. x < c /\ x \in 0 .. (c + n) - 1 /\ ~(x >= c)
      BY <1>1, <3>1
    <3> QED
      BY <2>2, <3>1, <3>2 DEF OldSlot
  <2> QED
    BY <2>1, <2>2
<1>10. ASSUME NEW x \in D, NEW y \in D, x < y PROVE new(x) < new(y)
  <2>0. x \in Int /\ y \in Int
    BY <1>1, <1>4 DEF D
  <2>1. CASE x \in K
    <3>1. y \in K
      BY <1>1, <1>4, <1>10, <2>0, <2>1 DEF D
    <3>2. Rank(K, x) < Rank(K, y)
      BY <1>3, <1>4, <1>10, <2>0, <2>1, <3>1, RankGrows
    <3>3. Rank(K, x) \in Nat /\ Rank(K, y) \in Nat
      BY <1>7, <2>1, <3>1
    <3> QED
      BY <1>1, <2>1, <3>1, <3>2, <3>3 DEF NewPlace
  <2>2. CASE x \notin K
    <3>1. x \in 0 .. c - 1 /\ new(x) = x
      BY <2>2 DEF D, NewPlace
    <3>2. CASE y \in K
      <4>1. new(y) >= c /\ new(y) \in 0 .. (c + n) - 1
        BY <1>9, <3>2
      <4> QED
        BY <1>1, <3>1, <4>1
    <3>3. CASE y \notin K
      BY <1>10, <3>1, <3>3 DEF NewPlace
    <3> QED
      BY <3>2, <3>3
  <2> QED
    BY <2>1, <2>2
<1>11. c + n <= t.end
  BY <1>1, <1>3
<1> QED
  BY <1>3, <1>4, <1>5, <1>8, <1>9, <1>10, <1>11 DEF D

\* What gather computes when it moves the nodes K, which start behind the
\* prefix, together.
TrimTo(t, K, n) == Gather(t, [k \in 1 .. n |-> Nth(K, k - 1)], [k \in 1 .. n |-> t.prefix + k - 1])

Trimmed(t, K, n, u) ==
  /\ u.prefix = t.prefix /\ u.end = t.prefix + n
  /\ u = [node |-> u.node, mask |-> u.mask, prefix |-> u.prefix, end |-> u.end]
  /\ u.mask \in [Slots -> SUBSET Slots]
  /\ u.node = [s \in Slots |-> u.node[s]]
  /\ \A s \in 0 .. t.prefix - 1 : u.node[s] = t.node[s]
  /\ \A s \in t.prefix .. (t.prefix + n) - 1 :
       u.node[s] = Moved(t, K, OldSlot(t, K, s))
  /\ \A s \in Slots : s >= t.prefix + n =>
       u.node[s] = IF s \in K THEN Moved(t, K, s) ELSE t.node[s]
  /\ \A r \in 0 .. (t.prefix + n) - 1 :
       u.mask[r] = Columns(t, K, n, r)

\* Tree::gather, slot by slot: where each kept node and each mask row ends up.
LEMMA GatherFields ==
  ASSUME NEW T, NEW Q, NEW t, Typed(t, T, Q), t.prefix <= t.end, NEW K, K \subseteq Drafted(t),
         NEW n \in Nat \ {0}, Cardinality(K) = n
  PROVE  Trimmed(t, K, n, TrimTo(t, K, n))
<1> DEFINE c == t.prefix
           m == c + n
           src == [k \in 1 .. n |-> Nth(K, k - 1)]
           dest == [k \in 1 .. n |-> c + k - 1]
           moves == DOMAIN src
           source(s) == \E k \in moves : src[k] = s
           into(d) == \E k \in moves : dest[k] = d
           from(d) == src[CHOOSE k \in moves : dest[k] = d]
           interim(s) == IF source(s) THEN dest[CHOOSE k \in moves : src[k] = s] ELSE s
           last == 1 + CHOOSE d \in {dest[k] : k \in moves} : \A k \in moves : dest[k] <= d
           rows == [r \in Slots |-> IF into(r) THEN t.mask[from(r)] ELSE t.mask[r]]
           relinked == [s \in Slots |-> IF source(s) THEN [t.node[s] EXCEPT !.par = interim(@)] ELSE t.node[s]]
           u == TrimTo(t, K, n)
<1>1. /\ MaxLen \in Nat /\ c \in 1 .. MaxLen /\ t.end \in 1 .. MaxLen /\ c \in Nat /\ t.end \in Nat
      /\ c <= t.end
  BY MaxLenAssumption DEF Typed
<1>2. /\ IsFiniteSet(K) /\ K \subseteq Int /\ K \subseteq Slots /\ m <= t.end
      /\ \A s \in 0 .. m - 1 : /\ OldSlot(t, K, s) \in (0 .. c - 1) \cup K
                               /\ s < c => OldSlot(t, K, s) = s
                               /\ s >= c => OldSlot(t, K, s) \in K /\ OldSlot(t, K, s) = Nth(K, s - c)
  BY <1>1, Places
<1>3. moves = 1 .. n /\ (\A k \in 1 .. n : src[k] = Nth(K, k - 1) /\ dest[k] = c + k - 1 /\ k - 1 \in 0 .. n - 1)
  OBVIOUS
<1>4. \A d : into(d) <=> d \in c .. m - 1
  <2>1. ASSUME NEW k \in 1 .. n PROVE c + k - 1 \in c .. m - 1
    BY <1>1
  <2>2. ASSUME NEW d \in c .. m - 1 PROVE d - c + 1 \in 1 .. n /\ dest[d - c + 1] = d
    BY <1>1
  <2> HIDE DEF src, dest
  <2> QED
    BY <1>3, <2>1, <2>2
<1>5. \A d \in c .. m - 1 : from(d) = OldSlot(t, K, d)
  <2> SUFFICES ASSUME NEW d \in c .. m - 1 PROVE from(d) = OldSlot(t, K, d)
    OBVIOUS
  <2> DEFINE k == CHOOSE k \in moves : dest[k] = d
  <2>1. \E x \in moves : dest[x] = d
    BY <1>4
  <2>2. k \in moves /\ dest[k] = d
    <3> HIDE DEF dest, src
    <3> QED
      BY <2>1
  <2> HIDE DEF k
  <2>3. k \in 1 .. n /\ k - 1 = d - c
    BY <1>1, <1>3, <2>2
  <2>4. src[k] = Nth(K, d - c)
    BY <1>3, <2>3
  <2>5. d \in 0 .. m - 1 /\ d >= c
    BY <1>1
  <2>6. OldSlot(t, K, d) = Nth(K, d - c)
    BY <1>2, <2>5
  <2> QED
    BY <2>4, <2>6 DEF k
<1>6. \A k \in 0 .. n - 1 : Nth(K, k) \in K /\ Rank(K, Nth(K, k)) = k
  BY <1>2, NthWorks
<1>7. \A x \in K : Rank(K, x) \in 0 .. n - 1 /\ Nth(K, Rank(K, x)) = x
  BY <1>2, RankRange, NthOfRank
<1>8. \A s : source(s) <=> s \in K
  <2>1. ASSUME NEW k \in 1 .. n PROVE Nth(K, k - 1) \in K
    BY <1>3, <1>6
  <2>2. ASSUME NEW s \in K PROVE Rank(K, s) + 1 \in 1 .. n /\ src[Rank(K, s) + 1] = s
    <3>1. Rank(K, s) \in 0 .. n - 1
      BY <1>7
    <3>2. Rank(K, s) + 1 \in 1 .. n /\ (Rank(K, s) + 1) - 1 = Rank(K, s)
      BY <3>1
    <3> QED
      BY <1>7, <3>2
  <2> HIDE DEF src, dest
  <2> QED
    BY <1>3, <2>1, <2>2
<1>9. \A s : interim(s) = NewPlace(t, K, s)
  <2> SUFFICES ASSUME NEW s PROVE interim(s) = NewPlace(t, K, s)
    OBVIOUS
  <2>1. CASE s \in K
    <3> DEFINE k == CHOOSE k \in moves : src[k] = s
    <3>1. \E x \in moves : src[x] = s
      BY <1>8, <2>1
    <3>2. k \in moves /\ src[k] = s
      <4> HIDE DEF src, dest
      <4> QED
        BY <3>1
    <3> HIDE DEF k
    <3>3. k \in 1 .. n /\ Nth(K, k - 1) = s /\ k - 1 \in 0 .. n - 1
      BY <1>3, <3>2
    <3>4. Rank(K, s) = k - 1
      BY <1>6, <3>3
    <3>5. dest[k] = c + k - 1 /\ c + (k - 1) = c + k - 1
      BY <1>1, <1>3, <3>3
    <3>6. interim(s) = dest[k]
      BY <3>1 DEF k
    <3> QED
      BY <2>1, <3>4, <3>5, <3>6 DEF NewPlace
  <2>2. CASE s \notin K
    <3>1. ~source(s)
      BY <1>8, <2>2
    <3> HIDE DEF src, dest
    <3> QED
      BY <2>2, <3>1 DEF NewPlace
  <2> QED
    BY <2>1, <2>2
<1>10. last = m
  <2> DEFINE Z == {dest[k] : k \in moves}
             d == CHOOSE d \in Z : \A k \in moves : dest[k] <= d
  <2>1. n \in moves /\ dest[n] = m - 1 /\ \A k \in moves : dest[k] <= m - 1 /\ dest[k] \in Int
    BY <1>1, <1>3
  <2>2. m - 1 \in Z /\ \A k \in moves : dest[k] <= m - 1
    BY <2>1
  <2>3. d \in Z /\ \A k \in moves : dest[k] <= d
    <3> HIDE DEF Z
    <3> QED
      BY <2>2
  <2> HIDE DEF d
  <2>a. PICK k \in moves : d = dest[k]
    BY <2>3
  <2>4. d <= m - 1 /\ m - 1 <= d /\ d \in Int /\ m \in Int
    <3> HIDE DEF dest, src
    <3> QED
      BY <1>1, <2>1, <2>3, <2>a
  <2>5. 1 + d = m
    BY <2>4
  <2> QED
    BY <2>5 DEF d
<1>11. u = [node   |-> [s \in Slots |-> IF into(s) THEN relinked[from(s)] ELSE relinked[s]],
            mask   |-> [r \in Slots |-> IF r < last
                                        THEN {k \in GatherColumns(rows[r], src, dest) : k < last}
                                        ELSE {}],
            prefix |-> c,
            end    |-> last]
  BY DEF TrimTo, Gather
<1> HIDE DEF src, dest, interim, from, last, u, moves, into, source, relinked, rows
<1>12. u.prefix = c /\ u.end = m /\ u = [node |-> u.node, mask |-> u.mask, prefix |-> u.prefix, end |-> u.end]
  BY <1>10, <1>11
<1>13. \A s \in 0 .. m - 1 : s \in Slots /\ s < m
  BY <1>1, <1>2 DEF Slots
<1>14. \A s \in Slots : relinked[s] = IF s \in K THEN Moved(t, K, s) ELSE t.node[s]
  BY <1>8, <1>9 DEF relinked, Moved
<1>15. \A s \in c .. m - 1 : u.node[s] = Moved(t, K, OldSlot(t, K, s))
  <2> SUFFICES ASSUME NEW s \in c .. m - 1
               PROVE  u.node[s] = Moved(t, K, OldSlot(t, K, s))
    OBVIOUS
  <2>1. s \in 0 .. m - 1 /\ s >= c /\ s \in Slots
    BY <1>1, <1>13
  <2>2. OldSlot(t, K, s) \in K /\ OldSlot(t, K, s) \in Slots
    BY <1>2, <2>1
  <2>3. u.node[s] = relinked[OldSlot(t, K, s)]
    BY <1>4, <1>5, <1>11, <2>1
  <2> QED
    BY <1>14, <2>2, <2>3
<1>16. \A s \in 0 .. c - 1 : u.node[s] = t.node[s]
  <2> SUFFICES ASSUME NEW s \in 0 .. c - 1 PROVE u.node[s] = t.node[s]
    OBVIOUS
  <2>1. s \in 0 .. m - 1 /\ s < c /\ s \in Slots /\ s \notin c .. m - 1
    BY <1>1, <1>13
  <2>2. s \notin K
    BY <1>1, <2>1 DEF Drafted
  <2> QED
    BY <1>4, <1>11, <1>14, <2>1, <2>2
<1>17. ASSUME NEW r \in 0 .. m - 1
       PROVE  u.mask[r] = {k \in 0 .. m - 1 : OldSlot(t, K, k) \in t.mask[OldSlot(t, K, r)]}
  <2>1. r \in Slots /\ r < m
    BY <1>13
  <2>2. rows[r] = t.mask[OldSlot(t, K, r)]
    <3>1. CASE r \in c .. m - 1
      BY <1>4, <1>5, <2>1, <3>1 DEF rows
    <3>2. CASE r \notin c .. m - 1
      <4>1. r < c
        BY <1>1, <1>17, <3>2
      <4> QED
        BY <1>2, <1>4, <2>1, <3>2, <4>1 DEF rows
    <3> QED
      BY <3>1, <3>2
  <2>3. u.mask[r] = {k \in GatherColumns(rows[r], src, dest) : k < m}
    BY <1>10, <1>11, <2>1
  <2>4. \A k : k \in GatherColumns(rows[r], src, dest)
               <=> k \in Slots /\ (IF into(k) THEN from(k) ELSE k) \in rows[r]
    BY DEF GatherColumns, into, from, moves
  <2>5. \A k \in 0 .. m - 1 : (IF into(k) THEN from(k) ELSE k) = OldSlot(t, K, k)
    <3> SUFFICES ASSUME NEW k \in 0 .. m - 1 PROVE (IF into(k) THEN from(k) ELSE k) = OldSlot(t, K, k)
      OBVIOUS
    <3>1. CASE k \in c .. m - 1
      BY <1>4, <1>5, <3>1
    <3>2. CASE k \notin c .. m - 1
      <4>1. k < c
        BY <1>1, <3>2
      <4> QED
        BY <1>2, <1>4, <3>2, <4>1
    <3> QED
      BY <3>1, <3>2
  <2>6. \A k \in Slots : k < m <=> k \in 0 .. m - 1
    BY <1>1, <1>2 DEF Slots
  <2> QED
    BY <1>13, <2>2, <2>3, <2>4, <2>5, <2>6
<1>18. u.mask \in [Slots -> SUBSET Slots]
  <2>1. \A r \in Slots : GatherColumns(rows[r], src, dest) \subseteq Slots
    BY DEF GatherColumns
  <2> QED
    BY <1>11, <2>1
<1>19. u.node = [s \in Slots |-> u.node[s]]
  BY <1>11
<1>20. ASSUME NEW s \in Slots, s >= m
       PROVE  u.node[s] = IF s \in K THEN Moved(t, K, s) ELSE t.node[s]
  <2>1. s \notin c .. m - 1
    BY <1>1, <1>20 DEF Slots
  <2> QED
    BY <1>4, <1>11, <1>14, <2>1
<1>22. \A r \in 0 .. m - 1 : u.mask[r] = Columns(t, K, n, r)
  BY <1>17 DEF Columns
<1>21. Trimmed(t, K, n, u)
  BY <1>12, <1>15, <1>16, <1>18, <1>19, <1>20, <1>22, Zenon DEF Trimmed
<1> QED
  BY <1>21 DEF u

\* A trim that keeps the parent of each node it keeps leaves a tree.
LEMMA GatherShape ==
  ASSUME NEW T, NEW Q, NEW t, Typed(t, T, Q), Shaped(t, t.prefix, t.end),
         NEW K, K \subseteq Drafted(t), NEW n \in Nat \ {0}, Cardinality(K) = n,
         \A x \in K : t.node[x].par >= t.prefix => t.node[x].par \in K
  PROVE  /\ Typed(TrimTo(t, K, n), T, Q)
         /\ Shaped(TrimTo(t, K, n), t.prefix, t.prefix + n)
         /\ Trimmed(t, K, n, TrimTo(t, K, n))
<1> DEFINE c == t.prefix
           m == c + n
           D == (0 .. c - 1) \cup K
           old(s) == OldSlot(t, K, s)
           new(x) == NewPlace(t, K, x)
           u == TrimTo(t, K, n)
<1>1. /\ MaxLen \in Nat /\ c \in 1 .. MaxLen /\ t.end \in 1 .. MaxLen /\ c \in Nat /\ t.end \in Nat
      /\ c <= t.end
  BY MaxLenAssumption DEF Typed, Shaped
<1>2. /\ IsFiniteSet(K) /\ K \subseteq Int /\ K \subseteq Slots /\ m <= t.end
      /\ \A s \in 0 .. m - 1 : /\ old(s) \in D /\ new(old(s)) = s
                               /\ s < c => old(s) = s
                               /\ s >= c => old(s) \in K
      /\ \A x \in D : new(x) \in 0 .. m - 1 /\ old(new(x)) = x /\ (x \in K <=> new(x) >= c)
      /\ \A x, y \in D : x < y => new(x) < new(y)
  BY <1>1, Places
<1>0. Trimmed(t, K, n, u)
  BY <1>1, GatherFields
<1>3. /\ u.prefix = c /\ u.end = m
      /\ u = [node |-> u.node, mask |-> u.mask, prefix |-> u.prefix, end |-> u.end]
      /\ \A s \in c .. m - 1 : u.node[s] = Moved(t, K, old(s))
      /\ \A s \in 0 .. c - 1 : u.node[s] = t.node[s]
  BY <1>0, Zenon DEF Trimmed
<1>3b. \A r \in 0 .. m - 1 : u.mask[r] = {k \in 0 .. m - 1 : old(k) \in t.mask[old(r)]}
  BY <1>0 DEF Trimmed, Columns
<1>3a. /\ u.mask \in [Slots -> SUBSET Slots] /\ u.node = [s \in Slots |-> u.node[s]]
       /\ \A s \in Slots : s >= m => u.node[s] = IF s \in K THEN Moved(t, K, s) ELSE t.node[s]
  BY <1>0, Zenon DEF Trimmed
<1> HIDE DEF u, D
<1>4. t.node \in [Slots -> NodeRec(T, Q)]
  BY DEF Typed
<1>5. D \subseteq Slots /\ \A x \in K : x >= c /\ x \in 1 .. t.end - 1 /\ x \in D
  <2>1. K \subseteq c .. t.end - 1 /\ K \subseteq D
    BY DEF Drafted, D
  <2>2. \A x \in K : x >= c /\ x \in 1 .. t.end - 1
    BY <1>1, <2>1
  <2>3. 0 .. c - 1 \subseteq Slots /\ K \subseteq Slots
    <3>1. K \subseteq Slots
      BY <1>2
    <3> QED
      BY <1>1, <3>1 DEF Slots
  <2> QED
    BY <2>1, <2>2, <2>3 DEF D
<1>6. \A x \in K : t.node[x].par \in D /\ t.node[x].par < x /\ t.node[x].par \in Int
  <2> SUFFICES ASSUME NEW x \in K PROVE t.node[x].par \in D /\ t.node[x].par < x /\ t.node[x].par \in Int
    OBVIOUS
  <2>1. x \in 1 .. t.end - 1
    BY <1>5
  <2>2. t.node[x].par \in 0 .. x - 1
    BY <2>1 DEF Shaped, Hangs
  <2>3. t.node[x].par < c => t.node[x].par \in 0 .. c - 1
    BY <1>1, <2>1, <2>2
  <2>4. t.node[x].par < c \/ t.node[x].par >= c
    BY <1>1, <2>1, <2>2
  <2> QED
    BY <2>1, <2>2, <2>3, <2>4 DEF D
<1>7. \A s \in 0 .. m - 1 : s \in Slots
  BY <1>1, <1>2 DEF Slots
\* Each moved node, with the facts the rest needs.
<1>8. ASSUME NEW s \in c .. m - 1
      PROVE  /\ s \in 0 .. m - 1 /\ old(s) \in K /\ old(s) \in Slots
             /\ u.node[s].par = new(t.node[old(s)].par)
             /\ u.node[s].pos = t.node[old(s)].pos
             /\ u.node[s] \in NodeRec(T, Q)
  <2>1. s \in 0 .. m - 1 /\ s >= c
    BY <1>1
  <2>2. old(s) \in K /\ old(s) \in Slots
    BY <1>2, <1>5, <2>1
  <2>3. t.node[old(s)] \in NodeRec(T, Q)
    BY <1>4, <2>2
  <2>4. new(t.node[old(s)].par) \in Slots
    BY <1>2, <1>6, <1>7, <2>2
  <2>5. u.node[s] = Moved(t, K, old(s))
    BY <1>3
  <2> QED
    BY <2>1, <2>2, <2>3, <2>4, <2>5 DEF NodeRec, Moved
<1>9. \A s \in 0 .. m - 1 : u.node[s] \in NodeRec(T, Q) /\ u.node[s].pos = t.node[old(s)].pos
  <2> SUFFICES ASSUME NEW s \in 0 .. m - 1
               PROVE  u.node[s] \in NodeRec(T, Q) /\ u.node[s].pos = t.node[old(s)].pos
    OBVIOUS
  <2>1. CASE s \in c .. m - 1
    BY <1>8, <2>1
  <2>2. CASE s \in 0 .. c - 1
    <3>1. s < c /\ s \in Slots
      BY <1>1, <1>7, <2>2
    <3> QED
      BY <1>2, <1>3, <1>4, <2>2, <3>1
  <2> QED
    BY <1>1, <2>1, <2>2
<1>10. Typed(u, T, Q)
  <2>1. u.node \in [Slots -> NodeRec(T, Q)]
    <3>1. ASSUME NEW s \in Slots, s >= m PROVE u.node[s] \in NodeRec(T, Q)
      <4>1. CASE s \in K
        <5>1. u.node[s] = Moved(t, K, s)
          BY <1>3a, <3>1, <4>1
        <5>2. new(t.node[s].par) \in Slots
          BY <1>2, <1>6, <1>7, <4>1
        <5> QED
          BY <1>4, <5>1, <5>2 DEF NodeRec, Moved
      <4>2. CASE s \notin K
        BY <1>3a, <1>4, <3>1, <4>2
      <4> QED
        BY <4>1, <4>2
    <3>2. \A s \in Slots : s >= m \/ s \in 0 .. m - 1
      BY <1>1 DEF Slots
    <3>3. \A s \in Slots : u.node[s] \in NodeRec(T, Q)
      BY <1>9, <3>1, <3>2
    <3> QED
      BY <1>3a, <3>3
  <2>2. m \in 1 .. MaxLen
    BY <1>1, <1>2
  <2> QED
    BY <1>1, <1>3, <1>3a, <2>1, <2>2 DEF Typed
<1>11. ASSUME NEW i \in 1 .. m - 1 PROVE Hangs(u, c, i)
  <2> DEFINE x == old(i)
             p == t.node[x].par
             q == u.node[i].par
  <2>1. i \in 0 .. m - 1 /\ x \in D /\ new(x) = i
    BY <1>1, <1>2
  <2>2. p \in D /\ q = new(p) /\ p < x /\ x \in Int /\ p \in Int /\ x \in 1 .. t.end - 1
        /\ (i < c => q = i - 1) /\ (i >= c => q >= c - 1)
    <3>1. CASE i \in c .. m - 1
      <4>1. x \in K /\ q = new(p)
        BY <1>8, <3>1
      <4>2. p \in D /\ p < x /\ p \in Int /\ x \in 1 .. t.end - 1
        BY <1>5, <1>6, <4>1
      <4>3. p >= c - 1
        <5>1. x >= c
          BY <1>5, <4>1
        <5> QED
          BY <4>2, <5>1 DEF Shaped, Hangs
      <4>4. q >= c - 1
        <5>1. CASE p \in K
          <6>1. q >= c /\ q \in Int
            BY <1>1, <1>2, <4>1, <4>2, <5>1
          <6> QED
            BY <1>1, <6>1
        <5>2. CASE p \notin K
          BY <4>1, <4>3, <5>2 DEF NewPlace
        <5> QED
          BY <5>1, <5>2
      <4>5. ~(i < c) /\ x \in Int
        BY <1>1, <3>1, <4>2
      <4> QED
        BY <4>1, <4>2, <4>4, <4>5
    <3>2. CASE i \in 0 .. c - 1
      <4>1. x = i /\ i < c /\ i \in 1 .. t.end - 1 /\ ~(i >= c)
        BY <1>1, <1>2, <2>1, <3>2
      <4>2. u.node[i] = t.node[i]
        BY <1>3, <3>2
      <4>3. p = i - 1 /\ q = p
        BY <4>1, <4>2 DEF Shaped, Hangs
      <4>4. p \in 0 .. c - 1 /\ p < i /\ p \in Int /\ x \in Int
        BY <1>1, <3>2, <4>1, <4>3
      <4>5. p \notin K
        BY <1>1, <1>5, <4>4
      <4> QED
        BY <4>1, <4>3, <4>4, <4>5 DEF NewPlace, D
    <3> QED
      BY <1>1, <1>11, <3>1, <3>2
  <2>3. q \in 0 .. m - 1 /\ old(q) = p /\ q < i
    BY <1>2, <2>1, <2>2
  <2>4. q \in 0 .. i - 1
    BY <1>1, <1>11, <2>3
  <2>5. t.mask[x] = t.mask[p] \cup {x} /\ t.node[x].pos = t.node[p].pos + 1
    BY <2>2 DEF Shaped, Hangs
  <2>6. u.node[i].pos = u.node[q].pos + 1
    BY <1>9, <2>1, <2>3, <2>5
  <2>7. u.mask[i] = u.mask[q] \cup {i}
    <3>1. u.mask[i] = {k \in 0 .. m - 1 : old(k) \in t.mask[x]}
      BY <1>3b, <2>1
    <3>2. u.mask[q] = {k \in 0 .. m - 1 : old(k) \in t.mask[p]}
      BY <1>3b, <2>3
    <3>3. \A k \in 0 .. m - 1 : old(k) = x <=> k = i
      BY <1>2, <2>1
    <3> HIDE DEF x, p, q
    <3> QED
      BY <2>1, <2>5, <3>1, <3>2, <3>3
  <2> QED
    BY <2>2, <2>4, <2>6, <2>7 DEF Hangs
<1>12. u.mask[0] = {0} /\ u.node[0].pos = 0
  <2>1. 0 \in 0 .. m - 1 /\ 0 < c /\ old(0) = 0
    BY <1>1, <1>2
  <2>2. t.mask[0] = {0} /\ t.node[0].pos = 0
    BY DEF Shaped
  <2>3. \A k \in 0 .. m - 1 : old(k) = 0 <=> k = 0
    BY <1>2, <2>1
  <2>4. u.mask[0] = {k \in 0 .. m - 1 : old(k) \in {0}}
    BY <1>3b, <2>1, <2>2
  <2> QED
    BY <1>9, <2>1, <2>2, <2>3, <2>4
<1> QED
  BY <1>0, <1>1, <1>2, <1>3, <1>10, <1>11, <1>12 DEF Shaped, u

-----------------------------------------------------------------------------
(* reorder_by_sequence_proactive *)

\* The recursion that rebuilds the mask is well founded, because parents come
\* first; what it computes is a row per slot.
LEMMA MaskRows ==
  ASSUME NEW node, NEW m \in 1 .. MaxLen, \A i \in 1 .. m - 1 : node[i].par \in 0 .. i - 1
  PROVE  /\ MaskFromParents(node, m) \in [Slots -> SUBSET Slots]
         /\ MaskFromParents(node, m)[0] = {0}
         /\ \A i \in 1 .. m - 1 : MaskFromParents(node, m)[i]
                                    = MaskFromParents(node, m)[node[i].par] \cup {i}
<1> DEFINE Row(g, i) == IF i = 0 THEN {0} ELSE g[node[i].par] \cup {i}
           Upto(k) == {g \in [0 .. k - 1 -> SUBSET (0 .. m - 1)] : g = [i \in 0 .. k - 1 |-> Row(g, i)]}
           G == {k \in Nat : k <= m => Upto(k) # {}}
           M == MaskFromParents(node, m)
<1>1. m \in Nat /\ MaxLen \in Nat /\ m # 0 /\ m <= MaxLen
  BY MaxLenAssumption
<1>2. 0 \in G
  <2> DEFINE g == [i \in 0 .. 0 - 1 |-> {}]
  <2>1. 0 .. 0 - 1 = {}
    OBVIOUS
  <2>2. g \in Upto(0)
    BY <2>1
  <2> QED
    BY <2>2
<1>3. ASSUME NEW k \in Nat, k \in G PROVE k + 1 \in G
  <2>1. SUFFICES ASSUME k + 1 <= m PROVE Upto(k + 1) # {}
    BY <1>1
  <2>2. k <= m
    BY <1>1, <2>1
  <2>3. PICK g : g \in Upto(k)
    BY <1>3, <2>2
  <2> DEFINE h == [i \in 0 .. (k + 1) - 1 |-> Row(g, i)]
  <2>4. \A i \in 0 .. k - 1 : g[i] = Row(g, i) /\ g[i] \subseteq 0 .. m - 1
    BY <2>3
  <2>5. \A i \in 0 .. k - 1 : h[i] = g[i] /\ i \in 0 .. (k + 1) - 1
    <3>1. \A i \in 0 .. k - 1 : i \in 0 .. (k + 1) - 1
      OBVIOUS
    <3>2. \A i \in 0 .. (k + 1) - 1 : h[i] = Row(g, i)
      OBVIOUS
    <3> HIDE DEF h, Row
    <3> QED
      BY <2>4, <3>1, <3>2
  <2>6. ASSUME NEW i \in 0 .. (k + 1) - 1 PROVE Row(g, i) = Row(h, i) /\ Row(g, i) \subseteq 0 .. m - 1
    <3>1. CASE i = 0
      BY <1>1, <3>1
    <3>2. CASE i # 0
      <4>1. i \in 1 .. m - 1 /\ i - 1 \in 0 .. k - 1 /\ i \in 0 .. m - 1
        BY <1>1, <2>1, <2>6, <3>2
      <4>2. node[i].par \in 0 .. k - 1
        BY <4>1
      <4>3. h[node[i].par] = g[node[i].par] /\ g[node[i].par] \subseteq 0 .. m - 1
        BY <2>4, <2>5, <4>2
      <4> HIDE DEF h
      <4> QED
        BY <3>2, <4>1, <4>3
    <3> QED
      BY <3>1, <3>2
  <2>7. h \in Upto(k + 1)
    <3>1. h \in [0 .. (k + 1) - 1 -> SUBSET (0 .. m - 1)]
      BY <2>6
    <3>2. h = [i \in 0 .. (k + 1) - 1 |-> Row(h, i)]
      BY <2>6
    <3> HIDE DEF h
    <3> QED
      BY <3>1, <3>2
  <2> QED
    BY <2>7
<1>4. Upto(m) # {}
  <2> HIDE DEF Upto
  <2>1. \A k \in Nat : k \in G => k + 1 \in G
    BY <1>3
  <2> HIDE DEF G
  <2>2. Nat \subseteq G
    BY <1>2, <2>1, SetInduction
  <2>3. m \in G
    BY <1>1, <2>2
  <2> QED
    BY <1>1, <2>3 DEF G
<1> DEFINE row == CHOOSE g : g = [i \in 0 .. m - 1 |-> IF i = 0 THEN {0} ELSE g[node[i].par] \cup {i}]
<1>5. row = [i \in 0 .. m - 1 |-> IF i = 0 THEN {0} ELSE row[node[i].par] \cup {i}]
  <2>1. PICK g : g \in Upto(m)
    BY <1>4
  <2>2. g = [i \in 0 .. m - 1 |-> IF i = 0 THEN {0} ELSE g[node[i].par] \cup {i}]
    BY <2>1
  <2> QED
    BY <2>2
<1>6. M = [r \in Slots |-> IF r < m THEN row[r] ELSE {}]
  BY DEF MaskFromParents
<1> HIDE DEF row, M, G, Upto, Row
<1>7. row[0] = {0} /\ \A i \in 1 .. m - 1 : row[i] = row[node[i].par] \cup {i}
  <2>1. 0 \in 0 .. m - 1 /\ \A i \in 1 .. m - 1 : i \in 0 .. m - 1 /\ i # 0
    BY <1>1
  <2> QED
    BY <1>5, <2>1
<1>8. \A i \in 0 .. m - 1 : row[i] \subseteq Slots
  <2> DEFINE B == {i \in 0 .. m - 1 : ~(row[i] \subseteq Slots)}
  <2> SUFFICES ASSUME B # {} PROVE FALSE
    OBVIOUS
  <2>1. PICK i \in B : \A j \in B : i <= j
    <3>1. B \subseteq Nat
      BY <1>1
    <3> QED
      BY <3>1, LeastNat
  <2>2. i # 0
    BY <1>1, <1>7, <2>1 DEF Slots
  <2>3. i \in 1 .. m - 1 /\ i \in Slots
    BY <1>1, <2>1, <2>2 DEF Slots
  <2>4. node[i].par \in 0 .. i - 1
    BY <2>3
  <2>5. node[i].par \in 0 .. m - 1 /\ node[i].par \notin B
    BY <1>1, <2>1, <2>3, <2>4
  <2> QED
    BY <1>7, <2>1, <2>3, <2>5
<1>9. \A i \in 0 .. m - 1 : M[i] = row[i] /\ i \in Slots
  BY <1>1, <1>6 DEF Slots
<1>10. M \in [Slots -> SUBSET Slots]
  <2>1. \A r \in Slots : r < m => r \in 0 .. m - 1
    BY <1>1 DEF Slots
  <2> QED
    BY <1>6, <1>8, <2>1
<1>11. M[0] = {0}
  BY <1>1, <1>7, <1>9
<1>12. ASSUME NEW i \in 1 .. m - 1 PROVE M[i] = M[node[i].par] \cup {i}
  <2>1. node[i].par \in 0 .. i - 1
    OBVIOUS
  <2>2. i \in 0 .. m - 1 /\ node[i].par \in 0 .. m - 1
    BY <1>1, <2>1
  <2> QED
    BY <1>7, <1>9, <2>2
<1> QED
  BY <1>10, <1>11, <1>12 DEF M

\* The accepted row becomes the committed chain, and the subtree at [b, e) hangs
\* below it, its root committed as well.
Spliced(t, S, b, e, q, u) ==
  /\ Cardinality(S) \in t.prefix .. t.end
  /\ u.prefix = Cardinality(S) + 1 /\ u.end = Cardinality(S) + (e - b)
  /\ \A i \in 0 .. Cardinality(S) - 1 :
       /\ u.node[i].tok = t.node[Nth(S, i)].tok /\ u.node[i].pos = i
       /\ u.node[i].seq = q /\ u.node[i].st = kPrompt
  /\ \A i \in 0 .. t.prefix - 1 : u.node[i].tok = t.node[i].tok
  /\ \A s \in b .. e - 1 :
       LET x == t.node[s]
           y == u.node[Cardinality(S) + (s - b)]
       IN /\ y.tok = x.tok /\ y.pos = x.pos /\ y.lp = x.lp
          /\ y.st = IF s = b THEN kProcessed ELSE Promoted(x.st)
          /\ y.seq = IF s = b THEN q ELSE x.seq
          /\ s > b => y.par = Cardinality(S) + (x.par - b)

\* Tree::reorder_by_sequence_proactive leaves the accepted path, then the bet's
\* subtree with its parents renumbered, and the result is a tree again.
LEMMA ProactiveShape ==
  ASSUME NEW T, NEW Q, 0 \in T, 0 \in Q, NEW t, Typed(t, T, Q),
         NEW S, NEW b \in Nat, NEW e \in Nat, ReorderProactiveOk(t, S, b, e), NEW q \in Q,
         \A s \in b + 1 .. e - 1 : /\ t.node[s].par \in b .. s - 1
                                   /\ t.node[s].pos = t.node[t.node[s].par].pos + 1
  PROVE  /\ Typed(ReorderProactive(t, S, b, e, q), T, Q)
         /\ Shaped(ReorderProactive(t, S, b, e, q), Cardinality(S) + 1, Cardinality(S) + (e - b))
         /\ Spliced(t, S, b, e, q, ReorderProactive(t, S, b, e, q))
<1> DEFINE n == Cardinality(S)
           last == n + (e - b)
           u == ReorderProactive(t, S, b, e, q)
           sub(i) == b + (i - n)
<1>1. /\ MaxLen \in Nat /\ t.prefix \in 1 .. MaxLen /\ t.end \in 1 .. MaxLen
      /\ t.prefix \in Nat /\ t.end \in Nat
      /\ 0 .. t.prefix - 1 \subseteq S /\ S \subseteq 0 .. t.end - 1
      /\ t.end <= b /\ b < e /\ e <= MaxLen /\ last <= MaxLen
      /\ t.node[b].par \in S /\ NewSlot(S, b, t.node[b].par) = n - 1
      /\ t.node[b].pos = n
  BY MaxLenAssumption DEF Typed, ReorderOk, Live, ReorderProactiveOk
<1>2. /\ IsFiniteSet(S) /\ n \in Nat /\ n <= t.end
  <2>1. IsFiniteSet(0 .. t.end - 1) /\ Cardinality(0 .. t.end - 1) = t.end
    BY <1>1, FirstNumbers
  <2>2. IsFiniteSet(S) /\ n <= Cardinality(0 .. t.end - 1)
    <3>1. S \subseteq 0 .. t.end - 1
      BY <1>1
    <3> QED
      BY <2>1, <3>1, FS_Subset
  <2>3. n \in Nat
    BY <2>2, FS_CardinalityType
  <2> QED
    BY <2>1, <2>2, <2>3
<1>3. n >= t.prefix
  <2>1. Cardinality(0 .. t.prefix - 1) = t.prefix
    BY <1>1, FirstNumbers
  <2> QED
    BY <1>1, <1>2, <2>1, FS_Subset
<1>4. S \subseteq Nat /\ S \subseteq Int /\ S \subseteq Slots
  BY <1>1 DEF Slots
<1>5. \A i \in 0 .. n - 1 : Nth(S, i) \in S
  BY <1>2, <1>4, NthWorks
<1>6. \A i \in 0 .. t.prefix - 1 : Nth(S, i) = i
  BY <1>1, <1>2, <1>4, NthOfFirst
<1>7. /\ u.prefix = n + 1 /\ u.end = last /\ u.mask = MaskFromParents(u.node, last)
      /\ u.node = [i \in Slots |->
                     IF i < n THEN CommittedNode(t, S, i, q)
                     ELSE IF i < last
                     THEN [t.node[sub(i)] EXCEPT
                             !.par = NewSlot(S, b, @),
                             !.st  = IF i = n THEN kProcessed ELSE Promoted(@),
                             !.seq = IF i = n THEN q ELSE @]
                     ELSE BlankNode]
      /\ u = [node |-> u.node, mask |-> u.mask, prefix |-> n + 1, end |-> last]
  BY DEF ReorderProactive
<1> HIDE DEF u, n
<1>8. /\ \A i \in 0 .. n - 1 : i \in Slots /\ i < n
      /\ \A s \in b .. e - 1 : s \in Slots /\ n + (s - b) \in n .. last - 1 /\ sub(n + (s - b)) = s
                               /\ (n + (s - b) = n <=> s = b)
      /\ \A i \in n .. last - 1 : i \in Slots /\ ~(i < n) /\ i < last /\ sub(i) \in b .. e - 1
                                  /\ i = n + (sub(i) - b)
  BY <1>1, <1>2 DEF Slots
<1>9. \A i \in 0 .. n - 1 : u.node[i] = CommittedNode(t, S, i, q)
  BY <1>7, <1>8
<1>10. t.node \in [Slots -> NodeRec(T, Q)]
  BY DEF Typed
<1>11. \A i \in 0 .. n - 1 : t.node[Nth(S, i)].tok \in T
  <2>2. \A s \in Slots : t.node[s].tok \in T
    BY <1>10 DEF NodeRec
  <2> QED
    BY <1>4, <1>5, <2>2
<1>12. ASSUME NEW i \in 0 .. n - 1
       PROVE  /\ u.node[i].pos = i /\ u.node[i].seq = q /\ u.node[i].st = kPrompt
              /\ u.node[i].par = IF i = 0 THEN 0 ELSE i - 1
              /\ u.node[i].tok = t.node[Nth(S, i)].tok
              /\ u.node[i] \in NodeRec(T, Q)
  <2>1. u.node[i] = CommittedNode(t, S, i, q)
    BY <1>9
  <2>2. i \in 0 .. MaxLen /\ (IF i = 0 THEN 0 ELSE i - 1) \in Slots
    BY <1>1, <1>2 DEF Slots
  <2>3. t.node[Nth(S, i)].tok \in T
    BY <1>11
  <2>4. u.node[i] \in NodeRec(T, Q)
    BY <2>1, <2>2, <2>3 DEF CommittedNode, NodeRec, Status
  <2> QED
    BY <2>1, <2>4 DEF CommittedNode
<1>13. ASSUME NEW s \in b .. e - 1
       PROVE  LET x == t.node[s]
                  y == u.node[n + (s - b)]
              IN /\ y.tok = x.tok /\ y.pos = x.pos /\ y.lp = x.lp
                 /\ y.st = IF s = b THEN kProcessed ELSE Promoted(x.st)
                 /\ y.seq = IF s = b THEN q ELSE x.seq
                 /\ s > b => y.par = n + (x.par - b)
                 /\ s = b => y.par = n - 1
                 /\ y \in NodeRec(T, Q)
  <2> DEFINE i == n + (s - b)
             x == t.node[s]
             y == u.node[i]
  <2>1. i \in Slots /\ ~(i < n) /\ i < last /\ sub(i) = s /\ (i = n <=> s = b) /\ s \in Slots
    BY <1>8
  <2> HIDE DEF i
  <2>2. y = [x EXCEPT !.par = NewSlot(S, b, x.par),
                      !.st  = IF s = b THEN kProcessed ELSE Promoted(x.st),
                      !.seq = IF s = b THEN q ELSE x.seq]
    BY <1>7, <2>1
  <2>3. x \in NodeRec(T, Q)
    BY <1>10, <2>1
  <2>4. s > b => NewSlot(S, b, x.par) = n + (x.par - b) /\ n + (x.par - b) \in Slots
    <3> SUFFICES ASSUME s > b PROVE NewSlot(S, b, x.par) = n + (x.par - b) /\ n + (x.par - b) \in Slots
      OBVIOUS
    <3>1. s \in b + 1 .. e - 1
      BY <1>1
    <3>2. x.par \in b .. s - 1
      BY <3>1
    <3>3. x.par >= b /\ x.par \in b .. e - 1
      BY <1>1, <3>2
    <3>4. n + (x.par - b) \in n .. last - 1
      BY <1>8, <3>3
    <3> QED
      BY <1>8, <3>3, <3>4 DEF NewSlot, n
  <2>5. s = b => NewSlot(S, b, x.par) = n - 1 /\ n - 1 \in Slots
    BY <1>1, <1>2, <1>3 DEF Slots
  <2>6. NewSlot(S, b, x.par) \in Slots
    BY <1>1, <2>4, <2>5
  <2>7. (IF s = b THEN kProcessed ELSE Promoted(x.st)) \in Status
    <3>1. x.st \in Status
      BY <2>3 DEF NodeRec
    <3> QED
      BY <3>1 DEF Promoted, Status
  <2>8. (IF s = b THEN q ELSE x.seq) \in Q
    BY <2>3 DEF NodeRec
  <2>9. y \in NodeRec(T, Q)
    BY <2>2, <2>3, <2>6, <2>7, <2>8 DEF NodeRec
  <2>10. /\ y.tok = x.tok /\ y.pos = x.pos /\ y.lp = x.lp /\ y.par = NewSlot(S, b, x.par)
         /\ y.st = (IF s = b THEN kProcessed ELSE Promoted(x.st))
         /\ y.seq = (IF s = b THEN q ELSE x.seq)
    BY <2>2, <2>3 DEF NodeRec
  <2> HIDE DEF x, y
  <2>11. /\ y.tok = x.tok /\ y.pos = x.pos /\ y.lp = x.lp
         /\ y.st = (IF s = b THEN kProcessed ELSE Promoted(x.st))
         /\ y.seq = (IF s = b THEN q ELSE x.seq)
         /\ s > b => y.par = n + (x.par - b)
         /\ s = b => y.par = n - 1
         /\ y \in NodeRec(T, Q)
    BY <2>4, <2>5, <2>9, <2>10
  <2> QED
    BY <2>11 DEF x, y, i
<1>14. u.node \in [Slots -> NodeRec(T, Q)]
  <2>1. BlankNode \in NodeRec(T, Q)
    BY <1>1 DEF BlankNode, NodeRec, Slots, Status, kPrompt
  <2>2. ASSUME NEW i \in Slots PROVE u.node[i] \in NodeRec(T, Q)
    <3>1. CASE i \in 0 .. n - 1
      BY <1>12, <3>1
    <3>2. CASE i \in n .. last - 1
      <4>1. sub(i) \in b .. e - 1 /\ i = n + (sub(i) - b)
        BY <1>8, <3>2
      <4> QED
        BY <1>13, <4>1
    <3>3. CASE i >= last
      <4>1. ~(i < n) /\ ~(i < last)
        BY <1>1, <1>2, <3>3 DEF Slots
      <4> QED
        BY <1>7, <2>1, <4>1
    <3> QED
      BY <1>1, <1>2, <3>1, <3>2, <3>3 DEF Slots
  <2> QED
    BY <1>7, <2>2
<1>15. last \in 1 .. MaxLen /\ n + 1 \in 1 .. last /\ last \in Nat /\ n >= 1
  BY <1>1, <1>2, <1>3
\* The parents, slot by slot.
<1>16. ASSUME NEW i \in 1 .. last - 1
       PROVE  /\ u.node[i].par \in 0 .. i - 1
              /\ u.node[i].pos = u.node[u.node[i].par].pos + 1
              /\ i < n + 1 => u.node[i].par = i - 1
              /\ i >= n + 1 => u.node[i].par >= n
  <2>1. CASE i \in 0 .. n - 1
    <3>1. u.node[i].par = i - 1 /\ u.node[i].pos = i /\ i - 1 \in 0 .. n - 1 /\ i \in Int
      BY <1>2, <1>12, <1>16, <2>1
    <3>2. u.node[i - 1].pos = i - 1
      BY <1>12, <3>1
    <3> QED
      BY <1>2, <1>16, <2>1, <3>1, <3>2
  <2>2. CASE i = n
    <3>1. b \in b .. e - 1 /\ n + (b - b) = n
      BY <1>1, <1>2
    <3>2. u.node[n].par = n - 1 /\ u.node[n].pos = n
      BY <1>1, <1>13, <3>1
    <3>3. n - 1 \in 0 .. n - 1
      BY <1>2, <1>15
    <3>4. u.node[n - 1].pos = n - 1
      BY <1>12, <3>3
    <3> QED
      BY <1>2, <1>15, <2>2, <3>2, <3>3, <3>4
  <2>3. CASE i \in n + 1 .. last - 1
    <3> DEFINE s == sub(i)
               p == t.node[s].par
               j == n + (p - b)
    <3>1. i \in n .. last - 1
      BY <1>2, <2>3
    <3>2. s \in b .. e - 1 /\ i = n + (s - b) /\ s > b /\ s \in b + 1 .. e - 1
      BY <1>1, <1>2, <1>8, <2>3, <3>1
    <3>3. p \in b .. s - 1 /\ t.node[s].pos = t.node[p].pos + 1
      BY <3>2
    <3>4. u.node[i].par = j /\ u.node[i].pos = t.node[s].pos
      BY <1>13, <3>2
    <3>5. p \in b .. e - 1
      BY <3>2, <3>3
    <3>6. u.node[j].pos = t.node[p].pos
      BY <1>13, <3>5
    <3>7. j \in n .. i - 1
      BY <1>1, <1>2, <3>2, <3>3
    <3> HIDE DEF s, p, j
    <3>8. j \in 0 .. i - 1 /\ j >= n /\ ~(i < n + 1)
      BY <1>2, <2>3, <3>7
    <3> QED
      BY <3>3, <3>4, <3>6, <3>8
  <2> QED
    BY <1>2, <1>15, <1>16, <2>1, <2>2, <2>3
<1>17. /\ u.mask \in [Slots -> SUBSET Slots] /\ u.mask[0] = {0}
       /\ \A i \in 1 .. last - 1 : u.mask[i] = u.mask[u.node[i].par] \cup {i}
  <2>1. \A i \in 1 .. last - 1 : u.node[i].par \in 0 .. i - 1
    BY <1>16
  <2>2. /\ MaskFromParents(u.node, last) \in [Slots -> SUBSET Slots]
        /\ MaskFromParents(u.node, last)[0] = {0}
        /\ \A i \in 1 .. last - 1 : MaskFromParents(u.node, last)[i]
                                      = MaskFromParents(u.node, last)[u.node[i].par] \cup {i}
    <3> HIDE DEF last
    <3> QED
      BY <1>15, <2>1, MaskRows
  <2>3. u.mask = MaskFromParents(u.node, last)
    BY <1>7
  <2> HIDE DEF last
  <2> QED
    BY <2>2, <2>3
<1>18. Typed(u, T, Q)
  <2>1. n + 1 \in 1 .. MaxLen
    BY <1>1, <1>2, <1>15
  <2> QED
    BY <1>7, <1>14, <1>15, <1>17, <2>1 DEF Typed
<1>19. Shaped(u, n + 1, last)
  <2>1. u.node[0].pos = 0
    <3>1. 0 \in 0 .. n - 1
      BY <1>2, <1>15
    <3> QED
      BY <1>12, <3>1
  <2>2. (n + 1) - 1 = n
    BY <1>2
  <2>3. \A i \in 1 .. last - 1 : Hangs(u, n + 1, i)
    BY <1>16, <1>17, <2>2 DEF Hangs
  <2> QED
    BY <1>15, <1>17, <2>1, <2>3 DEF Shaped
<1>20. \A i \in 0 .. t.prefix - 1 : u.node[i].tok = t.node[i].tok
  <2>1. \A i \in 0 .. t.prefix - 1 : i \in 0 .. n - 1
    BY <1>1, <1>2, <1>3
  <2> QED
    BY <1>6, <1>12, <2>1
<1>21. n \in t.prefix .. t.end
  BY <1>1, <1>2, <1>3
<1>22. Spliced(t, S, b, e, q, u)
  <2>1. \A i \in 0 .. n - 1 :
          /\ u.node[i].tok = t.node[Nth(S, i)].tok /\ u.node[i].pos = i
          /\ u.node[i].seq = q /\ u.node[i].st = kPrompt
    BY <1>12
  <2> QED
    BY <1>7, <1>13, <1>20, <1>21, <2>1 DEF Spliced, n
<1> QED
  BY <1>18, <1>19, <1>22 DEF u, n

-----------------------------------------------------------------------------
(***************************************************************************)
(* The round.                                                              *)
(***************************************************************************)

\* The first slot past everything the tree still needs: the round's nodes, and
\* the subtree of a bet behind them.
Extent == IF bet.st = "placed" THEN bet.stop ELSE tree.end

\* Which phases of the main thread go with which state of the call and the bet.
Phases ==
  /\ pc \in {"grow", "validate", "bet", "join", "done", "fatal"}
  /\ rpc.st \in {"idle", "sent", "answered", "failed"}
  /\ bet.st \in {"none", "drafting", "placed"}
  /\ pc \in {"grow", "validate", "done"} => rpc.st = "idle" /\ bet.st = "none"
  /\ pc \in {"bet", "join"} => rpc.st # "idle"
  /\ bet.st = "drafting" => pc = "bet"
  /\ bet.st = "placed" => pc \in {"join", "fatal"}

Records ==
  /\ rpc = [st |-> rpc.st, inputs |-> rpc.inputs, req |-> rpc.req, ctx |-> rpc.ctx, sel |-> rpc.sel]
  /\ rpc.inputs \subseteq Slots
  /\ bet \in [st : {"none", "drafting", "placed"}, leaf : Int, tok : Tok \cup {0}, prefix : Int,
              end : Int, begin : Int, stop : Int, seqs : SUBSET Seqs]
  /\ gen \in [orig : 1 .. MaxLen, first : BOOLEAN, warm : Nat, eog : BOOLEAN]

TreeTyped(t) == Typed(t, Tok \cup {0}, Seqs)

\* Siblings spell different tokens, and a node with children has been decoded.
Apart(t, c, e) ==
  /\ \A i, j \in c .. e - 1 : i # j /\ t.node[i].par = t.node[j].par => t.node[i].tok # t.node[j].tok
  /\ \A i \in c .. e - 1 : t.node[t.node[i].par].st \notin {kCandidate, kPostCandidate}

\* A tree of c committed slots, the round's nodes up to r and a bet's subtree up
\* to e.  It is one tree over the committed chain, with real tokens throughout;
\* a child scores below its parent, but for the root of a bet, which starts
\* over; statuses tell the three parts apart; the subtree hangs together; no two
\* nodes stand for the same continuation.
Grown(t, c, r, e) ==
  /\ TreeTyped(t)
  /\ Shaped(t, c, e)
  /\ r \in c .. e
  /\ \A i \in 0 .. e - 1 : t.node[i].tok \in Tok
  /\ \A i \in c .. e - 1 : i # r /\ t.node[i].par >= c => t.node[i].lp < t.node[t.node[i].par].lp
  /\ \A i \in 0 .. c - 2 : t.node[i].st = kPrompt
  /\ \A i \in c - 1 .. r - 1 : t.node[i].st \in {kCandidate, kProcessed}
  /\ \A i \in r .. e - 1 : t.node[i].st \in {kPostCandidate, kPostProcessed}
  /\ \A i \in r + 1 .. e - 1 : t.node[i].par >= r
  /\ Apart(t, c, e)

Trees == Grown(tree, CommittedLen, RoundEnd, Extent)

\* A bet's subtree starts where the round's nodes end; its root hangs from the
\* leaf that was bet on.
Bets ==
  /\ Drafting => tree.prefix = bet.end /\ bet.end < tree.end /\ level < ProLen
  /\ bet.st = "placed" => bet.begin = tree.end /\ bet.begin + 1 < bet.stop
  /\ bet.st # "none" => /\ bet.leaf \in CommittedLen .. RoundEnd - 1
                        /\ tree.node[RoundEnd].par = bet.leaf
                        /\ tree.node[RoundEnd].tok = bet.tok

\* The request, and the tree it is about to be built from, keep to the budget.
Request ==
  /\ pc = "validate" => tree.end - tree.prefix <= Budget
  /\ rpc.st # "idle" => CommittedLen < RoundEnd /\ RoundEnd - CommittedLen <= Budget
  /\ RequestStillDescribesTree
  /\ rpc.st = "answered" => rpc.sel \in [rpc.inputs -> Tok]

\* What Generate has seen of the output.
Generated ==
  /\ gen.first => gen.orig = CommittedLen
  /\ ~gen.first /\ pc \in {"grow", "validate", "bet", "join"} =>
       \A i \in gen.orig + gen.warm .. CommittedLen - 1 : tree.node[i].tok \notin Eog

Cells      == (0 .. MaxLen) \X Tok
KvTyped(c) == c \in [Seqs \cup {CommittedSeq} -> SUBSET Cells]

Rest ==
  /\ KvTyped(kv)
  /\ pool \in Pool
  /\ level \in 0 .. BeamLen + ProLen
  /\ prevHit \in BOOLEAN
  /\ srv \in [Slots -> Tok \cup {0}]
  /\ cause \in {"none", "decode", "seqs", "max_len", "no_targets", "splice", "rpc"}

IInv ==
  Phases /\ Records /\ Trees /\ Bets /\ Request /\ Generated /\ Rest
-----------------------------------------------------------------------------
(* The beams and their children *)

\* The fields of one slot.
LEMMA NodeFields ==
  ASSUME NEW t, TreeTyped(t), NEW s \in Slots
  PROVE  /\ t.node[s] \in NodeRec(Tok \cup {0}, Seqs)
         /\ t.node[s].lp \in Int /\ t.node[s].seq \in Seqs /\ t.node[s].par \in Slots
         /\ t.node[s].pos \in 0 .. MaxLen /\ t.node[s].st \in Status /\ t.node[s].tok \in Tok \cup {0}
         /\ t.mask[s] \subseteq Slots
<1>1. t.node \in [Slots -> NodeRec(Tok \cup {0}, Seqs)] /\ t.mask \in [Slots -> SUBSET Slots]
  BY DEF TreeTyped, Typed
<1> QED
  BY <1>1 DEF NodeRec

\* Any set of slots is a finite set of numbers.
LEMMA SlotSets ==
  ASSUME NEW S, S \subseteq Slots
  PROVE  IsFiniteSet(S) /\ S \subseteq Int /\ S \subseteq Nat /\ Cardinality(S) \in Nat
<1>1. IsFiniteSet(Slots)
  BY MaxLenAssumption, FirstNumbers DEF Slots
<1>2. IsFiniteSet(S)
  BY <1>1, FS_Subset
<1> QED
  BY <1>2, MaxLenAssumption, FS_CardinalityType DEF Slots

\* The stable sort by score: as many beams as asked for, if there are that many.
LEMMA TopBeamsSize ==
  ASSUME NEW t, TreeTyped(t), NEW S, S \subseteq Slots, NEW n \in Nat
  PROVE  /\ TopBeams(t, S, n) \subseteq S
         /\ n <= Cardinality(S) => Cardinality(TopBeams(t, S, n)) = n
<1>1. IsFiniteSet(S) /\ S \subseteq Int /\ Cardinality(S) \in Nat
  BY SlotSets
<1>2. TopBeams(t, S, n) \subseteq S
  BY DEF TopBeams
<1>3. ASSUME n <= Cardinality(S) PROVE Cardinality(TopBeams(t, S, n)) = n
  <2> DEFINE R == {ji \in S \X S : Ahead(t, ji[1], ji[2])}
  <2>1. \A i, j \in S : <<j, i>> \in R <=> Ahead(t, j, i)
    OBVIOUS
  <2>2. \A i \in S : t.node[i].lp \in Int /\ i \in Int
    BY <1>1, NodeFields
  <2> HIDE DEF R
  <2>3. \A i \in S : <<i, i>> \notin R
    BY <2>1, <2>2 DEF Ahead
  <2>4. \A i, j, k \in S : <<i, j>> \in R /\ <<j, k>> \in R => <<i, k>> \in R
    BY <2>1, <2>2 DEF Ahead
  <2>5. \A i, j \in S : i # j => <<i, j>> \in R \/ <<j, i>> \in R
    BY <2>1, <2>2 DEF Ahead
  <2>6. n \in 0 .. Cardinality(S)
    BY <1>1, <1>3
  <2>7. Cardinality(Leading(S, R, n)) = n
    BY <1>1, <2>3, <2>4, <2>5, <2>6, CountAhead
  <2>8. \A i \in S : {j \in S : <<j, i>> \in R} = {j \in S : Ahead(t, j, i)}
    BY <2>1
  <2>9. TopBeams(t, S, n) = Leading(S, R, n)
    BY <2>8 DEF TopBeams, Leading
  <2> QED
    BY <2>7, <2>9
<1> QED
  BY <1>2, <1>3

\* A trim by score keeps the parents of what it keeps, because they score higher.
LEMMA TopBeamsClosed ==
  ASSUME NEW t, TreeTyped(t), NEW S, S \subseteq Slots, NEW n \in Nat,
         NEW i \in TopBeams(t, S, n), NEW p \in S, t.node[i].lp < t.node[p].lp
  PROVE  p \in TopBeams(t, S, n)
<1> DEFINE A(x) == {j \in S : Ahead(t, j, x)}
<1>1. i \in S /\ Cardinality(A(i)) < n
  BY DEF TopBeams
<1>2. IsFiniteSet(S) /\ S \subseteq Int
  BY SlotSets
<1>3. \A j \in S : t.node[j].lp \in Int /\ j \in Int
  BY <1>2, NodeFields
<1>4. A(p) \in SUBSET A(i)
  BY <1>1, <1>3 DEF Ahead
<1>5. IsFiniteSet(A(i)) /\ IsFiniteSet(A(p))
  BY <1>2, FS_Subset
<1> HIDE DEF A
<1>6. Cardinality(A(p)) <= Cardinality(A(i)) /\ Cardinality(A(p)) \in Nat /\ Cardinality(A(i)) \in Nat
  BY <1>4, <1>5, FS_Subset, FS_CardinalityType
<1>7. Cardinality(A(p)) < n
  BY <1>1, <1>6
<1> QED
  BY <1>7 DEF TopBeams, A

\* A flat child number is a row and an entry in it.
LEMMA FlatRow ==
  ASSUME NEW C, C \subseteq Slots, NEW w \in Nat \ {0}, NEW f \in Flats(C, w)
  PROVE  f \div w \in 0 .. Cardinality(C) - 1 /\ f % w \in 0 .. w - 1 /\ f \in Nat
<1> DEFINE N == Cardinality(C)
           d == f \div w
<1>1. IsFiniteSet(C) /\ C \subseteq Int /\ N \in Nat
  BY SlotSets
<1>2. N * w \in Nat
  BY <1>1
<1>3. f \in Nat /\ f < N * w
  BY <1>2 DEF Flats
<1>4. d \in Nat /\ f % w \in 0 .. w - 1 /\ f = w * d + (f % w)
  BY <1>3
<1> HIDE DEF N, d
<1>5. w * d < N * w
  <2>1. w * d \in Nat
    BY <1>4
  <2> QED
    BY <1>2, <1>3, <1>4, <2>1
<1>6. d < N
  <2> SUFFICES ASSUME d >= N PROVE FALSE
    BY <1>1, <1>4
  <2>1. w * d >= w * N
    BY <1>1, <1>4
  <2>2. w * N = N * w /\ w * d \in Nat
    BY <1>1, <1>4
  <2> QED
    BY <1>2, <1>5, <2>1, <2>2
<1>7. d \in 0 .. N - 1
  BY <1>1, <1>4, <1>6
<1> QED
  BY <1>3, <1>4, <1>7 DEF N, d

\* Flat child numbers fall on a beam each.
LEMMA FlatBeam ==
  ASSUME NEW C, C \subseteq Slots, NEW w \in Nat \ {0}, NEW f \in Flats(C, w)
  PROVE  BeamOf(C, w, f) \in C /\ f % w \in 0 .. w - 1 /\ f \in Nat
<1>1. IsFiniteSet(C) /\ C \subseteq Int
  BY SlotSets
<1>2. f \div w \in 0 .. Cardinality(C) - 1 /\ f % w \in 0 .. w - 1 /\ f \in Nat
  BY FlatRow
<1>3. Nth(C, f \div w) \in C
  BY <1>1, <1>2, NthWorks
<1> QED
  BY <1>2, <1>3 DEF BeamOf

\* So is any set of candidates of a level.
LEMMA FlatSets ==
  ASSUME NEW C, C \subseteq Slots, NEW w \in Nat \ {0}, NEW keep, keep \subseteq Flats(C, w)
  PROVE  IsFiniteSet(keep) /\ keep \subseteq Int /\ Cardinality(keep) \in Nat
<1>1. Cardinality(C) \in Nat
  BY SlotSets
<1>2. Cardinality(C) * w \in Nat
  BY <1>1
<1>3. IsFiniteSet(Flats(C, w)) /\ Flats(C, w) \subseteq Int
  <2> DEFINE N == Cardinality(C) * w
  <2> HIDE DEF N
  <2>1. IsFiniteSet(0 .. N - 1) /\ 0 .. N - 1 \subseteq Int
    BY <1>2, FirstNumbers DEF N
  <2> QED
    BY <2>1 DEF Flats, N
<1>4. IsFiniteSet(keep)
  BY <1>3, FS_Subset
<1> QED
  BY <1>3, <1>4, FS_CardinalityType

\* A child's token is one the draft model proposes, and it scores below its beam.
LEMMA FlatFacts ==
  ASSUME NEW t, TreeTyped(t), NEW C, C \subseteq Slots, NEW w \in 1 .. Width,
         NEW top \in [C -> TopKRows], NEW f \in Flats(C, w)
  PROVE  /\ FlatTok(C, w, top, f) \in Tok
         /\ FlatScore(t, C, w, top, f) \in Int
         /\ FlatScore(t, C, w, top, f) < t.node[BeamOf(C, w, f)].lp
<1> DEFINE p == BeamOf(C, w, f)
           k == 1 + (f % w)
<1>1. w \in Nat \ {0} /\ Width \in Nat /\ w <= Width
  BY BeamAssumption
<1>2. p \in C /\ f % w \in 0 .. w - 1
  BY <1>1, FlatBeam
<1>3. k \in 1 .. Width
  BY <1>1, <1>2
<1>4. top[p] \in [1 .. Width -> [tok : DraftTok, cost : Costs]]
  BY <1>2 DEF TopKRows
<1> HIDE DEF p, k
<1>5. top[p][k].tok \in DraftTok /\ top[p][k].cost \in Costs
  BY <1>3, <1>4
<1>6. top[p][k].tok \in Tok /\ top[p][k].cost \in Nat \ {0}
  BY <1>5, BeamAssumption
<1>7. t.node[p].lp \in Int
  BY <1>2, NodeFields
<1>8. /\ FlatTok(C, w, top, f) = top[p][k].tok
      /\ FlatScore(t, C, w, top, f) = t.node[p].lp - top[p][k].cost
  BY DEF FlatTok, FlatScore, p, k
<1> QED
  BY <1>6, <1>7, <1>8 DEF p

\* Cut to the room the tree has left, the children fit it.
LEMMA BestFlatsSize ==
  ASSUME NEW t, TreeTyped(t), NEW C, C \subseteq Slots, NEW w \in 1 .. Width,
         NEW top \in [C -> TopKRows], NEW keep, keep \subseteq Flats(C, w),
         NEW n \in 0 .. Cardinality(keep)
  PROVE  /\ BestFlats(t, C, w, top, keep, n) \subseteq keep
         /\ Cardinality(BestFlats(t, C, w, top, keep, n)) = n
<1> DEFINE sc(f) == FlatScore(t, C, w, top, f)
           Before(g, f) == sc(g) > sc(f) \/ (sc(g) = sc(f) /\ g < f)
           R == {gf \in keep \X keep : Before(gf[1], gf[2])}
<1>0. w \in Nat \ {0}
  BY BeamAssumption
<1>1. IsFiniteSet(keep) /\ keep \subseteq Int /\ Cardinality(keep) \in Nat
  BY <1>0, FlatSets
<1>2. \A f \in keep : sc(f) \in Int /\ f \in Int
  BY <1>1, FlatFacts
<1>3. \A f, g \in keep : <<g, f>> \in R <=> Before(g, f)
  OBVIOUS
<1>4. BestFlats(t, C, w, top, keep, n) = {f \in keep : Cardinality({g \in keep : Before(g, f)}) < n}
  BY DEF BestFlats
<1> HIDE DEF R, sc
<1>5. \A i \in keep : <<i, i>> \notin R
  BY <1>2, <1>3
<1>6. \A i, j, k \in keep : <<i, j>> \in R /\ <<j, k>> \in R => <<i, k>> \in R
  BY <1>2, <1>3
<1>7. \A i, j \in keep : i # j => <<i, j>> \in R \/ <<j, i>> \in R
  BY <1>2, <1>3
<1>8. Cardinality(Leading(keep, R, n)) = n
  BY <1>1, <1>5, <1>6, <1>7, CountAhead
<1>9. \A f \in keep : {g \in keep : <<g, f>> \in R} = {g \in keep : Before(g, f)}
  BY <1>3
<1> HIDE DEF Before
<1>10. BestFlats(t, C, w, top, keep, n) = Leading(keep, R, n)
  BY <1>4, <1>9 DEF Leading
<1> QED
  BY <1>8, <1>10 DEF Leading

\* AllocSeq, as long as sequences are left, hands out free ones.
LEMMA AllocFree ==
  ASSUME NEW po \in Pool, NEW k \in Nat, k < Cardinality(FreeSeqs(po))
  PROVE  AllocNth(po, k) \in FreeSeqs(po)
<1> DEFINE free == FreeSeqs(po)
           ahead == {s \in free : s >= po.cursor}
           rest == free \ ahead
<1>1. MaxSeqs \in Nat /\ Seqs \subseteq Int /\ IsFiniteSet(Seqs) /\ free \subseteq Seqs
  <2>1. MaxSeqs \in Nat
    BY SeqsAssumption
  <2>2. IsFiniteSet(0 .. MaxSeqs - 1)
    BY <2>1, FirstNumbers
  <2> QED
    BY <2>1, <2>2 DEF Seqs, FreeSeqs
<1>2. /\ IsFiniteSet(free) /\ IsFiniteSet(ahead) /\ IsFiniteSet(rest)
      /\ ahead \subseteq Int /\ rest \subseteq Int
  BY <1>1, FS_Subset
<1>3. Cardinality(ahead) \in Nat /\ Cardinality(rest) \in Nat
  BY <1>2, FS_CardinalityType
<1>4. Cardinality(free) = Cardinality(ahead) + Cardinality(rest)
  <2>1. ahead \cap rest = {} /\ ahead \cup rest = free
    OBVIOUS
  <2>2. Cardinality(ahead \cup rest) = Cardinality(ahead) + Cardinality(rest) - Cardinality(ahead \cap rest)
    BY <1>2, FS_Union
  <2>3. Cardinality({}) = 0
    BY FS_EmptySet
  <2>4. Cardinality(ahead \cap rest) = 0 /\ Cardinality(ahead \cup rest) = Cardinality(free)
    BY <2>1, <2>3
  <2> HIDE DEF ahead, rest, free
  <2> QED
    BY <1>3, <2>2, <2>4
<1>5. AllocNth(po, k) = IF k < Cardinality(ahead) THEN Nth(ahead, k) ELSE Nth(rest, k - Cardinality(ahead))
  BY DEF AllocNth
<1>6. ahead \subseteq free /\ rest \subseteq free
  OBVIOUS
<1> HIDE DEF ahead, rest
<1>7. CASE k < Cardinality(ahead)
  <2>1. k \in 0 .. Cardinality(ahead) - 1
    BY <1>3, <1>7
  <2>2. Nth(ahead, k) \in ahead
    BY <1>2, <2>1, NthWorks
  <2> QED
    BY <1>5, <1>6, <1>7, <2>2
<1>8. CASE ~(k < Cardinality(ahead))
  <2>1. k - Cardinality(ahead) \in 0 .. Cardinality(rest) - 1
    BY <1>3, <1>4, <1>8
  <2>2. Nth(rest, k - Cardinality(ahead)) \in rest
    BY <1>2, <2>1, NthWorks
  <2> QED
    BY <1>5, <1>6, <1>8, <2>2
<1> QED
  BY <1>7, <1>8

\* The free sequences are a finite set of ids.
LEMMA FreeSize ==
  ASSUME NEW po
  PROVE  /\ FreeSeqs(po) \subseteq Seqs /\ IsFiniteSet(FreeSeqs(po))
         /\ Cardinality(FreeSeqs(po)) \in Nat
<1>1. MaxSeqs \in Nat
  BY SeqsAssumption
<1>2. IsFiniteSet(0 .. MaxSeqs - 1)
  BY <1>1, FirstNumbers
<1>3. FreeSeqs(po) \subseteq Seqs /\ IsFiniteSet(Seqs)
  BY <1>2 DEF FreeSeqs, Seqs
<1> QED
  BY <1>3, FS_Subset, FS_CardinalityType

\* The pool is a pool again after handing out sequences.
LEMMA AllocTyped ==
  ASSUME NEW po \in Pool, NEW n \in Nat, n <= Cardinality(FreeSeqs(po))
  PROVE  AfterAlloc(po, n) \in Pool
<1>1. FreeSeqs(po) \subseteq Seqs /\ Cardinality(FreeSeqs(po)) \in Nat
  BY FreeSize
<1>2. CASE n = 0
  BY <1>2 DEF AfterAlloc
<1>3. CASE n # 0
  <2>1. \A k \in 0 .. n - 1 : AllocNth(po, k) \in Seqs
    <3>1. \A k \in 0 .. n - 1 : k \in Nat /\ k < Cardinality(FreeSeqs(po))
      BY <1>1
    <3> QED
      BY <1>1, <3>1, AllocFree
  <2>2. AllocNth(po, n - 1) \in Seqs
    BY <1>3, <2>1
  <2>3. (AllocNth(po, n - 1) + 1) % MaxSeqs \in Seqs
    <3>1. MaxSeqs \in Nat \ {0}
      BY SeqsAssumption
    <3>2. AllocNth(po, n - 1) + 1 \in Nat
      BY <2>2, <3>1 DEF Seqs
    <3> QED
      BY <3>1, <3>2 DEF Seqs
  <2>4. po.used \in SUBSET Seqs
    BY DEF Pool
  <2> QED
    BY <1>3, <2>1, <2>3, <2>4 DEF AfterAlloc, Pool
<1> QED
  BY <1>2, <1>3

\* The children that are added: below a beam each, one further and scoring less.
Bred(t, C, status, kids) ==
  \A k \in 1 .. Len(kids) :
    /\ kids[k].par \in C
    /\ kids[k].pos = t.node[kids[k].par].pos + 1
    /\ kids[k].lp < t.node[kids[k].par].lp
    /\ kids[k].st = status
    /\ kids[k].tok \in Tok

\* No two of them continue the same beam with the same token.
Siblings(kids) ==
  \A k, l \in 1 .. Len(kids) : k # l /\ kids[k].par = kids[l].par => kids[k].tok # kids[l].tok

\* Two children of one beam are two entries of one row of the draft model's
\* answer, which names a token once.
LEMMA FlatsDiffer ==
  ASSUME NEW C, C \subseteq Slots, NEW w \in 1 .. Width, NEW top \in [C -> TopKRows],
         NEW f \in Flats(C, w), NEW g \in Flats(C, w), f # g, BeamOf(C, w, f) = BeamOf(C, w, g)
  PROVE  FlatTok(C, w, top, f) # FlatTok(C, w, top, g)
<1> DEFINE p == BeamOf(C, w, f)
           i == 1 + (f % w)
           j == 1 + (g % w)
<1>1. w \in Nat \ {0} /\ Width \in Nat /\ w <= Width
  BY BeamAssumption
<1>2. /\ p \in C /\ f % w \in 0 .. w - 1 /\ f \in Nat
      /\ BeamOf(C, w, g) \in C /\ g % w \in 0 .. w - 1 /\ g \in Nat
  BY <1>1, FlatBeam
<1>3. f \div w = g \div w
  <2>1. IsFiniteSet(C) /\ C \subseteq Int /\ Cardinality(C) \in Nat
    BY SlotSets
  <2>2. f \div w \in 0 .. Cardinality(C) - 1 /\ g \div w \in 0 .. Cardinality(C) - 1
    BY <1>1, FlatRow
  <2>3. Nth(C, f \div w) = Nth(C, g \div w)
    BY DEF BeamOf
  <2>4. \A k \in 0 .. Cardinality(C) - 1 : Rank(C, Nth(C, k)) = k
    BY <2>1, NthWorks
  <2> QED
    BY <2>2, <2>3, <2>4
<1>4. f % w # g % w
  <2>1. f = w * (f \div w) + (f % w) /\ g = w * (g \div w) + (g % w)
    BY <1>1, <1>2
  <2> QED
    BY <1>3, <2>1
<1>5. i \in 1 .. Width /\ j \in 1 .. Width /\ i # j
  BY <1>1, <1>2, <1>4
<1>6. top[p] \in [1 .. Width -> [tok : DraftTok, cost : Costs]]
      /\ \A a, b \in 1 .. Width : a < b => \/ top[p][a].cost < top[p][b].cost /\ top[p][a].tok # top[p][b].tok
                                           \/ top[p][a].cost = top[p][b].cost /\ top[p][a].tok < top[p][b].tok
  BY <1>2 DEF TopKRows
<1>7. FlatTok(C, w, top, f) = top[p][i].tok /\ FlatTok(C, w, top, g) = top[p][j].tok
  BY DEF FlatTok
<1> HIDE DEF p, i, j
<1>8. top[p][i].tok \in Nat /\ top[p][j].tok \in Nat
  BY <1>5, <1>6, BeamAssumption
<1>9. i < j \/ j < i
  BY <1>1, <1>5
<1>10. top[p][i].tok # top[p][j].tok
  BY <1>5, <1>6, <1>8, <1>9
<1> QED
  BY <1>7, <1>10

\* The nodes a level adds: one per kept candidate, each one position behind its beam
\* and below it in score, siblings with different tokens.
LEMMA ChildrenFacts ==
  ASSUME NEW t, TreeTyped(t), NEW C, C \subseteq Slots, \A c \in C : t.node[c].pos < MaxLen,
         NEW w \in 1 .. Width, NEW top \in [C -> TopKRows], NEW keep, keep \subseteq Flats(C, w),
         NEW po \in Pool, Cardinality(Forks(C, w, keep)) <= Cardinality(FreeSeqs(po)),
         NEW status \in Status
  PROVE  LET kids == Children(t, po, C, w, top, keep, status)
         IN /\ kids \in Seq(NodeRec(Tok \cup {0}, Seqs))
            /\ Len(kids) = Cardinality(keep)
            /\ Bred(t, C, status, kids) /\ Siblings(kids)
<1> DEFINE N == Cardinality(keep)
           F == Forks(C, w, keep)
           kids == Children(t, po, C, w, top, keep, status)
           beam(k) == BeamOf(C, w, Nth(keep, k - 1))
<1>0. w \in Nat \ {0} /\ MaxLen \in Nat
  BY BeamAssumption, MaxLenAssumption
<1>1. IsFiniteSet(keep) /\ keep \subseteq Int /\ N \in Nat
  BY <1>0, FlatSets
<1>2. kids = [k \in 1 .. N |->
                [tok |-> FlatTok(C, w, top, Nth(keep, k - 1)),
                 pos |-> t.node[beam(k)].pos + 1,
                 par |-> beam(k),
                 st  |-> status,
                 lp  |-> FlatScore(t, C, w, top, Nth(keep, k - 1)),
                 seq |-> ChildSeq(t, po, C, w, keep, Nth(keep, k - 1))]]
  BY DEF Children
<1> HIDE DEF kids, N
<1>3. ASSUME NEW f \in keep PROVE ChildSeq(t, po, C, w, keep, f) \in Seqs
  <2>1. CASE f \in F
    <3>1. F \subseteq keep
      BY DEF Forks
    <3>2. IsFiniteSet(F) /\ F \subseteq Int /\ Cardinality(F) \in Nat
      BY <1>1, <3>1, FS_Subset, FS_CardinalityType
    <3>3. Rank(F, f) \in 0 .. Cardinality(F) - 1
      BY <1>1, <2>1, <3>2, RankRange
    <3>4. Cardinality(FreeSeqs(po)) \in Nat /\ FreeSeqs(po) \subseteq Seqs
      BY FreeSize
    <3>5. Rank(F, f) \in Nat /\ Rank(F, f) < Cardinality(FreeSeqs(po))
      BY <3>2, <3>3, <3>4
    <3>6. AllocNth(po, Rank(F, f)) \in Seqs
      BY <3>4, <3>5, AllocFree
    <3> QED
      BY <2>1, <3>6 DEF ChildSeq
  <2>2. CASE f \notin F
    <3>1. BeamOf(C, w, f) \in Slots
      BY <1>0, FlatBeam
    <3> QED
      BY <2>2, <3>1, NodeFields DEF ChildSeq
  <2> QED
    BY <2>1, <2>2
<1>4. ASSUME NEW k \in 1 .. N
      PROVE  /\ kids[k] \in NodeRec(Tok \cup {0}, Seqs)
             /\ kids[k].par \in C
             /\ kids[k].pos = t.node[kids[k].par].pos + 1
             /\ kids[k].lp < t.node[kids[k].par].lp
             /\ kids[k].st = status
             /\ kids[k].tok \in Tok
  <2> DEFINE f == Nth(keep, k - 1)
             p == BeamOf(C, w, f)
  <2>1. f \in keep
    <3>1. k - 1 \in 0 .. N - 1
      BY <1>1
    <3> QED
      BY <1>1, <3>1, NthWorks DEF N
  <2>2. f \in Flats(C, w)
    BY <2>1
  <2> HIDE DEF f
  <2>3. p \in C
    BY <1>0, <2>2, FlatBeam
  <2> HIDE DEF p
  <2>4. p \in Slots /\ t.node[p].pos \in 0 .. MaxLen /\ t.node[p].pos < MaxLen
    BY <2>3, NodeFields
  <2>5. t.node[p].pos + 1 \in 0 .. MaxLen
    BY <1>0, <2>4
  <2>6. /\ FlatTok(C, w, top, f) \in Tok /\ FlatScore(t, C, w, top, f) \in Int
        /\ FlatScore(t, C, w, top, f) < t.node[p].lp
    BY <2>2, FlatFacts DEF p
  <2>7. ChildSeq(t, po, C, w, keep, f) \in Seqs
    BY <1>3, <2>1
  <2>8. kids[k] = [tok |-> FlatTok(C, w, top, f), pos |-> t.node[p].pos + 1, par |-> p, st |-> status,
                   lp |-> FlatScore(t, C, w, top, f), seq |-> ChildSeq(t, po, C, w, keep, f)]
    BY <1>2 DEF f, p
  <2> QED
    BY <2>3, <2>4, <2>5, <2>6, <2>7, <2>8 DEF NodeRec
<1>5. kids \in [1 .. N -> NodeRec(Tok \cup {0}, Seqs)]
  BY <1>2, <1>4
<1>6. kids \in Seq(NodeRec(Tok \cup {0}, Seqs)) /\ Len(kids) = N
  <2> DEFINE X == NodeRec(Tok \cup {0}, Seqs)
  <2>1. kids \in [1 .. N -> X]
    BY <1>5
  <2> HIDE DEF X
  <2>2. kids \in Seq(X)
    BY <1>1, <2>1
  <2>3. Len(kids) = N
    BY <1>1, <2>1, <2>2, DOMAIN kids = 1 .. Len(kids)
  <2> QED
    BY <2>2, <2>3 DEF X
<1>7. Bred(t, C, status, kids)
  BY <1>4, <1>6 DEF Bred
<1>8. Siblings(kids)
  <2> SUFFICES ASSUME NEW k \in 1 .. N, NEW l \in 1 .. N, k # l, kids[k].par = kids[l].par
               PROVE  kids[k].tok # kids[l].tok
    BY <1>6 DEF Siblings
  <2> DEFINE f == Nth(keep, k - 1)
             g == Nth(keep, l - 1)
  <2>1. k - 1 \in 0 .. N - 1 /\ l - 1 \in 0 .. N - 1 /\ k - 1 # l - 1
    BY <1>1
  <2>2. \A a \in 0 .. N - 1 : Nth(keep, a) \in keep /\ Rank(keep, Nth(keep, a)) = a
    BY <1>1, NthWorks DEF N
  <2>3. f \in Flats(C, w) /\ g \in Flats(C, w) /\ f # g
    BY <2>1, <2>2
  <2>4. /\ kids[k].par = BeamOf(C, w, f) /\ kids[l].par = BeamOf(C, w, g)
        /\ kids[k].tok = FlatTok(C, w, top, f) /\ kids[l].tok = FlatTok(C, w, top, g)
    BY <1>2
  <2> HIDE DEF f, g
  <2> QED
    BY <2>3, <2>4, FlatsDiffer
<1> QED
  BY <1>6, <1>7, <1>8 DEF kids, N

-----------------------------------------------------------------------------
(* The cache *)

\* Decoding a batch of rows leaves a cache.
LEMMA DecodeTyped ==
  ASSUME NEW c, KvTyped(c), NEW rows, \A s \in DOMAIN rows : rows[s] \in Cells
  PROVE  KvTyped(Decode(c, rows))
BY DEF KvTyped, Decode

\* Copying a sequence leaves a cache.
LEMMA CopyTyped ==
  ASSUME NEW c, KvTyped(c), NEW src \in Seqs \cup {CommittedSeq}, NEW dst \in Seqs \cup {CommittedSeq}
  PROVE  KvTyped(SeqCp(c, src, dst))
BY DEF KvTyped, SeqCp

\* Decoding a path of tokens into one sequence leaves a cache.
LEMMA PathTyped ==
  ASSUME NEW c, KvTyped(c), NEW s \in Seqs \cup {CommittedSeq},
         NEW path, \A k \in DOMAIN path : path[k] \in Cells
  PROVE  KvTyped(DecodePath(c, s, path)) /\ CellsOf(path) \subseteq Cells
<1>1. CellsOf(path) \subseteq Cells
  BY DEF CellsOf
<1> QED
  BY <1>1 DEF KvTyped, DecodePath

\* The rows a level decodes are cells.
LEMMA RowsTyped ==
  ASSUME NEW t, TreeTyped(t), NEW C, C \subseteq Slots, \A c \in C : t.node[c].tok \in Tok
  PROVE  \A s \in DOMAIN RowsOf(t, C) : RowsOf(t, C)[s] \in Cells
<1> SUFFICES ASSUME NEW s \in {t.node[c].seq : c \in C} PROVE RowsOf(t, C)[s] \in Cells
  BY DEF RowsOf
<1> DEFINE d == CHOOSE d \in C : t.node[d].seq = s
<1>1. d \in C
  <2>1. \E c \in C : t.node[c].seq = s
    OBVIOUS
  <2> QED
    BY <2>1
<1>2. RowsOf(t, C)[s] = <<t.node[d].pos, t.node[d].tok>>
  BY DEF RowsOf, Cell
<1> HIDE DEF d
<1>3. t.node[d].pos \in 0 .. MaxLen
  BY <1>1, NodeFields
<1> QED
  BY <1>1, <1>2, <1>3 DEF Cells

\* Forking sequences for the kept children leaves a cache.
LEMMA ForkTyped ==
  ASSUME NEW c, KvTyped(c), NEW t, TreeTyped(t), NEW po, NEW C, C \subseteq Slots,
         NEW w \in 1 .. Width, NEW keep, keep \subseteq Flats(C, w)
  PROVE  KvTyped(ForkCache(c, t, po, C, w, keep))
<1> DEFINE F == Forks(C, w, keep)
           fresh(f) == AllocNth(po, Rank(F, f))
           parent(s) == t.node[BeamOf(C, w, CHOOSE f \in F : fresh(f) = s)].seq
<1>0. w \in Nat \ {0}
  BY BeamAssumption
<1>1. ASSUME NEW s \in {fresh(f) : f \in F} PROVE parent(s) \in Seqs
  <2> DEFINE g == CHOOSE f \in F : fresh(f) = s
  <2>1. g \in F
    <3>1. \E f \in F : fresh(f) = s
      OBVIOUS
    <3> HIDE DEF F, fresh
    <3> QED
      BY <3>1
  <2>2. g \in Flats(C, w)
    BY <2>1 DEF Forks
  <2> HIDE DEF g
  <2>3. BeamOf(C, w, g) \in Slots
    BY <1>0, <2>2, FlatBeam
  <2>4. t.node[BeamOf(C, w, g)].seq \in Seqs
    BY <2>3, NodeFields
  <2> QED
    BY <2>4 DEF g
<1>2. ForkCache(c, t, po, C, w, keep)
        = [s \in DOMAIN c |-> IF s \in {fresh(f) : f \in F} THEN c[s] \cup c[parent(s)] ELSE c[s]]
  BY DEF ForkCache
<1> HIDE DEF F, fresh, parent
<1>3. DOMAIN c = Seqs \cup {CommittedSeq} /\ \A s \in Seqs \cup {CommittedSeq} : c[s] \subseteq Cells
  BY DEF KvTyped
<1>4. \A s \in {fresh(f) : f \in F} : c[parent(s)] \subseteq Cells
  BY <1>1, <1>3
<1> QED
  BY <1>2, <1>3, <1>4 DEF KvTyped

-----------------------------------------------------------------------------
(* What a step of drafting does to a grown tree *)

\* What a row of the request was built from.
SameRows(t, u, r) ==
  \A i \in 0 .. r - 1 : /\ u.node[i].tok = t.node[i].tok
                        /\ u.node[i].pos = t.node[i].pos
                        /\ u.node[i].par = t.node[i].par
                        /\ u.mask[i] = t.mask[i]

\* The marks of a grown tree are numbers in order, and so are its positions and parents.
LEMMA GrownNumbers ==
  ASSUME NEW t, NEW c, NEW r, NEW e, Grown(t, c, r, e)
  PROVE  /\ MaxLen \in Nat /\ c \in Nat /\ r \in Nat /\ e \in Nat
         /\ 1 <= c /\ c <= r /\ r <= e /\ e <= MaxLen
         /\ 0 .. e - 1 \subseteq Slots
         /\ \A i \in 0 .. e - 1 : t.node[i].pos \in 0 .. i /\ t.node[i].pos < MaxLen
         /\ \A i \in c .. e - 1 : t.node[i].par \in c - 1 .. i - 1
<1>1. /\ MaxLen \in Nat /\ c \in Nat /\ r \in Nat /\ e \in Nat
      /\ 1 <= c /\ c <= r /\ r <= e /\ e <= MaxLen
  BY MaxLenAssumption DEF Grown, Shaped
<1>2. Shaped(t, c, e)
  BY DEF Grown
<1>3. \A i \in 0 .. e - 1 : t.node[i].pos \in 0 .. i
  BY <1>2, PosIsDepth
<1>4. \A i \in 0 .. e - 1 : t.node[i].pos < MaxLen
  BY <1>1, <1>3
<1>5. ASSUME NEW i \in c .. e - 1 PROVE t.node[i].par \in c - 1 .. i - 1
  <2>1. i \in 1 .. e - 1 /\ i >= c
    BY <1>1
  <2>2. t.node[i].par \in 0 .. i - 1 /\ t.node[i].par >= c - 1
    BY <1>2, <2>1 DEF Shaped, Hangs
  <2> QED
    BY <1>1, <2>1, <2>2
<1> QED
  BY <1>1, <1>3, <1>4, <1>5 DEF Slots

\* Marking the beams decoded.
LEMMA GrownMark ==
  ASSUME NEW t, NEW c, NEW r, NEW e, Grown(t, c, r, e), NEW S, NEW status,
         \/ S \subseteq c - 1 .. r - 1 /\ status = kProcessed
         \/ S \subseteq r .. e - 1 /\ status = kPostProcessed
  PROVE  /\ Grown(SetStatus(t, S, status), c, r, e)
         /\ Marked(t, S, status, SetStatus(t, S, status))
         /\ SameRows(t, SetStatus(t, S, status), MaxLen)
<1> DEFINE u == SetStatus(t, S, status)
<1>1. /\ MaxLen \in Nat /\ c \in Nat /\ r \in Nat /\ e \in Nat
      /\ 1 <= c /\ c <= r /\ r <= e /\ e <= MaxLen /\ 0 .. e - 1 \subseteq Slots
      /\ \A i \in c .. e - 1 : t.node[i].par \in c - 1 .. i - 1
  BY GrownNumbers
<1>2. TreeTyped(t) /\ Shaped(t, c, e)
  BY DEF Grown
<1>3. status \in Status
  BY DEF Status
<1>4. TreeTyped(u) /\ Marked(t, S, status, u)
  BY <1>2, <1>3, StatusFields DEF TreeTyped
<1> HIDE DEF u
<1>5. ASSUME NEW s \in Slots
      PROVE  /\ u.node[s].tok = t.node[s].tok /\ u.node[s].pos = t.node[s].pos
             /\ u.node[s].par = t.node[s].par /\ u.mask[s] = t.mask[s]
             /\ u.node[s].lp = t.node[s].lp
             /\ u.node[s].st = IF s \in S THEN status ELSE t.node[s].st
  <2>1. u.node[s] = [t.node[s] EXCEPT !.st = IF s \in S THEN status ELSE @] /\ u.mask = t.mask
    BY <1>4 DEF Marked
  <2>2. t.node[s] \in NodeRec(Tok \cup {0}, Seqs)
    BY <1>2, NodeFields
  <2> QED
    BY <2>1, <2>2 DEF NodeRec
<1>6. SameRows(t, u, MaxLen)
  BY <1>5 DEF SameRows, Slots
<1>7. Shaped(u, c, e)
  BY <1>1, <1>2, <1>5, SameShape
<1>8. \A i \in 0 .. e - 1 : u.node[i].tok \in Tok
  <2>1. \A i \in 0 .. e - 1 : t.node[i].tok \in Tok
    BY DEF Grown
  <2> QED
    BY <1>1, <1>5, <2>1
<1>9. \A i \in c .. e - 1 : i # r /\ u.node[i].par >= c => u.node[i].lp < u.node[u.node[i].par].lp
  <2> SUFFICES ASSUME NEW i \in c .. e - 1, i # r, u.node[i].par >= c
               PROVE  u.node[i].lp < u.node[u.node[i].par].lp
    OBVIOUS
  <2>1. i \in Slots /\ t.node[i].par \in Slots
    <3>1. i \in 0 .. e - 1 /\ t.node[i].par \in c - 1 .. i - 1
      BY <1>1
    <3>2. t.node[i].par \in 0 .. e - 1
      BY <1>1, <3>1
    <3> QED
      BY <1>1, <3>1, <3>2
  <2>2. u.node[i].par = t.node[i].par /\ u.node[i].lp = t.node[i].lp
        /\ u.node[t.node[i].par].lp = t.node[t.node[i].par].lp
    BY <1>5, <2>1
  <2>3. t.node[i].lp < t.node[t.node[i].par].lp
    BY <2>2 DEF Grown
  <2> QED
    BY <2>2, <2>3
<1>10. \A i \in 0 .. c - 2 : u.node[i].st = kPrompt
  <2> SUFFICES ASSUME NEW i \in 0 .. c - 2 PROVE u.node[i].st = kPrompt
    OBVIOUS
  <2>1. i \in Slots /\ i \notin c - 1 .. r - 1 /\ i \notin r .. e - 1
    BY <1>1
  <2>2. t.node[i].st = kPrompt
    BY DEF Grown
  <2> QED
    BY <1>5, <2>1, <2>2
<1>11. \A i \in c - 1 .. r - 1 : u.node[i].st \in {kCandidate, kProcessed}
  <2> SUFFICES ASSUME NEW i \in c - 1 .. r - 1 PROVE u.node[i].st \in {kCandidate, kProcessed}
    OBVIOUS
  <2>1. i \in Slots /\ i \notin r .. e - 1
    BY <1>1
  <2>2. t.node[i].st \in {kCandidate, kProcessed}
    BY DEF Grown
  <2> QED
    BY <1>5, <2>1, <2>2
<1>12. \A i \in r .. e - 1 : u.node[i].st \in {kPostCandidate, kPostProcessed}
  <2> SUFFICES ASSUME NEW i \in r .. e - 1 PROVE u.node[i].st \in {kPostCandidate, kPostProcessed}
    OBVIOUS
  <2>1. i \in Slots /\ i \notin c - 1 .. r - 1
    BY <1>1
  <2>2. t.node[i].st \in {kPostCandidate, kPostProcessed}
    BY DEF Grown
  <2> QED
    BY <1>5, <2>1, <2>2
<1>13. \A i \in r + 1 .. e - 1 : u.node[i].par >= r
  <2>1. \A i \in r + 1 .. e - 1 : t.node[i].par >= r /\ i \in 0 .. e - 1
    BY <1>1 DEF Grown
  <2> QED
    BY <1>1, <1>5, <2>1
<1>14. r \in c .. e
  BY <1>1
<1>16. Apart(u, c, e)
  <2>1. \A i \in c .. e - 1 : /\ i \in Slots /\ t.node[i].par \in Slots
                              /\ t.node[t.node[i].par].st \notin {kCandidate, kPostCandidate}
    <3>1. \A i \in c .. e - 1 : i \in 0 .. e - 1 /\ t.node[i].par \in 0 .. e - 1
      BY <1>1
    <3> QED
      BY <1>1, <3>1 DEF Grown, Apart
  <2>2. status \notin {kCandidate, kPostCandidate}
    BY DEF kCandidate, kProcessed, kPostCandidate, kPostProcessed
  <2>3. \A i \in c .. e - 1 : u.node[u.node[i].par].st \notin {kCandidate, kPostCandidate}
    BY <1>5, <2>1, <2>2
  <2>4. \A i, j \in c .. e - 1 : i # j /\ t.node[i].par = t.node[j].par => t.node[i].tok # t.node[j].tok
    BY DEF Grown, Apart
  <2> QED
    BY <1>5, <2>1, <2>3, <2>4 DEF Apart
<1>15. Grown(u, c, r, e)
  BY <1>4, <1>7, <1>8, <1>9, <1>10, <1>11, <1>12, <1>13, <1>14, <1>16 DEF Grown
<1> QED
  BY <1>4, <1>6, <1>15 DEF u

\* Beams that were just decoded: candidates no more, and without children yet.
Spent(t, c, e, S) ==
  \A x \in S : /\ t.node[x].st \notin {kCandidate, kPostCandidate}
               /\ \A i \in c .. e - 1 : t.node[i].par # x

\* Marking childless nodes, such as candidates, makes spent beams of them.
LEMMA MarkSpends ==
  ASSUME NEW t, NEW c, NEW r, NEW e, Grown(t, c, r, e), NEW S, S \subseteq Slots,
         NEW status \in {kProcessed, kPostProcessed},
         \A x \in S : \/ t.node[x].st \in {kCandidate, kPostCandidate}
                      \/ \A i \in c .. e - 1 : t.node[i].par # x
  PROVE  Spent(SetStatus(t, S, status), c, e, S)
<1> DEFINE u == SetStatus(t, S, status)
<1>1. c .. e - 1 \subseteq Slots
  <2>1. /\ c \in Nat /\ e \in Nat /\ 0 .. e - 1 \subseteq Slots
    BY GrownNumbers
  <2>2. c .. e - 1 \subseteq 0 .. e - 1
    BY <2>1
  <2> QED
    BY <2>1, <2>2
<1>2. TreeTyped(t) /\ status \in Status
  BY DEF Grown, Status
<1>3. Marked(t, S, status, u)
  BY <1>2, StatusFields DEF TreeTyped
<1> HIDE DEF u
<1>4. ASSUME NEW s \in Slots
      PROVE  u.node[s].par = t.node[s].par /\ u.node[s].st = IF s \in S THEN status ELSE t.node[s].st
  <2>1. u.node[s] = [t.node[s] EXCEPT !.st = IF s \in S THEN status ELSE @]
    BY <1>3 DEF Marked
  <2>2. t.node[s] \in NodeRec(Tok \cup {0}, Seqs)
    BY <1>2, NodeFields
  <2> QED
    BY <2>1, <2>2 DEF NodeRec
<1>5. \A x \in S : \A i \in c .. e - 1 : t.node[i].par # x
  BY DEF Grown, Apart
<1>6. status \notin {kCandidate, kPostCandidate}
  BY DEF kCandidate, kProcessed, kPostCandidate, kPostProcessed
<1> QED
  BY <1>1, <1>4, <1>5, <1>6 DEF Spent, u

\* Adding nodes.  The round's own children extend the round (r = e); those of a
\* bet hang from the bet's subtree, and its root from anywhere in the round.
LEMMA GrownAdd ==
  ASSUME NEW t, NEW c, NEW r, NEW r2, Grown(t, c, r, t.end),
         NEW kids \in Seq(NodeRec(Tok \cup {0}, Seqs)), Len(kids) <= MaxLen - t.end,
         \A k \in 1 .. Len(kids) : /\ kids[k].tok \in Tok
                                   /\ kids[k].par \in c - 1 .. t.end - 1
                                   /\ kids[k].pos = t.node[kids[k].par].pos + 1,
         NEW C, Spent(t, c, t.end, C), \A k \in 1 .. Len(kids) : kids[k].par \in C, Siblings(kids),
         \/ /\ r = t.end /\ r2 = t.end + Len(kids)
            /\ \A k \in 1 .. Len(kids) : /\ kids[k].st \in {kCandidate, kProcessed}
                                         /\ kids[k].lp < t.node[kids[k].par].lp
         \/ /\ r < t.end /\ r2 = r
            /\ \A k \in 1 .. Len(kids) : /\ kids[k].st \in {kPostCandidate, kPostProcessed}
                                         /\ kids[k].lp < t.node[kids[k].par].lp
                                         /\ kids[k].par >= r
         \/ /\ r = t.end /\ r2 = r /\ Len(kids) = 1
            /\ kids[1].st \in {kPostCandidate, kPostProcessed}
  PROVE  /\ Grown(Add(t, kids), c, r2, t.end + Len(kids))
         /\ Added(t, kids, Add(t, kids))
         /\ SameRows(t, Add(t, kids), t.end)
<1> DEFINE u == Add(t, kids)
           e == t.end
           n == Len(kids)
           kid(i) == kids[i - e + 1]
<1>1. /\ MaxLen \in Nat /\ c \in Nat /\ r \in Nat /\ e \in Nat
      /\ 1 <= c /\ c <= r /\ r <= e /\ e <= MaxLen /\ 0 .. e - 1 \subseteq Slots
      /\ \A i \in c .. e - 1 : t.node[i].par \in c - 1 .. i - 1
  BY GrownNumbers
<1>2. TreeTyped(t) /\ Shaped(t, c, e) /\ n \in Nat
  BY DEF Grown
<1>3. /\ TreeTyped(u) /\ Shaped(u, c, e + n) /\ Added(t, kids, u)
  BY <1>2, AddShape DEF TreeTyped
<1> HIDE DEF u
<1>4. \A i \in 0 .. e - 1 : u.node[i] = t.node[i] /\ u.mask[i] = t.mask[i]
  <2>1. \A i \in 0 .. e - 1 : i \in Slots /\ i < e
    BY <1>1
  <2> QED
    BY <1>3, <2>1 DEF Added
<1>5. SameRows(t, u, e)
  BY <1>4 DEF SameRows
<1>6. \A i \in e .. e + n - 1 : u.node[i] = kid(i) /\ i - e + 1 \in 1 .. n
  <2>1. \A i \in e .. e + n - 1 : i - e + 1 \in 1 .. n
    BY <1>1, <1>2
  <2> QED
    BY <1>3, <2>1 DEF Added
<1>7. \A i \in 0 .. (e + n) - 1 : i \in 0 .. e - 1 \/ i \in e .. e + n - 1
  BY <1>1, <1>2
<1>8. \A i \in 0 .. (e + n) - 1 : u.node[i].tok \in Tok
  <2>1. \A i \in 0 .. e - 1 : t.node[i].tok \in Tok
    BY DEF Grown
  <2>2. \A i \in e .. e + n - 1 : u.node[i].tok \in Tok
    BY <1>6
  <2> QED
    BY <1>4, <1>7, <2>1, <2>2
<1>9. r2 \in c .. e + n /\ r2 \in Nat /\ r2 >= r
  BY <1>1, <1>2
<1>10. ASSUME NEW i \in c .. (e + n) - 1, i # r2, u.node[i].par >= c
       PROVE  u.node[i].lp < u.node[u.node[i].par].lp
  <2>1. CASE i \in 0 .. e - 1
    <3>1. i \in c .. e - 1 /\ u.node[i] = t.node[i] /\ i # r
      BY <1>1, <1>2, <1>4, <1>10, <2>1
    <3>2. t.node[i].par \in c - 1 .. i - 1
      BY <1>1, <3>1
    <3>3. t.node[i].par \in 0 .. e - 1
      BY <1>1, <3>1, <3>2, SMTT(30)
    <3>4. u.node[t.node[i].par] = t.node[t.node[i].par]
      BY <1>4, <3>3
    <3>5. t.node[i].lp < t.node[t.node[i].par].lp
      BY <1>10, <3>1 DEF Grown
    <3> QED
      BY <3>1, <3>4, <3>5
  <2>2. CASE i \in e .. e + n - 1
    <3> DEFINE k == i - e + 1
    <3>1. u.node[i] = kids[k] /\ k \in 1 .. n
      BY <1>6, <2>2
    <3>2. kids[k].lp < t.node[kids[k].par].lp
      <4>1. ~(r = e /\ r2 = r /\ n = 1)
        <5> SUFFICES ASSUME r = e, r2 = r, n = 1 PROVE FALSE
          OBVIOUS
        <5>1. i = e
          BY <1>1, <2>2
        <5> QED
          BY <1>10, <5>1
      <4> HIDE DEF k
      <4> QED
        BY <3>1, <4>1
    <3> HIDE DEF k
    <3>3. kids[k].par \in 0 .. e - 1
      <4>1. kids[k].par \in c - 1 .. e - 1
        BY <3>1
      <4> QED
        BY <1>1, <4>1
    <3>4. u.node[kids[k].par] = t.node[kids[k].par]
      BY <1>4, <3>3
    <3> QED
      BY <3>1, <3>2, <3>4
  <2> QED
    BY <1>1, <1>2, <1>7, <1>10, <2>1, <2>2
<1>11. \A i \in 0 .. c - 2 : u.node[i].st = kPrompt
  <2>1. \A i \in 0 .. c - 2 : i \in 0 .. e - 1 /\ t.node[i].st = kPrompt
    BY <1>1 DEF Grown
  <2> QED
    BY <1>4, <2>1
<1>12. \A i \in c - 1 .. r2 - 1 : u.node[i].st \in {kCandidate, kProcessed}
  <2> SUFFICES ASSUME NEW i \in c - 1 .. r2 - 1 PROVE u.node[i].st \in {kCandidate, kProcessed}
    OBVIOUS
  <2>1. CASE i < r
    <3>1. i \in c - 1 .. r - 1 /\ i \in 0 .. e - 1
      BY <1>1, <1>9, <2>1
    <3>2. t.node[i].st \in {kCandidate, kProcessed}
      BY <3>1 DEF Grown
    <3> QED
      BY <1>4, <3>1, <3>2
  <2>2. CASE ~(i < r)
    <3>1. r = e /\ r2 = e + n /\ i \in e .. e + n - 1
      BY <1>1, <1>2, <1>9, <2>2
    <3>2. \A k \in 1 .. n : kids[k].st \in {kCandidate, kProcessed}
      BY <1>1, <1>2, <3>1, SMTT(30)
    <3> QED
      BY <1>6, <3>1, <3>2
  <2> QED
    BY <2>1, <2>2
<1>13. \A i \in r2 .. (e + n) - 1 : u.node[i].st \in {kPostCandidate, kPostProcessed}
  <2> SUFFICES ASSUME NEW i \in r2 .. (e + n) - 1 PROVE u.node[i].st \in {kPostCandidate, kPostProcessed}
    OBVIOUS
  <2>1. CASE i < e
    <3>1. i \in r .. e - 1 /\ i \in 0 .. e - 1
      BY <1>1, <1>9, <2>1
    <3>2. t.node[i].st \in {kPostCandidate, kPostProcessed}
      BY <3>1 DEF Grown
    <3> QED
      BY <1>4, <3>1, <3>2
  <2>2. CASE ~(i < e)
    <3>1. i \in e .. e + n - 1 /\ r2 = r
      BY <1>1, <1>2, <1>9, <2>2
    <3>2. \A k \in 1 .. n : kids[k].st \in {kPostCandidate, kPostProcessed}
      BY <1>1, <1>2, <3>1
    <3> QED
      BY <1>6, <3>1, <3>2
  <2> QED
    BY <2>1, <2>2
<1>14. \A i \in r2 + 1 .. (e + n) - 1 : u.node[i].par >= r2
  <2> SUFFICES ASSUME NEW i \in r2 + 1 .. (e + n) - 1 PROVE u.node[i].par >= r2
    OBVIOUS
  <2>1. CASE i < e
    <3>1. i \in r + 1 .. e - 1 /\ i \in 0 .. e - 1 /\ r2 = r
      BY <1>1, <1>9, <1>2, <2>1
    <3>2. t.node[i].par >= r
      BY <3>1 DEF Grown
    <3> QED
      BY <1>4, <3>1, <3>2
  <2>2. CASE ~(i < e)
    <3>0. (r = e /\ r2 = e + n) \/ (r < e /\ r2 = r) \/ (r = e /\ r2 = r /\ n = 1)
      OBVIOUS
    <3>1. i \in e .. e + n - 1 /\ r2 = r /\ r < e
      <4> HIDE DEF e, n
      <4> QED
        BY <1>1, <1>2, <1>9, <2>2, <3>0
    <3>2. \A k \in 1 .. n : kids[k].par >= r
      BY <1>1, <3>1, SMTT(30)
    <3> QED
      BY <1>6, <3>1, <3>2
  <2> QED
    BY <2>1, <2>2
<1>16. Apart(u, c, e + n)
  <2>1. \A i \in c .. (e + n) - 1 : i \in c .. e - 1 \/ i \in e .. e + n - 1
    BY <1>1, <1>2
  <2>2. \A i \in c .. e - 1 : /\ i \in 0 .. e - 1 /\ t.node[i].par \in 0 .. e - 1
                              /\ u.node[i] = t.node[i] /\ u.node[t.node[i].par] = t.node[t.node[i].par]
    <3>1. \A i \in c .. e - 1 : i \in 0 .. e - 1 /\ t.node[i].par \in 0 .. e - 1
      BY <1>1
    <3> QED
      BY <1>4, <3>1
  <2>3. \A k \in 1 .. n : kids[k].par \in 0 .. e - 1 /\ kids[k].par \in C
    <3>1. \A k \in 1 .. n : kids[k].par \in c - 1 .. e - 1 /\ kids[k].par \in C
      OBVIOUS
    <3> QED
      BY <1>1, <3>1
  <2>4. \A i \in c .. e - 1, x \in C : t.node[i].par # x
    BY DEF Spent
  <2>5. ASSUME NEW i \in c .. (e + n) - 1, NEW j \in c .. (e + n) - 1, i # j, u.node[i].par = u.node[j].par
        PROVE  u.node[i].tok # u.node[j].tok
    <3>1. CASE i \in c .. e - 1 /\ j \in c .. e - 1
      BY <2>2, <2>5, <3>1, SMTT(30) DEF Grown, Apart
    <3>2. CASE i \in c .. e - 1 /\ j \in e .. e + n - 1
      <4>1. u.node[j].par \in C
        BY <1>6, <2>3, <3>2
      <4> QED
        BY <2>2, <2>4, <2>5, <3>2, <4>1
    <3>3. CASE j \in c .. e - 1 /\ i \in e .. e + n - 1
      <4>1. u.node[i].par \in C
        BY <1>6, <2>3, <3>3
      <4> QED
        BY <2>2, <2>4, <2>5, <3>3, <4>1
    <3>4. CASE i \in e .. e + n - 1 /\ j \in e .. e + n - 1
      <4> DEFINE k == i - e + 1
                 l == j - e + 1
      <4>1. u.node[i] = kids[k] /\ u.node[j] = kids[l] /\ k \in 1 .. n /\ l \in 1 .. n
        BY <1>6, <3>4
      <4>2. k # l
        BY <1>1, <1>2, <2>5, <3>4
      <4> HIDE DEF k, l
      <4> QED
        BY <2>5, <4>1, <4>2 DEF Siblings
    <3> QED
      BY <2>1, <3>1, <3>2, <3>3, <3>4
  <2>6. ASSUME NEW i \in c .. (e + n) - 1 PROVE u.node[u.node[i].par].st \notin {kCandidate, kPostCandidate}
    <3>1. CASE i \in c .. e - 1
      BY <2>2, <3>1 DEF Grown, Apart
    <3>2. CASE i \in e .. e + n - 1
      <4>1. u.node[i].par \in C /\ u.node[i].par \in 0 .. e - 1
        BY <1>6, <2>3, <3>2
      <4>2. u.node[u.node[i].par] = t.node[u.node[i].par]
        BY <1>4, <4>1
      <4> QED
        BY <4>1, <4>2 DEF Spent
    <3> QED
      BY <2>1, <3>1, <3>2
  <2> QED
    BY <2>5, <2>6 DEF Apart
<1>15. Grown(u, c, r2, e + n)
  BY <1>3, <1>8, <1>9, <1>10, <1>11, <1>12, <1>13, <1>14, <1>16 DEF Grown
<1> QED
  BY <1>3, <1>5, <1>15 DEF u

\* TrimByBudget leaves a grown tree within the budget.
LEMMA GrownTrim ==
  ASSUME NEW t, Grown(t, t.prefix, t.end, t.end)
  PROVE  LET u == TrimByBudget(t)
         IN /\ Grown(u, t.prefix, u.end, u.end)
            /\ u.prefix = t.prefix /\ u.end \in t.prefix .. t.end
            /\ u.end - t.prefix <= Budget /\ (t.prefix < t.end => t.prefix < u.end)
            /\ \A i \in 0 .. t.prefix - 1 : u.node[i] = t.node[i]
<1> DEFINE D == Drafted(t)
           K == TopBeams(t, D, Budget)
           c == t.prefix
           e == t.end
           u == TrimByBudget(t)
<1>1. /\ MaxLen \in Nat /\ c \in Nat /\ e \in Nat
      /\ 1 <= c /\ c <= e /\ e <= MaxLen /\ 0 .. e - 1 \subseteq Slots
      /\ \A i \in c .. e - 1 : t.node[i].par \in c - 1 .. i - 1
  BY GrownNumbers
<1>2. TreeTyped(t) /\ Shaped(t, c, e) /\ Budget \in Nat \ {0}
  BY SpecExecAssumption DEF Grown
<1>3. D \subseteq Slots /\ Cardinality(D) = e - c
  <2>1. D = c .. e - 1
    BY DEF Drafted
  <2>2. Cardinality(c .. e - 1) = e - c
    BY <1>1, IntervalSize
  <2> QED
    BY <1>1, <2>1, <2>2 DEF Slots
<1>4. CASE Cardinality(D) <= Budget
  <2>1. u = t
    BY <1>4 DEF TrimByBudget
  <2>2. e \in c .. e /\ e - c <= Budget
    BY <1>1, <1>3, <1>4
  <2> QED
    BY <2>1, <2>2
<1>5. CASE ~(Cardinality(D) <= Budget)
  <2>1. u = TrimTo(t, K, Budget)
    BY <1>5 DEF TrimByBudget, TrimTo
  <2>2. Budget <= Cardinality(D)
    BY <1>1, <1>2, <1>3, <1>5
  <2>3. K \subseteq D /\ Cardinality(K) = Budget
    BY <1>2, <1>3, <2>2, TopBeamsSize
  <2>4. ASSUME NEW x \in K, t.node[x].par >= c PROVE t.node[x].par \in K
    <3>1. x \in c .. e - 1
      BY <2>3 DEF Drafted
    <3>2. t.node[x].par \in c - 1 .. x - 1
      BY <1>1, <3>1
    <3>3. t.node[x].par \in D /\ x # e
      BY <1>1, <2>4, <3>1, <3>2 DEF Drafted
    <3>4. t.node[x].lp < t.node[t.node[x].par].lp
      BY <2>4, <3>1, <3>3 DEF Grown
    <3> HIDE DEF D
    <3> QED
      BY <1>2, <1>3, <3>3, <3>4, TopBeamsClosed
  <2> HIDE DEF K, u
  <2> DEFINE m == c + Budget
  <2>5. TreeTyped(u) /\ Shaped(u, c, m) /\ Trimmed(t, K, Budget, u)
    BY <1>2, <2>1, <2>3, <2>4, GatherShape DEF TreeTyped
  <2>6. /\ IsFiniteSet(K) /\ K \subseteq Int /\ K \subseteq Slots /\ m <= e
        /\ \A s \in 0 .. m - 1 : /\ OldSlot(t, K, s) \in (0 .. c - 1) \cup K
                                 /\ NewPlace(t, K, OldSlot(t, K, s)) = s
                                 /\ s < c => OldSlot(t, K, s) = s
                                 /\ s >= c => OldSlot(t, K, s) \in K
        /\ \A x \in (0 .. c - 1) \cup K : /\ NewPlace(t, K, x) \in 0 .. m - 1
                                          /\ OldSlot(t, K, NewPlace(t, K, x)) = x
                                          /\ x \in K <=> NewPlace(t, K, x) >= c
    BY <1>1, <1>2, <2>3, Places DEF TreeTyped
  <2>7. /\ u.prefix = c /\ u.end = m
        /\ \A s \in 0 .. c - 1 : u.node[s] = t.node[s]
        /\ \A s \in c .. m - 1 : u.node[s] = Moved(t, K, OldSlot(t, K, s))
    BY <2>5 DEF Trimmed
  <2>8. \A x \in K : x \in c .. e - 1 /\ x \in 0 .. e - 1 /\ x \in Slots
    BY <1>1, <2>3 DEF Drafted
  <2>9. ASSUME NEW s \in c .. m - 1
        PROVE  /\ OldSlot(t, K, s) \in K
               /\ u.node[s].par = NewPlace(t, K, t.node[OldSlot(t, K, s)].par)
               /\ u.node[s].tok = t.node[OldSlot(t, K, s)].tok
               /\ u.node[s].lp = t.node[OldSlot(t, K, s)].lp
               /\ u.node[s].st = t.node[OldSlot(t, K, s)].st
    <3>1. s \in 0 .. m - 1 /\ s >= c
      BY <1>1
    <3>2. OldSlot(t, K, s) \in K
      BY <2>6, <3>1
    <3>3. t.node[OldSlot(t, K, s)] \in NodeRec(Tok \cup {0}, Seqs)
      BY <1>2, <2>8, <3>2, NodeFields
    <3>4. u.node[s] = Moved(t, K, OldSlot(t, K, s))
      BY <2>7
    <3> QED
      BY <3>2, <3>3, <3>4 DEF Moved, NodeRec
  <2>10. \A s \in 0 .. m - 1 : s \in 0 .. c - 1 \/ s \in c .. m - 1
    BY <1>1
  <2>11. \A i \in 0 .. m - 1 : u.node[i].tok \in Tok
    <3>1. \A i \in 0 .. e - 1 : t.node[i].tok \in Tok
      BY DEF Grown
    <3>2. \A i \in 0 .. c - 1 : i \in 0 .. e - 1
      BY <1>1
    <3> QED
      BY <2>7, <2>8, <2>9, <2>10, <3>1, <3>2
  <2>12. ASSUME NEW i \in c .. m - 1, u.node[i].par >= c
         PROVE  u.node[i].lp < u.node[u.node[i].par].lp
    <3> DEFINE x == OldSlot(t, K, i)
               p == t.node[x].par
    <3>1. x \in K /\ u.node[i].par = NewPlace(t, K, p) /\ u.node[i].lp = t.node[x].lp
      BY <2>9
    <3>2. x \in c .. e - 1
      BY <2>8, <3>1
    <3> HIDE DEF x
    <3>3. p \in c - 1 .. x - 1
      BY <1>1, <3>2
    <3> HIDE DEF p
    <3>4. p \in K
      <4>1. CASE p < c
        <5>1. p \in 0 .. c - 1 /\ p \notin K
          BY <1>1, <2>8, <3>2, <3>3, <4>1
        <5>2. NewPlace(t, K, p) = p
          BY <5>1 DEF NewPlace
        <5> QED
          BY <1>1, <2>12, <3>1, <3>3, <3>2, <4>1, <5>2
      <4>2. CASE p >= c
        BY <2>4, <3>1, <4>2 DEF p
      <4> QED
        BY <1>1, <3>2, <3>3, <4>1, <4>2
    <3>5. NewPlace(t, K, p) \in 0 .. m - 1 /\ NewPlace(t, K, p) >= c /\ OldSlot(t, K, NewPlace(t, K, p)) = p
      BY <2>6, <3>4
    <3>6. NewPlace(t, K, p) \in c .. m - 1
      BY <1>1, <3>5
    <3>7. u.node[NewPlace(t, K, p)].lp = t.node[p].lp
      BY <2>9, <3>5, <3>6
    <3>8. t.node[x].lp < t.node[p].lp
      <4>1. x # e /\ p >= c
        BY <1>1, <2>8, <3>2, <3>4
      <4> QED
        BY <3>2, <4>1 DEF Grown, p
    <3> QED
      BY <3>1, <3>7, <3>8
  <2>13. \A i \in 0 .. c - 2 : u.node[i].st = kPrompt
    <3>1. \A i \in 0 .. c - 2 : i \in 0 .. c - 1 /\ t.node[i].st = kPrompt
      BY <1>1 DEF Grown
    <3> QED
      BY <2>7, <3>1
  <2>14. \A i \in c - 1 .. m - 1 : u.node[i].st \in {kCandidate, kProcessed}
    <3>1. \A i \in c - 1 .. e - 1 : t.node[i].st \in {kCandidate, kProcessed}
      BY DEF Grown
    <3>2. c - 1 \in 0 .. c - 1 /\ c - 1 \in c - 1 .. e - 1 /\ \A i \in c - 1 .. m - 1 : i = c - 1 \/ i \in c .. m - 1
      BY <1>1
    <3>3. \A x \in K : x \in c - 1 .. e - 1
      BY <1>1, <2>8
    <3> QED
      BY <2>7, <2>9, <3>1, <3>2, <3>3
  <2>15. m \in c .. e /\ m - c <= Budget /\ m \in c .. m /\ c < m
    BY <1>1, <1>2, <2>6
  <2>16. (\A i \in m .. m - 1 : FALSE) /\ (\A i \in m + 1 .. m - 1 : FALSE)
    BY <1>1, <1>2
  <2>18. ASSUME NEW i \in c .. m - 1
         PROVE  /\ OldSlot(t, K, i) \in c .. e - 1
                /\ t.node[OldSlot(t, K, i)].par \in (0 .. c - 1) \cup K
                /\ u.node[u.node[i].par].st = t.node[t.node[OldSlot(t, K, i)].par].st
    <3> DEFINE x == OldSlot(t, K, i)
               p == t.node[x].par
    <3>1. x \in K /\ u.node[i].par = NewPlace(t, K, p)
      BY <2>9
    <3>2. x \in c .. e - 1
      BY <2>8, <3>1
    <3> HIDE DEF x
    <3>3. p \in c - 1 .. x - 1
      BY <1>1, <3>2
    <3>4. p >= c => p \in K
      BY <2>4, <3>1
    <3> HIDE DEF p
    <3>5. p \in 0 .. c - 1 \/ p \in K
      BY <1>1, <3>2, <3>3, <3>4
    <3>6. /\ NewPlace(t, K, p) \in 0 .. m - 1 /\ OldSlot(t, K, NewPlace(t, K, p)) = p
          /\ p \in K <=> NewPlace(t, K, p) >= c
      BY <2>6, <3>5
    <3>7. u.node[NewPlace(t, K, p)].st = t.node[p].st
      <4>1. CASE p \in K
        <5>1. NewPlace(t, K, p) \in c .. m - 1
          BY <1>1, <3>6, <4>1
        <5> QED
          BY <2>9, <3>6, <5>1
      <4>2. CASE p \notin K
        <5> DEFINE q == NewPlace(t, K, p)
        <5>1. p \in 0 .. c - 1 /\ q \in 0 .. m - 1 /\ q < c
          BY <1>1, <3>5, <3>6, <4>2
        <5> HIDE DEF q
        <5>2. OldSlot(t, K, q) = q
          BY <2>6, <5>1
        <5>3. q = p
          BY <3>6, <5>2 DEF q
        <5> QED
          BY <2>7, <5>1, <5>3 DEF q
      <4> QED
        BY <4>1, <4>2
    <3> QED
      BY <3>1, <3>2, <3>5, <3>7 DEF x, p
  <2>19. Apart(u, c, m)
    <3>1. \A i \in c .. m - 1 : u.node[u.node[i].par].st \notin {kCandidate, kPostCandidate}
      BY <2>18 DEF Grown, Apart
    <3>2. ASSUME NEW i \in c .. m - 1, NEW j \in c .. m - 1, i # j, u.node[i].par = u.node[j].par
          PROVE  u.node[i].tok # u.node[j].tok
      <4> DEFINE x == OldSlot(t, K, i)
                 y == OldSlot(t, K, j)
      <4>1. x \in c .. e - 1 /\ y \in c .. e - 1
        BY <2>18
      <4>2. i \in 0 .. m - 1 /\ j \in 0 .. m - 1
        BY <1>1
      <4>3. x # y
        BY <2>6, <3>2, <4>2
      <4>4. t.node[x].par = t.node[y].par
        <5>1. NewPlace(t, K, t.node[x].par) = NewPlace(t, K, t.node[y].par)
          BY <2>9, <3>2
        <5>2. t.node[x].par \in (0 .. c - 1) \cup K /\ t.node[y].par \in (0 .. c - 1) \cup K
          BY <2>18
        <5>3. /\ OldSlot(t, K, NewPlace(t, K, t.node[x].par)) = t.node[x].par
              /\ OldSlot(t, K, NewPlace(t, K, t.node[y].par)) = t.node[y].par
          BY <2>6, <5>2
        <5> QED
          BY <5>1, <5>3, Zenon
      <4>5. u.node[i].tok = t.node[x].tok /\ u.node[j].tok = t.node[y].tok
        BY <2>9
      <4> HIDE DEF x, y
      <4> QED
        BY <4>1, <4>3, <4>4, <4>5 DEF Grown, Apart
    <3> QED
      BY <3>1, <3>2 DEF Apart
  <2> HIDE DEF m
  <2>17. Grown(u, c, m, m)
    BY <2>5, <2>11, <2>12, <2>13, <2>14, <2>15, <2>16, <2>19 DEF Grown
  <2> QED
    BY <2>7, <2>15, <2>17 DEF u
<1> QED
  BY <1>4, <1>5

-----------------------------------------------------------------------------
(* The inductive invariant *)

\* The invariant holds of a new request.
LEMMA InitIInv == Init => IInv
<1> SUFFICES ASSUME Init PROVE IInv
  OBVIOUS
<1>1. PICK p \in Prompts : /\ tree = NewTree(p)
                           /\ gen = [orig |-> Len(p), first |-> TRUE, warm |-> 0, eog |-> FALSE]
  BY Zenon DEF Init
<1>2. /\ kv = EmptyCache /\ pool = PoolOf(tree) /\ pc = "grow" /\ level = 0 /\ prevHit = FALSE
      /\ rpc = NoRpc /\ bet = NoBet /\ srv = [s \in Slots |-> 0] /\ cause = "none"
  BY DEF Init
<1>3. p \in Seq(Tok) /\ NewTreeOk(p) /\ Prompts \subseteq Seq(Tok)
  BY SpecExecAssumption
<1>4. MaxLen \in Nat /\ MaxSeqs \in Nat \ {0, 1} /\ 0 \in Seqs /\ 1 % MaxSeqs \in Seqs
  BY MaxLenAssumption, SeqsAssumption DEF Seqs
<1> DEFINE n == Len(p)
<1>5. n \in 1 .. MaxLen /\ n \in Nat /\ n >= 1
  BY <1>3, <1>4 DEF NewTreeOk
<1>6. p \in Seq(Tok \cup {0})
  BY <1>3
<1>7. TreeTyped(tree) /\ Shaped(tree, n, n) /\ Chain(p, tree)
  BY <1>1, <1>3, <1>4, <1>6, NewTreeShape DEF TreeTyped
<1>8. tree.prefix = n /\ tree.end = n
  BY <1>7 DEF Chain
<1>9. CommittedLen = n /\ RoundEnd = n /\ Extent = n /\ ~Drafting /\ bet.st = "none" /\ rpc.st = "idle"
  BY <1>2, <1>8 DEF CommittedLen, RoundEnd, Extent, Drafting, NoBet, NoRpc
<1>10. Trees
  <2>1. \A i \in 0 .. n - 1 : tree.node[i].tok \in Tok
    <3>1. \A i \in 0 .. n - 1 : i + 1 \in 1 .. n /\ p[i + 1] \in Tok
      BY <1>3, <1>5
    <3> QED
      BY <1>7, <3>1 DEF Chain
  <2>2. \A i \in 0 .. n - 2 : tree.node[i].st = kPrompt
    <3>1. \A i \in 0 .. n - 2 : i \in 0 .. n - 1 /\ i # n - 1
      BY <1>5
    <3> QED
      BY <1>7, <3>1 DEF Chain
  <2>3. \A i \in n - 1 .. n - 1 : tree.node[i].st \in {kCandidate, kProcessed}
    <3>1. \A i \in n - 1 .. n - 1 : i = n - 1 /\ i \in 0 .. n - 1
      BY <1>5
    <3> QED
      BY <1>7, <3>1 DEF Chain
  <2>4. n \in n .. n /\ \A i \in n .. n - 1 : FALSE
    BY <1>5
  <2>5. \A i \in n + 1 .. n - 1 : FALSE
    BY <1>5
  <2> HIDE DEF n
  <2>6. Grown(tree, n, n, n)
    BY <1>7, <2>1, <2>2, <2>3, <2>4, <2>5 DEF Grown, Apart
  <2> QED
    BY <1>9, <2>6 DEF Trees
<1>11. Phases
  BY <1>2, <1>9 DEF Phases
<1>12. Records
  <2>1. rpc = [st |-> rpc.st, inputs |-> rpc.inputs, req |-> rpc.req, ctx |-> rpc.ctx, sel |-> rpc.sel]
        /\ rpc.inputs \subseteq Slots
    BY <1>2 DEF NoRpc
  <2>2. bet \in [st : {"none", "drafting", "placed"}, leaf : Int, tok : Tok \cup {0}, prefix : Int,
                 end : Int, begin : Int, stop : Int, seqs : SUBSET Seqs]
    BY <1>2 DEF NoBet
  <2>3. gen \in [orig : 1 .. MaxLen, first : BOOLEAN, warm : Nat, eog : BOOLEAN]
    BY <1>1, <1>5
  <2> QED
    BY <2>1, <2>2, <2>3 DEF Records
<1>13. Bets
  BY <1>9 DEF Bets
<1>14. Request
  BY <1>2, <1>9 DEF Request, RequestStillDescribesTree
<1>15. Generated
  BY <1>1, <1>9 DEF Generated
<1>16. Rest
  <2>1. KvTyped(kv)
    BY <1>2 DEF EmptyCache, KvTyped
  <2>2. pool \in Pool
    <3>1. \A i \in Live(tree) : tree.node[i].seq \in Seqs
      <4>1. Live(tree) \subseteq Slots
        BY <1>4, <1>5, <1>8 DEF Live, Slots
      <4> QED
        BY <1>7, <4>1, NodeFields
    <3> QED
      BY <1>2, <1>4, <3>1 DEF PoolOf, Pool
  <2>3. level \in 0 .. BeamLen + ProLen
    <3>1. BeamLen \in Nat /\ ProLen \in Nat
      BY SpecExecAssumption
    <3> QED
      BY <1>2, <3>1
  <2> QED
    BY <1>2, <2>1, <2>2, <2>3 DEF Rest
<1> QED
  BY <1>10, <1>11, <1>12, <1>13, <1>14, <1>15, <1>16 DEF IInv

\* A step that commits nothing: what is committed, and what Generate knows of it,
\* stays.
Quiet ==
  /\ gen' = gen
  /\ CommittedLen' = CommittedLen
  /\ \A i \in 0 .. CommittedLen - 1 : tree'.node[i].tok = tree.node[i].tok

\* One that does not touch the call or the server either.
Still == Quiet /\ rpc' = rpc /\ srv' = srv

\* A round is committed: the accepted path, then the bonus token.
Commits ==
  LET acc == Accepted(rpc.sel)
      n   == Cardinality(acc)
  IN /\ pc = "join" /\ rpc.st = "answered"
     /\ rpc' = NoRpc /\ bet' = NoBet /\ srv' = srv /\ ~gen'.first
     /\ tree'.prefix = n + 1
     /\ \A i \in 0 .. n - 1 : tree'.node[i].tok = tree.node[Nth(acc, i)].tok
     /\ tree'.node[n].tok = Bonus(acc)

\* An exception leaves everything as it was.
LEMMA DieIInv ==
  ASSUME IInv, NEW why \in {"decode", "seqs", "max_len", "no_targets", "splice", "rpc"},
         bet.st # "drafting", Die(why)
  PROVE  IInv' /\ Still
<1>1. /\ pc' = "fatal" /\ cause' = why
      /\ UNCHANGED <<tree, kv, pool, level, prevHit, rpc, bet, gen, srv>>
  BY DEF Die
<1>2. CommittedLen' = CommittedLen /\ RoundEnd' = RoundEnd /\ Extent' = Extent /\ Drafting' = Drafting
  BY <1>1 DEF CommittedLen, RoundEnd, Extent, Drafting
<1>3. Phases'
  BY <1>1 DEF IInv, Phases
<1>4. Records'
  BY <1>1 DEF IInv, Records
<1>5. Trees' /\ Bets'
  BY <1>1, <1>2 DEF IInv, Trees, Bets
<1>6. Request'
  BY <1>1, <1>2 DEF IInv, Request, RequestStillDescribesTree
<1>7. Generated' /\ Rest'
  BY <1>1, <1>2 DEF IInv, Generated, Rest
<1>8. Still
  BY <1>1, <1>2 DEF Still, Quiet
<1> QED
  BY <1>3, <1>4, <1>5, <1>6, <1>7, <1>8 DEF IInv

\* A step of the main draft.
LEMMA RoundIInv ==
  ASSUME IInv, pc = "grow", pc' \in {"grow", "validate"},
         UNCHANGED <<prevHit, rpc, bet, gen, srv, cause>>,
         Grown(tree', tree.prefix, tree'.end, tree'.end), tree'.prefix = tree.prefix,
         \A i \in 0 .. tree.prefix - 1 : tree'.node[i].tok = tree.node[i].tok,
         pc' = "validate" => tree'.end - tree'.prefix <= Budget,
         KvTyped(kv'), pool' \in Pool, level' \in 0 .. BeamLen + ProLen
  PROVE  IInv' /\ Still
<1>1. rpc.st = "idle" /\ bet.st = "none" /\ rpc'.st = "idle" /\ bet'.st = "none"
  BY DEF IInv, Phases
<1>2. /\ CommittedLen = tree.prefix /\ CommittedLen' = tree.prefix
      /\ RoundEnd' = tree'.end /\ Extent' = tree'.end /\ ~Drafting'
  BY <1>1 DEF CommittedLen, RoundEnd, Extent, Drafting
<1>3. Phases'
  BY <1>1 DEF Phases
<1>4. Records'
  BY DEF IInv, Records
<1>5. Trees' /\ Bets'
  BY <1>1, <1>2 DEF Trees, Bets
<1>6. Request'
  BY <1>1, <1>2 DEF Request, RequestStillDescribesTree
<1>7. Generated'
  <2>1. gen.first => gen.orig = CommittedLen
    BY DEF IInv, Generated
  <2>2. ASSUME ~gen.first, NEW i \in gen.orig + gen.warm .. tree.prefix - 1
        PROVE  tree'.node[i].tok \notin Eog
    <3>1. tree.node[i].tok \notin Eog
      BY <1>2, <2>2 DEF IInv, Generated
    <3>2. gen.orig \in Nat /\ gen.warm \in Nat
      BY MaxLenAssumption DEF IInv, Records
    <3>3. i \in 0 .. tree.prefix - 1
      BY <3>2
    <3> QED
      BY <3>1, <3>3
  <2> QED
    BY <1>2, <2>1, <2>2 DEF Generated
<1>8. Rest'
  BY DEF IInv, Rest
<1>9. Still
  BY <1>2 DEF Still, Quiet
<1> QED
  BY <1>3, <1>4, <1>5, <1>6, <1>7, <1>8, <1>9 DEF IInv

\* Of some candidates, one at least is a beam.
LEMMA TopBeamsSome ==
  ASSUME NEW t, TreeTyped(t), NEW S, S \subseteq Slots, S # {}, NEW n \in Nat \ {0}
  PROVE  TopBeams(t, S, n) # {}
<1>1. IsFiniteSet(S) /\ Cardinality(S) \in Nat
  BY SlotSets
<1>2. Cardinality(S) # 0
  BY <1>1, FS_EmptySet
<1>3. 1 <= Cardinality(S) /\ 1 \in Nat
  BY <1>1, <1>2
<1>4. Cardinality(TopBeams(t, S, 1)) = 1
  BY <1>3, TopBeamsSize
<1>5. TopBeams(t, S, 1) # {}
  BY <1>4, FS_EmptySet
<1>6. PICK x \in S : Cardinality({j \in S : Ahead(t, j, x)}) < 1
  BY <1>5 DEF TopBeams
<1>7. IsFiniteSet({j \in S : Ahead(t, j, x)})
  BY <1>1, FS_Subset
<1>8. Cardinality({j \in S : Ahead(t, j, x)}) \in Nat
  BY <1>7, FS_CardinalityType
<1>9. Cardinality({j \in S : Ahead(t, j, x)}) < n
  BY <1>6, <1>8
<1> QED
  BY <1>9 DEF TopBeams

\* What holds while the main draft grows: one round, nothing in flight.
LEMMA Growing ==
  ASSUME IInv, pc \in {"grow", "validate"}
  PROVE  /\ Grown(tree, tree.prefix, tree.end, tree.end)
         /\ rpc.st = "idle" /\ bet.st = "none"
         /\ CommittedLen = tree.prefix /\ RoundEnd = tree.end
         /\ KvTyped(kv) /\ pool \in Pool /\ level \in 0 .. BeamLen + ProLen
<1>1. rpc.st = "idle" /\ bet.st = "none"
  BY DEF IInv, Phases
<1>2. CommittedLen = tree.prefix /\ RoundEnd = tree.end /\ Extent = tree.end
  BY <1>1 DEF CommittedLen, RoundEnd, Extent, Drafting
<1> QED
  BY <1>1, <1>2 DEF IInv, Trees, Rest

\* The prompt in the cache.
LEMMA EngineTyped ==
  ASSUME Grown(tree, tree.prefix, tree.end, tree.end), KvTyped(kv),
         NEW C, C \subseteq 0 .. tree.end - 1, C # {}
  PROVE  KvTyped(EngineFor(C))
<1> DEFINE seed == Nth(C, 0)
           path == [k \in 1 .. seed |-> Cell(tree.node[k - 1].pos, tree.node[k - 1].tok)]
<1>1. /\ tree.end \in Nat /\ 0 .. tree.end - 1 \subseteq Slots /\ TreeTyped(tree)
      /\ \A i \in 0 .. tree.end - 1 : tree.node[i].tok \in Tok
  BY GrownNumbers DEF Grown
<1>2. C \subseteq Slots
  BY <1>1
<1>3. IsFiniteSet(C) /\ C \subseteq Int /\ Cardinality(C) \in Nat
  BY <1>2, SlotSets
<1>4. Cardinality(C) # 0
  BY <1>3, FS_EmptySet
<1>5. 0 \in 0 .. Cardinality(C) - 1
  BY <1>3, <1>4
<1>6. seed \in C
  BY <1>3, <1>5, NthWorks
<1> HIDE DEF seed
<1>7. seed \in 0 .. tree.end - 1
  BY <1>6
<1>8. ASSUME NEW k \in 1 .. seed PROVE path[k] \in Cells
  <2>1. k - 1 \in 0 .. tree.end - 1
    BY <1>1, <1>7
  <2>2. k - 1 \in Slots
    BY <1>1, <2>1
  <2>3. tree.node[k - 1].pos \in 0 .. MaxLen
    BY <1>1, <2>2, NodeFields
  <2>4. path[k] = <<tree.node[k - 1].pos, tree.node[k - 1].tok>>
    BY DEF Cell
  <2> QED
    BY <1>1, <2>1, <2>3, <2>4 DEF Cells
<1>9. CellsOf(path) \subseteq Cells
  BY <1>8 DEF CellsOf
<1>10. EngineFor(C) = IF gen.first /\ level = 0 THEN Prefill(kv, path) ELSE kv
  BY DEF EngineFor, seed
<1> HIDE DEF path
<1>11. KvTyped(Prefill(kv, path))
  <2>1. 0 \in Seqs
    BY SeqsAssumption DEF Seqs
  <2> QED
    BY <1>9, <2>1 DEF Prefill, KvTyped
<1> QED
  BY <1>10, <1>11

\* What GrowTree keeps of a level is a part of its candidates.
LEMMA GrowKeepFlats ==
  ASSUME NEW t, NEW C, NEW top
  PROVE  GrowKeep(t, C, top) \subseteq Flats(C, Width)
BY DEF GrowKeep, InBudget

\* A level of the main draft that adds its children.
LEMMA GrowAdds ==
  ASSUME NEW t, Grown(t, t.prefix, t.end, t.end), NEW C, C \subseteq t.prefix - 1 .. t.end - 1,
         NEW top \in [C -> TopKRows], NEW keep, keep \subseteq Flats(C, Width),
         NEW po \in Pool, Cardinality(Forks(C, Width, keep)) <= Cardinality(FreeSeqs(po)),
         Spent(t, t.prefix, t.end, C), AddOk(t, Children(t, po, C, Width, top, keep, kCandidate))
  PROVE  LET u == Add(t, Children(t, po, C, Width, top, keep, kCandidate))
         IN /\ Grown(u, t.prefix, u.end, u.end) /\ u.prefix = t.prefix
            /\ SameRows(t, u, t.end)
<1> DEFINE kids == Children(t, po, C, Width, top, keep, kCandidate)
           u == Add(t, kids)
           c == t.prefix
           e == t.end
<1>1. /\ MaxLen \in Nat /\ c \in Nat /\ e \in Nat /\ 1 <= c /\ c <= e /\ e <= MaxLen
      /\ 0 .. e - 1 \subseteq Slots
      /\ \A i \in 0 .. e - 1 : t.node[i].pos \in 0 .. i /\ t.node[i].pos < MaxLen
  BY GrownNumbers
<1>2. TreeTyped(t)
  BY DEF Grown
<1>3. \A i \in C : i \in 0 .. e - 1
  BY <1>1
<1>4. C \subseteq Slots /\ \A i \in C : t.node[i].pos < MaxLen
  BY <1>1, <1>3
<1>5. Width \in 1 .. Width /\ kCandidate \in Status
  BY BeamAssumption DEF Status
<1>6. /\ kids \in Seq(NodeRec(Tok \cup {0}, Seqs))
      /\ Bred(t, C, kCandidate, kids) /\ Siblings(kids)
  BY <1>2, <1>4, <1>5, ChildrenFacts
<1>7. Len(kids) <= MaxLen - e
  BY DEF AddOk
<1> HIDE DEF kids, c, e
<1>8. \A k \in 1 .. Len(kids) : /\ kids[k].tok \in Tok
                                /\ kids[k].par \in c - 1 .. e - 1
                                /\ kids[k].pos = t.node[kids[k].par].pos + 1
                                /\ kids[k].st \in {kCandidate, kProcessed}
                                /\ kids[k].lp < t.node[kids[k].par].lp
                                /\ kids[k].par \in C
  BY <1>6 DEF Bred, c, e
<1>9. Grown(u, c, e + Len(kids), e + Len(kids)) /\ Added(t, kids, u) /\ SameRows(t, u, e)
  <2>1. Grown(t, c, t.end, t.end) /\ Spent(t, c, t.end, C) /\ t.end = e
    BY DEF c, e
  <2> HIDE DEF u
  <2>2. Grown(Add(t, kids), c, t.end + Len(kids), t.end + Len(kids)) /\ Added(t, kids, Add(t, kids))
        /\ SameRows(t, Add(t, kids), t.end)
    BY <1>6, <1>7, <1>8, <2>1, GrownAdd
  <2> QED
    BY <2>1, <2>2 DEF u
<1> HIDE DEF u
<1>10. u.prefix = c /\ u.end = e + Len(kids)
  BY <1>9 DEF Added, c, e
<1> QED
  BY <1>9, <1>10 DEF u, kids, c, e

\* One level of GrowTree keeps the invariant, whether it adds, trims or throws.
LEMMA GrowLevelIInv ==
  ASSUME IInv, GrowLevel
  PROVE  IInv' /\ Still
<1>0. PICK C \in {TopBeams(tree, Candidates(tree), Beams)} :
     LET kv0  == EngineFor(C)
         rows == RowsOf(tree, C)
     IN IF ~DecodeOk(kv0, rows) THEN Die("decode")
        ELSE \E top \in [C -> TopKRows] :
          LET t1      == SetStatus(tree, C, kProcessed)
              kv1     == Decode(kv0, rows)
              drafted == Cardinality(Drafted(tree))
              keep    == GrowKeep(t1, C, top)
              forks   == Forks(C, Width, keep)
              kids    == Children(t1, pool, C, Width, top, keep, kCandidate)
          IN IF Squeezed(t1, C) /\ Cardinality(keep) + tree.end > MaxLen
             THEN Die("max_len")
             ELSE IF \/ keep = {}
                     \/ drafted >= Budget /\ ~NewTokenInBudget(t1, C, top, keep)
             THEN /\ tree' = TrimByBudget(t1)
                  /\ kv' = kv1
                  /\ pc' = "validate"
                  /\ UNCHANGED <<pool, level, prevHit, rpc, bet, gen, srv, cause>>
             ELSE IF Cardinality(forks) > Cardinality(FreeSeqs(pool))
             THEN Die("seqs")
             ELSE IF ~AddOk(t1, kids) THEN Die("max_len")
             ELSE /\ tree' = Add(t1, kids)
                  /\ kv' = ForkCache(kv1, t1, pool, C, Width, keep)
                  /\ pool' = AfterAlloc(pool, Cardinality(forks))
                  /\ level' = level + 1
                  /\ UNCHANGED <<pc, prevHit, rpc, bet, gen, srv, cause>>
  BY DEF GrowLevel
<1> DEFINE kv0 == EngineFor(C)
           rows == RowsOf(tree, C)
           t1 == SetStatus(tree, C, kProcessed)
           kv1 == Decode(kv0, rows)
           keep(top) == GrowKeep(t1, C, top)
           forks(top) == Forks(C, Width, keep(top))
           kids(top) == Children(t1, pool, C, Width, top, keep(top), kCandidate)
<1>1. /\ pc = "grow" /\ level < BeamLimit /\ Candidates(tree) # {}
      /\ C = TopBeams(tree, Candidates(tree), Beams)
  BY DEF GrowLevel
<1>1a. \/ Die("decode")
       \/ Die("max_len")
       \/ Die("seqs")
       \/ \E top \in [C -> TopKRows] :
            /\ tree' = TrimByBudget(t1)
            /\ kv' = kv1
            /\ pc' = "validate"
            /\ UNCHANGED <<pool, level, prevHit, rpc, bet, gen, srv, cause>>
       \/ \E top \in [C -> TopKRows] :
            /\ ~(Cardinality(forks(top)) > Cardinality(FreeSeqs(pool)))
            /\ AddOk(t1, kids(top))
            /\ tree' = Add(t1, kids(top))
            /\ kv' = ForkCache(kv1, t1, pool, C, Width, keep(top))
            /\ pool' = AfterAlloc(pool, Cardinality(forks(top)))
            /\ level' = level + 1
            /\ UNCHANGED <<pc, prevHit, rpc, bet, gen, srv, cause>>
  BY <1>0
<1> HIDE DEF kv0, rows, t1, kv1, keep, forks, kids
<1>2. /\ Grown(tree, tree.prefix, tree.end, tree.end)
      /\ rpc.st = "idle" /\ bet.st = "none"
      /\ KvTyped(kv) /\ pool \in Pool /\ level \in 0 .. BeamLen + ProLen
  BY <1>1, Growing
<1>3. /\ MaxLen \in Nat /\ tree.prefix \in Nat /\ tree.end \in Nat
      /\ 1 <= tree.prefix /\ tree.prefix <= tree.end /\ tree.end <= MaxLen
      /\ 0 .. tree.end - 1 \subseteq Slots
  BY <1>2, GrownNumbers
<1>4. TreeTyped(tree) /\ Beams \in Nat \ {0} /\ BeamLen \in Nat /\ ProLen \in Nat
  BY <1>2, SpecExecAssumption DEF Grown
<1>5. Candidates(tree) \subseteq tree.prefix - 1 .. tree.end - 1
  <2> SUFFICES ASSUME NEW i \in Candidates(tree) PROVE i \in tree.prefix - 1 .. tree.end - 1
    OBVIOUS
  <2>1. i \in 0 .. tree.end - 1 /\ tree.node[i].st = 15
    BY DEF Candidates, WithStatus, Live, kCandidate
  <2>2. \A j \in 0 .. tree.prefix - 2 : tree.node[j].st = 0
    BY <1>2 DEF Grown, kPrompt
  <2>3. i \notin 0 .. tree.prefix - 2
    BY <2>1, <2>2
  <2> QED
    BY <1>3, <2>1, <2>3
<1>6. Candidates(tree) \subseteq Slots
  BY <1>3, <1>5 DEF Slots
<1>7. C \subseteq Candidates(tree) /\ C # {}
  BY <1>1, <1>4, <1>6, TopBeamsSize, TopBeamsSome
<1>8. C \subseteq tree.prefix - 1 .. tree.end - 1 /\ C \subseteq 0 .. tree.end - 1 /\ C \subseteq Slots
  <2>1. C \subseteq tree.prefix - 1 .. tree.end - 1
    BY <1>5, <1>7
  <2>2. C \subseteq 0 .. tree.end - 1
    BY <1>3, <2>1
  <2> QED
    BY <1>3, <2>1, <2>2
<1>9. KvTyped(kv1)
  <2>1. KvTyped(kv0)
    BY <1>2, <1>7, <1>8, EngineTyped DEF kv0
  <2>2. \A i \in C : tree.node[i].tok \in Tok
    BY <1>2, <1>8 DEF Grown
  <2>3. \A s \in DOMAIN rows : rows[s] \in Cells
    BY <1>4, <1>8, <2>2, RowsTyped DEF rows
  <2> QED
    BY <2>1, <2>3, DecodeTyped DEF kv1
<1>10. /\ Grown(t1, tree.prefix, tree.end, tree.end)
       /\ Marked(tree, C, kProcessed, t1)
       /\ SameRows(tree, t1, MaxLen)
  BY <1>2, <1>8, GrownMark DEF t1
<1>11. t1.prefix = tree.prefix /\ t1.end = tree.end
  BY <1>10 DEF Marked
<1>12. \A i \in 0 .. tree.prefix - 1 : t1.node[i].tok = tree.node[i].tok
  <2>1. \A i \in 0 .. tree.prefix - 1 : i \in 0 .. MaxLen - 1
    BY <1>3
  <2> QED
    BY <1>10, <2>1 DEF SameRows
<1>13. ASSUME NEW why \in {"decode", "seqs", "max_len"}, Die(why) PROVE IInv' /\ Still
  <2>1. bet.st # "drafting"
    BY <1>2
  <2> QED
    BY <1>13, <2>1, DieIInv
<1>15. ASSUME NEW top \in [C -> TopKRows],
              tree' = TrimByBudget(t1), kv' = kv1, pc' = "validate",
              UNCHANGED <<pool, level, prevHit, rpc, bet, gen, srv, cause>>
       PROVE  IInv' /\ Still
  <2> DEFINE u == TrimByBudget(t1)
  <2>0. Grown(t1, t1.prefix, t1.end, t1.end)
    BY <1>10, <1>11
  <2>1. /\ Grown(u, t1.prefix, u.end, u.end)
        /\ u.prefix = t1.prefix /\ u.end - t1.prefix <= Budget
        /\ \A i \in 0 .. t1.prefix - 1 : u.node[i] = t1.node[i]
    BY <2>0, GrownTrim
  <2> HIDE DEF u
  <2>2. tree' = u
    BY <1>15 DEF u
  <2>3. /\ Grown(tree', tree.prefix, tree'.end, tree'.end) /\ tree'.prefix = tree.prefix
        /\ tree'.end - tree'.prefix <= Budget
        /\ \A i \in 0 .. tree.prefix - 1 : tree'.node[i].tok = tree.node[i].tok
    BY <1>11, <1>12, <2>1, <2>2
  <2>4. KvTyped(kv') /\ pool' \in Pool /\ level' \in 0 .. BeamLen + ProLen
    BY <1>2, <1>9, <1>15
  <2> QED
    BY <1>1, <1>15, <2>3, <2>4, RoundIInv
<1>16. ASSUME NEW top \in [C -> TopKRows],
              ~(Cardinality(forks(top)) > Cardinality(FreeSeqs(pool))), AddOk(t1, kids(top)),
              tree' = Add(t1, kids(top)), kv' = ForkCache(kv1, t1, pool, C, Width, keep(top)),
              pool' = AfterAlloc(pool, Cardinality(forks(top))), level' = level + 1,
              UNCHANGED <<pc, prevHit, rpc, bet, gen, srv, cause>>
       PROVE  IInv' /\ Still
  <2>1. keep(top) \subseteq Flats(C, Width)
    BY GrowKeepFlats DEF keep
  <2>2. Width \in 1 .. Width /\ Width \in Nat \ {0} /\ TreeTyped(t1)
    BY <1>10, BeamAssumption DEF Grown
  <2>3. Cardinality(forks(top)) \in Nat
    <3>1. forks(top) \subseteq Flats(C, Width)
      BY <2>1 DEF forks, Forks
    <3> QED
      BY <1>8, <2>2, <3>1, FlatSets
  <2>4. Cardinality(forks(top)) <= Cardinality(FreeSeqs(pool))
    BY <1>16, <2>3, FreeSize
  <2>5. pool' \in Pool
    BY <1>2, <1>16, <2>3, <2>4, AllocTyped
  <2>6. KvTyped(kv')
    BY <1>8, <1>9, <1>16, <2>1, <2>2, ForkTyped
  <2> DEFINE u == Add(t1, kids(top))
  <2>7. Grown(u, t1.prefix, u.end, u.end) /\ u.prefix = t1.prefix /\ SameRows(t1, u, t1.end)
    <3>1. Grown(t1, t1.prefix, t1.end, t1.end) /\ C \subseteq t1.prefix - 1 .. t1.end - 1
      BY <1>8, <1>10, <1>11
    <3>2. Spent(t1, t1.prefix, t1.end, C)
      BY <1>2, <1>8, <1>11, MarkSpends DEF t1, Candidates, TopBeams, WithStatus
    <3> QED
      BY <1>2, <1>16, <2>1, <2>4, <3>1, <3>2, GrowAdds DEF kids, forks
  <2> HIDE DEF u
  <2>8. tree' = u
    BY <1>16 DEF u
  <2>9. \A i \in 0 .. tree.prefix - 1 : u.node[i].tok = tree.node[i].tok
    <3>1. \A i \in 0 .. tree.prefix - 1 : i \in 0 .. t1.end - 1
      BY <1>3, <1>11
    <3> QED
      BY <1>12, <2>7, <3>1 DEF SameRows
  <2>10. level' \in 0 .. BeamLen + ProLen
    <3>1. BeamLimit <= BeamLen /\ BeamLimit \in Int
      BY <1>4 DEF BeamLimit
    <3> QED
      BY <1>1, <1>2, <1>4, <1>16, <3>1
  <2>11. /\ Grown(tree', tree.prefix, tree'.end, tree'.end) /\ tree'.prefix = tree.prefix
         /\ \A i \in 0 .. tree.prefix - 1 : tree'.node[i].tok = tree.node[i].tok
         /\ pc' = "grow"
    BY <1>1, <1>11, <1>16, <2>7, <2>8, <2>9
  <2> QED
    BY <1>1, <1>16, <2>5, <2>6, <2>10, <2>11, RoundIInv
<1> QED
  BY <1>1a, <1>13, <1>15, <1>16

\* Leaving the loop of GrowTree keeps the invariant.
LEMMA GrowDoneIInv ==
  ASSUME IInv, GrowDone
  PROVE  IInv' /\ Still
<1>1. /\ pc = "grow" /\ tree' = TrimByBudget(tree) /\ pc' = "validate"
      /\ UNCHANGED <<kv, pool, level, prevHit, rpc, bet, gen, srv, cause>>
  BY DEF GrowDone
<1>2. /\ Grown(tree, tree.prefix, tree.end, tree.end)
      /\ KvTyped(kv) /\ pool \in Pool /\ level \in 0 .. BeamLen + ProLen
  BY <1>1, Growing
<1> DEFINE u == TrimByBudget(tree)
<1>3. /\ Grown(u, tree.prefix, u.end, u.end)
      /\ u.prefix = tree.prefix /\ u.end - tree.prefix <= Budget
      /\ \A i \in 0 .. tree.prefix - 1 : u.node[i] = tree.node[i]
  BY <1>2, GrownTrim
<1> HIDE DEF u
<1>4. tree' = u
  BY <1>1 DEF u
<1>5. /\ Grown(tree', tree.prefix, tree'.end, tree'.end) /\ tree'.prefix = tree.prefix
      /\ tree'.end - tree'.prefix <= Budget
      /\ \A i \in 0 .. tree.prefix - 1 : tree'.node[i].tok = tree.node[i].tok
  BY <1>3, <1>4
<1>6. KvTyped(kv') /\ pool' \in Pool /\ level' \in 0 .. BeamLen + ProLen
  BY <1>1, <1>2
<1> QED
  BY <1>1, <1>5, <1>6, RoundIInv

-----------------------------------------------------------------------------
(* The call *)

\* The rows of the request: the seed and every drafted node.
LEMMA InputsAreTree ==
  ASSUME NEW t, Grown(t, t.prefix, t.end, t.end)
  PROVE  /\ Targets(t) = t.prefix .. t.end - 1
         /\ t.prefix < t.end => Inputs(t) = t.prefix - 1 .. t.end - 1
<1> DEFINE c == t.prefix
           e == t.end
<1>1. /\ c \in Nat /\ e \in Nat /\ 1 <= c /\ c <= e
      /\ \A i \in c .. e - 1 : t.node[i].par \in c - 1 .. i - 1
      /\ \A i \in c - 1 .. e - 1 : t.node[i].st \in {kCandidate, kProcessed}
  BY GrownNumbers DEF Grown
<1>2. Drafted(t) = c .. e - 1
  BY DEF Drafted
<1> HIDE DEF c, e
<1>3. \A i \in c .. e - 1 : t.node[i].st \in {kCandidate, kProcessed}
  <2>1. \A i \in c .. e - 1 : i \in c - 1 .. e - 1
    BY <1>1
  <2> QED
    BY <1>1, <2>1
<1>4. \A i \in c .. e - 1 : t.node[i].st >= kProcessed /\ t.node[i].st < kPostCandidate
  BY <1>3 DEF kCandidate, kProcessed, kPostCandidate
<1>5. Targets(t) = c .. e - 1
  BY <1>2, <1>4 DEF Targets
<1>6. ASSUME c < e PROVE Inputs(t) = c - 1 .. e - 1
  <2>1. Inputs(t) = (c .. e - 1) \cup {t.node[i].par : i \in c .. e - 1}
    BY <1>5 DEF Inputs
  <2>2. \A i \in c .. e - 1 : t.node[i].par \in c - 1 .. e - 1
    <3>1. \A i \in c .. e - 1 : i \in Int /\ i <= e - 1
      BY <1>1
    <3>2. \A i \in c .. e - 1 : \A p \in c - 1 .. i - 1 : p \in c - 1 .. e - 1
      BY <1>1, <3>1
    <3> QED
      BY <1>1, <3>2
  <2>3. c \in c .. e - 1 /\ t.node[c].par = c - 1
    <3>1. c \in c .. e - 1
      BY <1>1, <1>6
    <3>2. t.node[c].par \in c - 1 .. c - 1
      BY <1>1, <3>1
    <3> QED
      BY <1>1, <3>1, <3>2
  <2>4. c - 1 \in {t.node[i].par : i \in c .. e - 1}
    BY <2>3
  <2>5. c - 1 .. e - 1 = (c .. e - 1) \cup {c - 1}
    BY <1>1, <1>6
  <2>6. c - 1 .. e - 1 \subseteq Inputs(t)
    BY <2>1, <2>4, <2>5
  <2>7. Inputs(t) \subseteq c - 1 .. e - 1
    BY <2>1, <2>2, <2>5
  <2> QED
    BY <2>6, <2>7
<1> QED
  BY <1>5, <1>6 DEF c, e

\* Building the request and starting the call keeps the invariant.
LEMMA StartValidateIInv ==
  ASSUME IInv, StartValidate
  PROVE  IInv' /\ Quiet
<1> DEFINE c == tree.prefix
           e == tree.end
           req == [i \in Inputs(tree) |-> [tok  |-> tree.node[i].tok, pos  |-> tree.node[i].pos,
                                           par  |-> tree.node[i].par, mask |-> tree.mask[i]]]
<1>1. /\ pc = "validate"
      /\ \/ Die("no_targets")
         \/ /\ Targets(tree) # {}
            /\ rpc' = [NoRpc EXCEPT !.st = "sent", !.inputs = Inputs(tree), !.req = req]
            /\ pc' = IF ProType = "disabled" THEN "join" ELSE "bet"
            /\ UNCHANGED <<tree, kv, pool, level, prevHit, bet, gen, srv, cause>>
  BY DEF StartValidate
<1>2. /\ Grown(tree, c, e, e)
      /\ rpc.st = "idle" /\ bet.st = "none" /\ CommittedLen = c /\ RoundEnd = e
  BY <1>1, Growing
<1>3. /\ c \in Nat /\ e \in Nat /\ 1 <= c /\ c <= e /\ 0 .. e - 1 \subseteq Slots
  BY <1>2, GrownNumbers
<1>4. CASE Die("no_targets")
  <2>1. bet.st # "drafting"
    BY <1>2
  <2> QED
    BY <1>4, <2>1, DieIInv DEF Still
<1>5. ASSUME Targets(tree) # {}, rpc' = [NoRpc EXCEPT !.st = "sent", !.inputs = Inputs(tree), !.req = req],
             pc' = IF ProType = "disabled" THEN "join" ELSE "bet",
             UNCHANGED <<tree, kv, pool, level, prevHit, bet, gen, srv, cause>>
      PROVE  IInv' /\ Quiet
  <2>1. c < e
    <3>1. Targets(tree) = c .. e - 1
      BY <1>2, InputsAreTree
    <3> QED
      BY <1>3, <1>5, <3>1
  <2>2. Inputs(tree) = c - 1 .. e - 1
    BY <1>2, <2>1, InputsAreTree
  <2>3. c - 1 .. e - 1 \subseteq Slots
    <3>1. c - 1 .. e - 1 \subseteq 0 .. e - 1
      BY <1>3
    <3> QED
      BY <1>3, <3>1
  <2>4. rpc' = [st |-> "sent", inputs |-> c - 1 .. e - 1, req |-> req, ctx |-> <<>>, sel |-> <<>>]
    BY <1>5, <2>2 DEF NoRpc
  <2>5. rpc'.st = "sent" /\ rpc'.inputs = c - 1 .. e - 1 /\ rpc'.req = req
    BY <2>4
  <2>6. /\ CommittedLen' = c /\ RoundEnd' = e /\ Extent' = e /\ Extent = e /\ ~Drafting' /\ bet'.st = "none"
    BY <1>2, <1>5 DEF CommittedLen, RoundEnd, Extent, Drafting
  <2>7. pc' \in {"join", "bet"}
    BY <1>5
  <2>8. Phases'
    BY <2>5, <2>6, <2>7 DEF Phases
  <2>9. Records'
    <3>1. rpc' = [st |-> rpc'.st, inputs |-> rpc'.inputs, req |-> rpc'.req, ctx |-> rpc'.ctx, sel |-> rpc'.sel]
      BY <2>4
    <3>2. rpc'.inputs \subseteq Slots
      BY <2>3, <2>5
    <3>3. bet' = bet /\ gen' = gen
      BY <1>5
    <3> QED
      BY <3>1, <3>2, <3>3 DEF IInv, Records
  <2>10. Trees' /\ Bets'
    BY <1>2, <1>5, <2>6 DEF Trees, Bets
  <2>11. Request'
    <3>1. e - c <= Budget
      BY <1>1 DEF IInv, Request
    <3>2. \A i \in rpc'.inputs : rpc'.req[i] = [tok |-> tree.node[i].tok, pos |-> tree.node[i].pos,
                                                par |-> tree.node[i].par, mask |-> tree.mask[i]]
      BY <2>2, <2>5
    <3>3. RequestStillDescribesTree'
      BY <1>5, <2>5, <2>6, <3>2 DEF RequestStillDescribesTree
    <3> QED
      BY <2>1, <2>5, <2>6, <2>7, <3>1, <3>3 DEF Request
  <2>12. Generated'
    BY <1>1, <1>2, <1>5, <2>6 DEF IInv, Generated
  <2>13. Rest'
    BY <1>5 DEF IInv, Rest
  <2>14. Quiet
    BY <1>2, <1>5, <2>6 DEF Quiet
  <2> QED
    BY <2>8, <2>9, <2>10, <2>11, <2>12, <2>13, <2>14 DEF IInv
<1> QED
  BY <1>1, <1>4, <1>5

\* The answer, or the failure, of the call touches neither tree nor bet.
LEMMA ReplyIInv ==
  ASSUME IInv, rpc.st = "sent", NEW reply \in {"answered", "failed"}, NEW context, NEW chosen,
         rpc' = [st |-> reply, inputs |-> rpc.inputs, req |-> rpc.req, ctx |-> context, sel |-> chosen],
         reply = "answered" => chosen \in [rpc.inputs -> Tok],
         UNCHANGED <<tree, kv, pool, pc, level, prevHit, bet, gen, cause>>,
         srv' \in [Slots -> Tok \cup {0}]
  PROVE  IInv' /\ Quiet
<1>1. rpc'.st = reply /\ rpc'.inputs = rpc.inputs /\ rpc'.req = rpc.req /\ rpc'.sel = chosen /\ rpc'.ctx = context
  OBVIOUS
<1>2. CommittedLen' = CommittedLen /\ RoundEnd' = RoundEnd /\ Extent' = Extent /\ Drafting' = Drafting
  BY DEF CommittedLen, RoundEnd, Extent, Drafting
<1>3. Phases'
  BY <1>1 DEF IInv, Phases
<1>4. Records'
  <2>1. rpc' = [st |-> rpc'.st, inputs |-> rpc'.inputs, req |-> rpc'.req, ctx |-> rpc'.ctx, sel |-> rpc'.sel]
    BY <1>1
  <2> QED
    BY <1>1, <2>1 DEF IInv, Records
<1>5. Trees' /\ Bets'
  BY <1>2 DEF IInv, Trees, Bets
<1>6. Request'
  <2>1. RequestStillDescribesTree'
    BY <1>1, <1>2 DEF IInv, Request, RequestStillDescribesTree
  <2> QED
    BY <1>1, <1>2, <2>1 DEF IInv, Request
<1>7. Generated' /\ Rest'
  BY <1>2 DEF IInv, Generated, Rest
<1>8. Quiet
  BY <1>2 DEF Quiet
<1> QED
  BY <1>3, <1>4, <1>5, <1>6, <1>7, <1>8 DEF IInv

\* A bounded set of numbers has a greatest.
LEMMA GreatestNat ==
  ASSUME NEW T, T \subseteq Nat, T # {}, NEW b \in Nat, \A n \in T : n <= b
  PROVE  \E m \in T : \A n \in T : n <= m
<1> DEFINE D == {b - n : n \in T}
<1>1. D \subseteq Nat /\ D # {}
  <2>1. \A n \in T : b - n \in Nat
    OBVIOUS
  <2> QED
    BY <2>1
<1>2. PICK d \in D : \A x \in D : d <= x
  BY <1>1, LeastNat
<1>3. PICK m \in T : d = b - m
  OBVIOUS
<1>4. \A n \in T : b - m <= b - n
  BY <1>2, <1>3
<1>5. \A n \in T : n <= m
  BY <1>4
<1> QED
  BY <1>5

\* What is known of the rows while a call is out.
LEMMA Requested ==
  ASSUME IInv, rpc.st # "idle"
  PROVE  /\ Grown(tree, CommittedLen, RoundEnd, Extent)
         /\ CommittedLen \in Nat /\ RoundEnd \in Nat /\ Extent \in Nat
         /\ 1 <= CommittedLen /\ CommittedLen < RoundEnd /\ RoundEnd <= Extent
         /\ rpc.inputs = CommittedLen - 1 .. RoundEnd - 1
         /\ \A i \in rpc.inputs : /\ i \in 0 .. Extent - 1 /\ i \in 0 .. RoundEnd - 1 /\ i \in Slots
                                  /\ rpc.req[i].tok = tree.node[i].tok
                                  /\ rpc.req[i].pos = tree.node[i].pos
                                  /\ rpc.req[i].par = tree.node[i].par
                                  /\ rpc.req[i].mask = tree.mask[i]
                                  /\ tree.mask[i] \subseteq 0 .. i
                                  /\ 0 .. CommittedLen - 1 \subseteq tree.mask[i]
<1>1. Grown(tree, CommittedLen, RoundEnd, Extent)
  BY DEF IInv, Trees
<1>2. /\ CommittedLen \in Nat /\ RoundEnd \in Nat /\ Extent \in Nat
      /\ 1 <= CommittedLen /\ RoundEnd <= Extent /\ 0 .. Extent - 1 \subseteq Slots
  BY <1>1, GrownNumbers
<1>3. /\ CommittedLen < RoundEnd /\ rpc.inputs = CommittedLen - 1 .. RoundEnd - 1
      /\ \A i \in rpc.inputs :
           rpc.req[i] = [tok |-> tree.node[i].tok, pos |-> tree.node[i].pos,
                         par |-> tree.node[i].par, mask |-> tree.mask[i]]
  BY DEF IInv, Request, RequestStillDescribesTree
<1>4. ASSUME NEW i \in rpc.inputs
      PROVE  /\ i \in 0 .. Extent - 1 /\ i \in 0 .. RoundEnd - 1 /\ i \in Slots
             /\ tree.mask[i] \subseteq 0 .. i
             /\ 0 .. CommittedLen - 1 \subseteq tree.mask[i]
  <2>1. i \in 0 .. Extent - 1 /\ i \in 0 .. RoundEnd - 1 /\ i >= CommittedLen - 1
    BY <1>2, <1>3
  <2>2. Shaped(tree, CommittedLen, Extent)
    BY <1>1 DEF Grown
  <2>3. i \in Slots
    BY <1>2, <2>1
  <2>4. tree.mask[i] \subseteq 0 .. i
    BY <2>1, <2>2, RowBounds
  <2>5. 0 .. CommittedLen - 1 \subseteq tree.mask[i]
    BY <2>1, <2>2, RowOfChain
  <2> QED
    BY <2>1, <2>3, <2>4, <2>5
<1>5. ASSUME NEW i \in rpc.inputs
      PROVE  /\ rpc.req[i].tok = tree.node[i].tok /\ rpc.req[i].pos = tree.node[i].pos
             /\ rpc.req[i].par = tree.node[i].par /\ rpc.req[i].mask = tree.mask[i]
  <2> DEFINE row == rpc.req[i]
             n == tree.node[i]
  <2>1. row = [tok |-> n.tok, pos |-> n.pos, par |-> n.par, mask |-> tree.mask[i]]
    BY <1>3
  <2> HIDE DEF row, n
  <2>2. row.tok = n.tok /\ row.pos = n.pos /\ row.par = n.par /\ row.mask = tree.mask[i]
    BY <2>1
  <2> QED
    BY <2>2 DEF row, n
<1> QED
  BY <1>1, <1>2, <1>3, <1>4, <1>5, Zenon

\* The first row of the request is the seed.
LEMMA SeedIsFirst ==
  ASSUME IInv, rpc.st # "idle"
  PROVE  Nth(rpc.inputs, 0) = CommittedLen - 1
<1> DEFINE S == rpc.inputs
           c == CommittedLen
<1>1. c \in Nat /\ RoundEnd \in Nat /\ 1 <= c /\ c < RoundEnd /\ S = c - 1 .. RoundEnd - 1
  BY Requested
<1>2. S \subseteq Slots
  BY DEF IInv, Records
<1>3. IsFiniteSet(S) /\ S \subseteq Int
  BY <1>2, SlotSets
<1>4. c - 1 \in S
  BY <1>1
<1>5. Rank(S, c - 1) = 0
  <2>1. {j \in S : j < c - 1} = {}
    BY <1>1
  <2> QED
    BY <2>1, FS_EmptySet DEF Rank
<1>6. Nth(S, Rank(S, c - 1)) = c - 1
  BY <1>3, <1>4, NthOfRank
<1> QED
  BY <1>5, <1>6

\* The server's path is the longest of the rows it accepts; it accepts the seed.
LEMMA ServerPathRow ==
  ASSUME IInv, rpc.st # "idle", NEW sel
  PROVE  \E i \in rpc.inputs : /\ ServerAccepts(sel, i) /\ ServerPath(sel) = tree.mask[i]
                               /\ \A j \in rpc.inputs : ServerAccepts(sel, j) =>
                                    Cardinality(tree.mask[j]) <= Cardinality(tree.mask[i])
<1> DEFINE c == CommittedLen
           ok == {i \in rpc.inputs : ServerAccepts(sel, i)}
           size(i) == Cardinality(rpc.req[i].mask)
           T == {size(i) : i \in ok}
           best(i) == \A j \in ok : size(j) <= size(i)
<1>1. /\ Shaped(tree, c, Extent) /\ c \in Nat /\ RoundEnd \in Nat /\ 1 <= c /\ c < RoundEnd
      /\ rpc.inputs = c - 1 .. RoundEnd - 1
      /\ \A i \in rpc.inputs : /\ i \in 0 .. Extent - 1 /\ i \in Slots
                               /\ rpc.req[i].mask = tree.mask[i] /\ tree.mask[i] \subseteq 0 .. i
  BY Requested DEF Grown
<1>2. \A i \in rpc.inputs : size(i) \in Nat /\ size(i) <= MaxLen
  <2> SUFFICES ASSUME NEW i \in rpc.inputs PROVE size(i) \in Nat /\ size(i) <= MaxLen
    OBVIOUS
  <2>1. i \in 0 .. Extent - 1 /\ rpc.req[i].mask = tree.mask[i]
    BY <1>1
  <2>2. Cardinality(tree.mask[i]) = tree.node[i].pos + 1 /\ tree.node[i].pos \in 0 .. i
    BY <1>1, <2>1, PosIsDepth
  <2>3. i \in 0 .. MaxLen - 1 /\ MaxLen \in Nat
    BY <1>1, MaxLenAssumption DEF Slots
  <2> QED
    BY <2>1, <2>2, <2>3
<1>3. Nth(rpc.inputs, 0) = c - 1
  BY SeedIsFirst
<1>4. c - 1 \in ok
  <2>1. c - 1 \in rpc.inputs
    BY <1>1
  <2>2. rpc.req[c - 1].mask \subseteq 0 .. c - 1
    BY <1>1, <2>1
  <2>3. ServerAccepts(sel, c - 1)
    BY <1>1, <1>3, <2>2 DEF ServerAccepts
  <2> QED
    BY <2>1, <2>3
<1>5. T \subseteq Nat /\ T # {} /\ (\A n \in T : n <= MaxLen) /\ MaxLen \in Nat
  BY <1>2, <1>4, MaxLenAssumption
<1>6. \E i \in ok : best(i)
  <2>1. PICK m \in T : \A n \in T : n <= m
    BY <1>5, GreatestNat
  <2>2. PICK i \in ok : m = size(i)
    OBVIOUS
  <2> QED
    BY <2>1, <2>2
<1> DEFINE i == CHOOSE i \in ok : best(i)
<1>7. i \in ok /\ best(i)
  <2> HIDE DEF ok, best
  <2> QED
    BY <1>6
<1>8. ServerPath(sel) = rpc.req[i].mask
  BY DEF ServerPath
<1> HIDE DEF i
<1>9. i \in rpc.inputs /\ ServerAccepts(sel, i) /\ ServerPath(sel) = tree.mask[i]
  BY <1>1, <1>7, <1>8
<1>10. ASSUME NEW j \in rpc.inputs, ServerAccepts(sel, j)
       PROVE  Cardinality(tree.mask[j]) <= Cardinality(tree.mask[i])
  <2>1. size(j) <= size(i)
    BY <1>7, <1>10
  <2> QED
    BY <1>1, <1>9, <2>1
<1> QED
  BY <1>9, <1>10

\* The rows the server computes against are tokens.
LEMMA ServerCacheTyped ==
  ASSUME IInv, rpc.st # "idle"
  PROVE  ServerCache \in [Slots -> Tok \cup {0}]
<1>1. \A i \in rpc.inputs : i \in Slots /\ rpc.req[i].tok = tree.node[i].tok
  BY Requested
<1>2. TreeTyped(tree)
  BY DEF IInv, Trees, Grown
<1>3. \A s \in Slots : tree.node[s].tok \in Tok \cup {0}
  BY <1>2, NodeFields
<1>4. srv \in [Slots -> Tok \cup {0}]
  BY DEF IInv, Rest
<1> QED
  BY <1>1, <1>3, <1>4 DEF ServerCache

\* An answer of the server keeps the invariant.
LEMMA ServerAnswerIInv ==
  ASSUME IInv, ServerAnswer
  PROVE  IInv' /\ Quiet
<1>1. PICK sel \in [rpc.inputs -> Tok] :
        /\ rpc' = [rpc EXCEPT !.st = "answered", !.sel = sel,
                     !.ctx = [i \in rpc.inputs |-> ContextOf(ServerCache, rpc.req[i].mask)]]
        /\ srv' = [s \in Slots |-> IF s < Cardinality(ServerPath(sel))
                                   THEN ServerCache[Nth(ServerPath(sel), s)] ELSE 0]
  BY DEF ServerAnswer
<1>2. rpc.st = "sent" /\ UNCHANGED <<tree, kv, pool, pc, level, prevHit, bet, gen, cause>>
  BY DEF ServerAnswer
<1> DEFINE context == [i \in rpc.inputs |-> ContextOf(ServerCache, rpc.req[i].mask)]
           path == ServerPath(sel)
<1>3. rpc' = [st |-> "answered", inputs |-> rpc.inputs, req |-> rpc.req, ctx |-> context, sel |-> sel]
  <2>1. rpc = [st |-> rpc.st, inputs |-> rpc.inputs, req |-> rpc.req, ctx |-> rpc.ctx, sel |-> rpc.sel]
    BY DEF IInv, Records
  <2> HIDE DEF context
  <2>2. rpc' = [rpc EXCEPT !.st = "answered", !.sel = sel, !.ctx = context]
    BY <1>1 DEF context
  <2> QED
    BY <2>1, <2>2
<1>4. path \subseteq Slots
  <2>1. PICK i \in rpc.inputs : path = tree.mask[i]
    BY <1>2, ServerPathRow
  <2>2. i \in Slots /\ TreeTyped(tree)
    BY <1>2, Requested DEF Grown
  <2> QED
    BY <2>1, <2>2, NodeFields
<1>5. srv' \in [Slots -> Tok \cup {0}]
  <2>1. ServerCache \in [Slots -> Tok \cup {0}]
    BY <1>2, ServerCacheTyped
  <2>2. IsFiniteSet(path) /\ path \subseteq Int /\ Cardinality(path) \in Nat
    BY <1>4, SlotSets
  <2> HIDE DEF path
  <2>3. ASSUME NEW s \in Slots, s < Cardinality(path) PROVE Nth(path, s) \in Slots
    <3>1. s \in 0 .. Cardinality(path) - 1
      BY <2>2, <2>3 DEF Slots
    <3> QED
      BY <1>4, <2>2, <3>1, NthWorks
  <2>4. \A s \in Slots : (IF s < Cardinality(path) THEN ServerCache[Nth(path, s)] ELSE 0) \in Tok \cup {0}
    BY <2>1, <2>3
  <2> QED
    BY <1>1, <2>4 DEF path
<1> HIDE DEF context
<1> QED
  BY <1>2, <1>3, <1>5, ReplyIInv

\* What the oracle looks up for a row is a token.
LEMMA OracleTyped ==
  ASSUME IInv, rpc.st # "idle", NEW ref \in Seq(Tok), NEW past \in Tok
  PROVE  OracleSelection(ref, past) \in [rpc.inputs -> Tok]
<1> SUFFICES ASSUME NEW i \in rpc.inputs
             PROVE  (IF rpc.req[i].pos + 1 < Len(ref) THEN ref[rpc.req[i].pos + 1 + 1] ELSE past) \in Tok
  BY DEF OracleSelection
<1>1. rpc.req[i].pos = tree.node[i].pos /\ i \in Slots /\ TreeTyped(tree)
  BY Requested DEF Grown
<1>2. rpc.req[i].pos \in 0 .. MaxLen /\ MaxLen \in Nat
  BY <1>1, NodeFields, MaxLenAssumption
<1>3. rpc.req[i].pos + 1 < Len(ref) => rpc.req[i].pos + 1 + 1 \in 1 .. Len(ref)
  BY <1>2
<1> QED
  BY <1>3

\* An answer of the oracle keeps the invariant.
LEMMA OracleAnswerIInv ==
  ASSUME IInv, OracleAnswer
  PROVE  IInv' /\ Quiet
<1> DEFINE chosen == OracleSelection(Reference, PastEnd)
<1>1. /\ rpc.st = "sent" /\ rpc' = [rpc EXCEPT !.st = "answered", !.sel = chosen]
      /\ UNCHANGED <<tree, kv, pool, pc, level, prevHit, bet, gen, srv, cause>>
  BY DEF OracleAnswer
<1>2. chosen \in [rpc.inputs -> Tok]
  BY <1>1, OracleTyped, SpecExecAssumption
<1> HIDE DEF chosen
<1>3. rpc' = [st |-> "answered", inputs |-> rpc.inputs, req |-> rpc.req, ctx |-> rpc.ctx, sel |-> chosen]
  <2>1. rpc = [st |-> rpc.st, inputs |-> rpc.inputs, req |-> rpc.req, ctx |-> rpc.ctx, sel |-> rpc.sel]
    BY DEF IInv, Records
  <2> QED
    BY <1>1, <2>1
<1>4. srv' \in [Slots -> Tok \cup {0}]
  BY <1>1 DEF IInv, Rest
<1> QED
  BY <1>1, <1>2, <1>3, <1>4, ReplyIInv

\* A failed call keeps the invariant.
LEMMA ServerFailIInv ==
  ASSUME IInv, ServerFail
  PROVE  IInv' /\ Quiet
<1>1. /\ rpc.st = "sent" /\ rpc' = [rpc EXCEPT !.st = "failed"]
      /\ UNCHANGED <<tree, kv, pool, pc, level, prevHit, bet, gen, srv, cause>>
  BY DEF ServerFail
<1>2. rpc' = [st |-> "failed", inputs |-> rpc.inputs, req |-> rpc.req, ctx |-> rpc.ctx, sel |-> rpc.sel]
  <2>1. rpc = [st |-> rpc.st, inputs |-> rpc.inputs, req |-> rpc.req, ctx |-> rpc.ctx, sel |-> rpc.sel]
    BY DEF IInv, Records
  <2> QED
    BY <1>1, <2>1
<1>3. srv' \in [Slots -> Tok \cup {0}]
  BY <1>1 DEF IInv, Rest
<1> QED
  BY <1>1, <1>2, <1>3, ReplyIInv

\* rpc.get() rethrowing keeps the invariant.
LEMMA JoinFailedIInv ==
  ASSUME IInv, JoinFailed
  PROVE  IInv' /\ Still
<1>1. pc = "join" /\ Die("rpc")
  BY DEF JoinFailed
<1>2. bet.st # "drafting"
  BY <1>1 DEF IInv, Phases
<1> QED
  BY <1>1, <1>2, DieIInv

-----------------------------------------------------------------------------
(* The bet *)

\* The first of a finite set in a strict total order.
First(D, R) == {x \in D : \A j \in D : j # x => <<x, j>> \in R}

\* There is one.
LEMMA FirstInOrder ==
  ASSUME NEW D, IsFiniteSet(D), D # {}, NEW R,
         \A i \in D : <<i, i>> \notin R,
         \A i, j, k \in D : <<i, j>> \in R /\ <<j, k>> \in R => <<i, k>> \in R,
         \A i, j \in D : i # j => <<i, j>> \in R \/ <<j, i>> \in R
  PROVE  First(D, R) # {}
<1>1. Cardinality(D) \in Nat /\ Cardinality(D) # 0
  BY FS_CardinalityType, FS_EmptySet
<1>2. 1 \in 0 .. Cardinality(D)
  BY <1>1
<1>3. Cardinality(Leading(D, R, 1)) = 1
  BY <1>2, CountAhead
<1>4. Leading(D, R, 1) # {}
  BY <1>3, FS_EmptySet
<1>5. PICK x \in D : Cardinality({j \in D : <<j, x>> \in R}) < 1
  BY <1>4 DEF Leading
<1>6. IsFiniteSet({j \in D : <<j, x>> \in R})
  BY FS_Subset
<1>7. Cardinality({j \in D : <<j, x>> \in R}) \in Nat
  BY <1>6, FS_CardinalityType
<1>8. Cardinality({j \in D : <<j, x>> \in R}) = 0
  BY <1>5, <1>7
<1>9. {j \in D : <<j, x>> \in R} = {}
  BY <1>6, <1>8, FS_EmptySet
<1> QED
  BY <1>9 DEF First

\* Moving the tree's bounds leaves its nodes alone.
LEMMA GrownPrefix ==
  ASSUME NEW t, NEW c, NEW r, NEW e, Grown(t, c, r, e), NEW p \in 1 .. MaxLen
  PROVE  /\ Grown(SetPrefixLen(t, p), c, r, e)
         /\ SetPrefixLen(t, p).node = t.node /\ SetPrefixLen(t, p).mask = t.mask
         /\ SetPrefixLen(t, p).prefix = p /\ SetPrefixLen(t, p).end = t.end
<1> DEFINE u == SetPrefixLen(t, p)
<1>1. TreeTyped(t)
  BY DEF Grown
<1>2. TreeTyped(u) /\ u.node = t.node /\ u.mask = t.mask /\ u.prefix = p /\ u.end = t.end
  BY <1>1 DEF TreeTyped, Typed, SetPrefixLen
<1> HIDE DEF u
<1>3. Shaped(u, c, e)
  BY <1>2 DEF Grown, Shaped, Hangs
<1>4. Grown(u, c, r, e)
  BY <1>2, <1>3 DEF Grown, Apart
<1> QED
  BY <1>2, <1>4 DEF u

\* Moving the end mark of the draft changes nothing else.
LEMMA GrownEnd ==
  ASSUME NEW t, NEW c, NEW r, NEW e, Grown(t, c, r, e), NEW p \in 1 .. MaxLen
  PROVE  /\ Grown(SetEnd(t, p), c, r, e)
         /\ SetEnd(t, p).node = t.node /\ SetEnd(t, p).mask = t.mask
         /\ SetEnd(t, p).prefix = t.prefix /\ SetEnd(t, p).end = p
<1> DEFINE u == SetEnd(t, p)
<1>1. TreeTyped(t)
  BY DEF Grown
<1>2. TreeTyped(u) /\ u.node = t.node /\ u.mask = t.mask /\ u.prefix = t.prefix /\ u.end = p
  BY <1>1 DEF TreeTyped, Typed, SetEnd
<1> HIDE DEF u
<1>3. Shaped(u, c, e)
  BY <1>2 DEF Grown, Shaped, Hangs
<1>4. Grown(u, c, r, e)
  BY <1>2, <1>3 DEF Grown, Apart
<1> QED
  BY <1>2, <1>4 DEF u

\* A step of the proactive draft: nothing the round's nodes stand for changes.
LEMMA BetStepIInv ==
  ASSUME IInv, pc = "bet", UNCHANGED <<prevHit, rpc, gen, srv, cause>>,
         CommittedLen' = CommittedLen, RoundEnd' = RoundEnd,
         Grown(tree', CommittedLen, RoundEnd, Extent'), SameRows(tree, tree', RoundEnd),
         Phases', Bets',
         bet' \in [st : {"none", "drafting", "placed"}, leaf : Int, tok : Tok \cup {0}, prefix : Int,
                   end : Int, begin : Int, stop : Int, seqs : SUBSET Seqs],
         KvTyped(kv'), pool' \in Pool, level' \in 0 .. BeamLen + ProLen
  PROVE  IInv' /\ Still
<1>1. rpc.st # "idle" /\ pc' # "validate"
  BY DEF IInv, Phases
<1>2. /\ CommittedLen \in Nat /\ RoundEnd \in Nat /\ 1 <= CommittedLen /\ CommittedLen < RoundEnd
      /\ rpc.inputs = CommittedLen - 1 .. RoundEnd - 1
  BY <1>1, Requested
<1>3. Records'
  <2>1. gen' = gen /\ rpc' = rpc
    OBVIOUS
  <2> QED
    BY <2>1 DEF IInv, Records
<1>4. Trees'
  BY DEF Trees
<1>5. Request'
  <2>1. RequestStillDescribesTree'
    <3>1. \A i \in rpc.inputs : i \in 0 .. RoundEnd - 1
      BY <1>2
    <3>2. \A i \in rpc.inputs : /\ tree'.node[i].tok = tree.node[i].tok /\ tree'.node[i].pos = tree.node[i].pos
                                /\ tree'.node[i].par = tree.node[i].par /\ tree'.mask[i] = tree.mask[i]
      BY <3>1 DEF SameRows
    <3>3. \A i \in rpc.inputs :
           rpc.req[i] = [tok |-> tree.node[i].tok, pos |-> tree.node[i].pos,
                         par |-> tree.node[i].par, mask |-> tree.mask[i]]
      BY <1>1 DEF IInv, Request, RequestStillDescribesTree
    <3>4. \A i \in rpc.inputs :
           rpc.req[i] = [tok |-> tree'.node[i].tok, pos |-> tree'.node[i].pos,
                         par |-> tree'.node[i].par, mask |-> tree'.mask[i]]
      BY <3>2, <3>3
    <3> QED
      BY <1>2, <3>4 DEF RequestStillDescribesTree
  <2> QED
    BY <1>1, <2>1 DEF IInv, Request
<1>6. Generated'
  <2>1. gen.first => gen.orig = CommittedLen
    BY DEF IInv, Generated
  <2>2. ASSUME ~gen.first, NEW i \in gen.orig + gen.warm .. CommittedLen - 1
        PROVE  tree'.node[i].tok \notin Eog
    <3>1. tree.node[i].tok \notin Eog
      BY <2>2 DEF IInv, Generated
    <3>2. gen.orig \in Nat /\ gen.warm \in Nat
      BY MaxLenAssumption DEF IInv, Records
    <3>3. i \in 0 .. RoundEnd - 1
      BY <1>2, <3>2
    <3> QED
      BY <3>1, <3>3 DEF SameRows
  <2> QED
    BY <2>1, <2>2 DEF Generated
<1>7. Rest'
  BY DEF IInv, Rest
<1>8. Still
  <2>1. \A i \in 0 .. CommittedLen - 1 : i \in 0 .. RoundEnd - 1
    BY <1>2
  <2> QED
    BY <2>1 DEF Still, Quiet, SameRows
<1> QED
  BY <1>3, <1>4, <1>5, <1>6, <1>7, <1>8 DEF IInv

\* However the draft ends without a bet.
LEMMA NoBetIInv ==
  ASSUME IInv, pc = "bet", NEW t, NEW kvp, NEW poolp, NoBetPlaced(t, kvp, poolp),
         t.prefix = CommittedLen, t.end = RoundEnd,
         Grown(t, CommittedLen, RoundEnd, RoundEnd), SameRows(tree, t, RoundEnd),
         KvTyped(kvp), poolp \in Pool
  PROVE  IInv' /\ Still
<1>1. /\ tree' = t /\ kv' = kvp /\ pool' = poolp /\ pc' = "join" /\ bet' = NoBet
      /\ UNCHANGED <<level, prevHit, rpc, gen, srv, cause>>
  BY DEF NoBetPlaced
<1>2. bet'.st = "none" /\ bet' \in [st : {"none", "drafting", "placed"}, leaf : Int, tok : Tok \cup {0}, prefix : Int,
                   end : Int, begin : Int, stop : Int, seqs : SUBSET Seqs]
  BY <1>1 DEF NoBet
<1>3. CommittedLen' = CommittedLen /\ RoundEnd' = RoundEnd /\ Extent' = RoundEnd /\ ~Drafting'
  BY <1>1, <1>2 DEF CommittedLen, RoundEnd, Extent, Drafting
<1>4. rpc.st # "idle" /\ rpc.st \in {"idle", "sent", "answered", "failed"}
  BY DEF IInv, Phases
<1>5. Phases' /\ Bets'
  BY <1>1, <1>2, <1>3, <1>4 DEF Phases, Bets
<1>6. level' \in 0 .. BeamLen + ProLen
  BY <1>1 DEF IInv, Rest
<1> QED
  BY <1>1, <1>2, <1>3, <1>5, <1>6, BetStepIInv

\* Preparing scratch sequences for the frontier's leaves leaves a cache.
LEMMA ScratchTyped ==
  ASSUME KvTyped(kv), NEW t, TreeTyped(t), NEW leaves, NEW served, served \subseteq Slots
  PROVE  KvTyped(ScratchCache(t, leaves, served))
<1> DEFINE D == Seqs \cup {CommittedSeq}
           at(s) == CHOOSE l \in served : ScratchSeq(t, leaves, l) = s
           cut(s) == SeqRm(SeqCp(kv, t.node[t.node[at(s)].par].seq, s), s, t.node[at(s)].pos)[s]
           hit(s) == \E m \in served : ScratchSeq(t, leaves, m) = s
<1>1. DOMAIN kv = D /\ kv \in [D -> SUBSET Cells]
  BY DEF KvTyped
<1>2. ASSUME NEW s \in D, hit(s) PROVE cut(s) \subseteq Cells
  <2> DEFINE l == at(s)
             q == t.node[t.node[l].par].seq
  <2>1. l \in served
    <3> HIDE DEF D
    <3> QED
      BY <1>2
  <2> HIDE DEF l
  <2>2. l \in Slots /\ t.node[l].par \in Slots
    BY <2>1, NodeFields
  <2>3. q \in D
    BY <2>2, NodeFields
  <2> HIDE DEF q, D
  <2>4. SeqCp(kv, q, s) \in [D -> SUBSET Cells]
    BY <1>1, <2>3 DEF SeqCp
  <2>5. \A p0 : SeqRm(SeqCp(kv, q, s), s, p0)[s] \subseteq Cells
    BY <2>4 DEF SeqRm
  <2> QED
    BY <2>5 DEF q, l
<1>3. ScratchCache(t, leaves, served) = [s \in DOMAIN kv |-> IF hit(s) THEN cut(s) ELSE kv[s]]
  BY DEF ScratchCache
<1> HIDE DEF hit, cut, D
<1>4. ScratchCache(t, leaves, served) \in [D -> SUBSET Cells]
  BY <1>1, <1>2, <1>3
<1> QED
  BY <1>4 DEF KvTyped, D

\* The rows that score the frontier's leaves are cells.
LEMMA LeafRowsTyped ==
  ASSUME NEW t, TreeTyped(t), NEW leaves, leaves \subseteq Slots, \A l \in leaves : t.node[l].tok \in Tok
  PROVE  \A s \in DOMAIN LeafRows(t, leaves) : LeafRows(t, leaves)[s] \in Cells
<1> DEFINE seqOf(l) == IF l \in Rescored(t, leaves) THEN ScratchSeq(t, leaves, l) ELSE t.node[l].seq
           at(s) == CHOOSE m \in leaves : seqOf(m) = s
<1>1. LeafRows(t, leaves) = [s \in {seqOf(l) : l \in leaves} |-> Cell(t.node[at(s)].pos, t.node[at(s)].tok)]
  BY DEF LeafRows
<1> HIDE DEF seqOf
<1>2. ASSUME NEW s \in {seqOf(l) : l \in leaves} PROVE Cell(t.node[at(s)].pos, t.node[at(s)].tok) \in Cells
  <2> DEFINE m == at(s)
  <2>1. m \in leaves
    <3>1. \E l \in leaves : seqOf(l) = s
      OBVIOUS
    <3> QED
      BY <3>1
  <2> HIDE DEF m
  <2>2. t.node[m].pos \in 0 .. MaxLen /\ t.node[m].tok \in Tok
    BY <2>1, NodeFields
  <2> QED
    BY <2>2 DEF Cells, Cell, m
<1> HIDE DEF at
<1> QED
  BY <1>1, <1>2

\* Scratch sequences go to the first of the leaves that need one, as far as
\* they reach.
LEMMA ServedFit ==
  ASSUME NEW S, S \subseteq Int, IsFiniteSet(S), NEW n \in Nat
  PROVE  /\ {l \in S : Rank(S, l) < n} \subseteq S
         /\ Cardinality({l \in S : Rank(S, l) < n}) \in Nat
         /\ Cardinality({l \in S : Rank(S, l) < n}) <= n
<1> DEFINE U == {l \in S : Rank(S, l) < n}
           f == [l \in U |-> Rank(S, l)]
<1>1. IsFiniteSet(U) /\ Cardinality(U) \in Nat /\ U \subseteq S
  <2>1. U \subseteq S
    OBVIOUS
  <2> HIDE DEF U
  <2> QED
    BY <2>1, FS_Subset, FS_CardinalityType
<1>2. IsFiniteSet(0 .. n - 1) /\ Cardinality(0 .. n - 1) = n
  BY FirstNumbers
<1>3. f \in [U -> 0 .. n - 1]
  <2>1. \A l \in U : Rank(S, l) \in 0 .. n - 1
    <3> SUFFICES ASSUME NEW l \in U PROVE Rank(S, l) \in 0 .. n - 1
      OBVIOUS
    <3>1. l \in Int /\ Rank(S, l) < n
      BY <1>1
    <3>2. Rank(S, l) \in 0 .. Cardinality(S)
      BY <1>1, <3>1, RankRange
    <3> QED
      BY <3>1, <3>2
  <2> QED
    BY <2>1
<1>4. \A a, b \in U : f[a] = f[b] => a = b
  <2> SUFFICES ASSUME NEW a \in U, NEW b \in U, f[a] = f[b] PROVE a = b
    OBVIOUS
  <2>1. Rank(S, a) = Rank(S, b) /\ a \in S /\ b \in S
    OBVIOUS
  <2>2. Nth(S, Rank(S, a)) = a /\ Nth(S, Rank(S, b)) = b
    BY <1>1, <2>1, NthOfRank
  <2> QED
    BY <2>1, <2>2
<1> HIDE DEF f, U
<1>5. f \in Injection(U, 0 .. n - 1)
  BY <1>3, <1>4, Zenon DEF Injection, IsInjective
<1>6. Cardinality(U) <= Cardinality(0 .. n - 1)
  BY <1>1, <1>2, <1>5, FS_Injection DEF ExistsInjection
<1>7. Cardinality(U) <= n
  BY <1>2, <1>6
<1> QED
  BY <1>1, <1>7 DEF U

\* The leaf that is bet on is one of the leaves scored.
LEMMA BestLeafIn ==
  ASSUME NEW t, TreeTyped(t), NEW leaves, leaves \subseteq Slots, leaves # {}, NEW top \in [leaves -> TopKRows]
  PROVE  /\ BestLeaf(t, leaves, top) \in leaves
         /\ \A l \in leaves : top[l][1].tok \in Tok
<1> DEFINE sc(l) == t.node[l].lp - top[l][1].cost
           R == {ml \in leaves \X leaves : sc(ml[2]) < sc(ml[1]) \/ (sc(ml[2]) = sc(ml[1]) /\ ml[1] < ml[2])}
<1>1. IsFiniteSet(leaves) /\ leaves \subseteq Int
  BY SlotSets
<1>2. ASSUME NEW l \in leaves PROVE sc(l) \in Int /\ top[l][1].tok \in Tok
  <2>1. 1 \in 1 .. Width
    BY BeamAssumption
  <2>2. top[l] \in [1 .. Width -> [tok : DraftTok, cost : Costs]]
    BY DEF TopKRows
  <2>3. top[l][1].tok \in DraftTok /\ top[l][1].cost \in Costs
    BY <2>1, <2>2
  <2>4. top[l][1].tok \in Tok /\ top[l][1].cost \in Nat \ {0}
    BY <2>3, BeamAssumption, Zenon
  <2>5. t.node[l].lp \in Int
    BY NodeFields
  <2> QED
    BY <2>4, <2>5
<1>3. \A x, y \in leaves : <<x, y>> \in R <=> sc(y) < sc(x) \/ (sc(y) = sc(x) /\ x < y)
  OBVIOUS
<1>4. BestLeaf(t, leaves, top)
        = CHOOSE l \in leaves : \A m \in leaves : sc(m) < sc(l) \/ (sc(m) = sc(l) /\ l <= m)
  BY DEF BestLeaf
<1> HIDE DEF sc, R
<1>5. \A i \in leaves : <<i, i>> \notin R
  BY <1>1, <1>2, <1>3
<1>6. \A i, j, k \in leaves : <<i, j>> \in R /\ <<j, k>> \in R => <<i, k>> \in R
  BY <1>1, <1>2, <1>3
<1>7. \A i, j \in leaves : i # j => <<i, j>> \in R \/ <<j, i>> \in R
  BY <1>1, <1>2, <1>3
<1>8. PICK x \in leaves : \A j \in leaves : j # x => <<x, j>> \in R
  <2>1. First(leaves, R) # {}
    BY <1>1, <1>5, <1>6, <1>7, FirstInOrder
  <2> QED
    BY <2>1 DEF First
<1>9. \A m \in leaves : sc(m) < sc(x) \/ (sc(m) = sc(x) /\ x <= m)
  <2> SUFFICES ASSUME NEW m \in leaves PROVE sc(m) < sc(x) \/ (sc(m) = sc(x) /\ x <= m)
    OBVIOUS
  <2>1. m = x \/ sc(m) < sc(x) \/ (sc(m) = sc(x) /\ x < m)
    BY <1>3, <1>8
  <2>2. m \in Int /\ x \in Int /\ sc(m) \in Int /\ sc(x) \in Int
    BY <1>1, <1>2
  <2> QED
    BY <2>1, <2>2
<1>10. BestLeaf(t, leaves, top) \in leaves
  BY <1>4, <1>9
<1> QED
  BY <1>2, <1>10

\* Before the bet is chosen the tree is the round's.
LEMMA Choosing ==
  ASSUME IInv, pc = "bet", bet.st = "none"
  PROVE  /\ Grown(tree, tree.prefix, tree.end, tree.end)
         /\ CommittedLen = tree.prefix /\ RoundEnd = tree.end /\ Extent = tree.end
         /\ KvTyped(kv) /\ pool \in Pool /\ rpc.st # "idle"
<1>1. CommittedLen = tree.prefix /\ RoundEnd = tree.end /\ Extent = tree.end
  BY DEF CommittedLen, RoundEnd, Extent, Drafting
<1> QED
  BY <1>1 DEF IInv, Trees, Rest, Phases

\* The guessed bonus token, hung off a leaf of the round.
LEMMA BetAdds ==
  ASSUME NEW t, NEW c, Grown(t, c, t.end, t.end), MaxLen - t.end >= 2,
         NEW kid \in NodeRec(Tok \cup {0}, Seqs), kid.tok \in Tok, kid.par \in c .. t.end - 1,
         kid.pos = t.node[kid.par].pos + 1, kid.st = kPostCandidate, Spent(t, c, t.end, {kid.par})
  PROVE  /\ Grown(Add(SetPrefixLen(t, t.end), <<kid>>), c, t.end, t.end + 1)
         /\ Add(SetPrefixLen(t, t.end), <<kid>>).prefix = t.end
         /\ Add(SetPrefixLen(t, t.end), <<kid>>).end = t.end + 1
         /\ Add(SetPrefixLen(t, t.end), <<kid>>).node[t.end] = kid
         /\ SameRows(t, Add(SetPrefixLen(t, t.end), <<kid>>), t.end)
<1> DEFINE e == t.end
           v == SetPrefixLen(t, e)
           kids == <<kid>>
           u == Add(v, kids)
<1>1. /\ MaxLen \in Nat /\ c \in Nat /\ e \in Nat /\ 1 <= c /\ c <= e /\ e <= MaxLen
  BY GrownNumbers
<1>2. e \in 1 .. MaxLen
  BY <1>1
<1>3. Grown(v, c, e, e) /\ v.node = t.node /\ v.mask = t.mask /\ v.prefix = e /\ v.end = e
  BY <1>2, GrownPrefix
<1> DEFINE X == NodeRec(Tok \cup {0}, Seqs)
<1>4. kids \in Seq(X) /\ Len(kids) = 1 /\ kids[1] = kid
  <2>1. kid \in X
    OBVIOUS
  <2> HIDE DEF X
  <2> QED
    BY <2>1
<1> HIDE DEF v, kids, e, X
<1>5. /\ Len(kids) <= MaxLen - v.end
      /\ \A k \in 1 .. Len(kids) : /\ kids[k].tok \in Tok
                                   /\ kids[k].par \in c - 1 .. v.end - 1
                                   /\ kids[k].pos = v.node[kids[k].par].pos + 1
      /\ e = v.end /\ kids[1].st \in {kPostCandidate, kPostProcessed}
  <2>1. \A k \in 1 .. Len(kids) : k = 1
    BY <1>4
  <2>2. c .. e - 1 \subseteq c - 1 .. e - 1
    BY <1>1
  <2>3. kid.par \in c .. e - 1 /\ MaxLen - e >= 2
    BY DEF e
  <2>4. Len(kids) <= MaxLen - v.end
    BY <1>1, <1>3, <1>4, <2>3
  <2> QED
    BY <1>3, <1>4, <2>1, <2>2, <2>3, <2>4
<1>6. Grown(u, c, e, v.end + Len(kids)) /\ Added(v, kids, u) /\ SameRows(v, u, v.end)
  <2>1. Grown(v, c, e, v.end) /\ kids \in Seq(NodeRec(Tok \cup {0}, Seqs)) /\ Len(kids) = 1 /\ e = v.end
    BY <1>3, <1>4 DEF X
  <2>2. Siblings(kids)
    BY <1>4 DEF Siblings
  <2>3. Spent(v, c, v.end, {kid.par}) /\ \A k \in 1 .. Len(kids) : kids[k].par \in {kid.par}
    BY <1>3, <1>4 DEF Spent, e
  <2> HIDE DEF u
  <2> QED
    BY <1>5, <2>1, <2>2, <2>3, GrownAdd DEF u
<1> HIDE DEF u
<1>7. Grown(u, c, e, e + 1) /\ u.prefix = e /\ u.end = e + 1
  BY <1>3, <1>4, <1>6 DEF Added
<1>8. u.node[e] = kid
  <2>1. v.end \in v.end .. v.end + Len(kids) - 1 /\ v.end - v.end + 1 = 1
    BY <1>1, <1>3, <1>4
  <2> QED
    BY <1>3, <1>4, <1>6, <2>1 DEF Added
<1>9. SameRows(t, u, e)
  BY <1>3, <1>6 DEF SameRows
<1> QED
  BY <1>7, <1>8, <1>9 DEF u, v, kids, e

\* Draft up to its loop keeps the invariant, whether it bets, declines or throws.
LEMMA ChooseBetIInv ==
  ASSUME IInv, ChooseBet
  PROVE  IInv' /\ Still
<1>0. PICK leaves \in {FrontierLeaves(tree)} :
     LET again  == Rescored(tree, leaves)
         free   == Cardinality(FreeSeqs(pool))
         served == {l \in again : Rank(again, l) < free}
         kv1    == ScratchCache(tree, leaves, served)
         pool1  == AfterAlloc(pool, Cardinality(served))
         rows   == LeafRows(tree, leaves)
     IN IF MaxLen - tree.end < 2 \/ leaves = {}
        THEN NoBetPlaced(tree, kv, pool)
        ELSE IF Cardinality(again) > free \/ ~DecodeOk(kv1, rows)
        THEN NoBetPlaced(tree, kv1, pool1)
        ELSE \E top \in [leaves -> TopKRows] :
          LET kv2  == Decode(kv1, rows)
              t1   == SetStatus(tree, leaves, kProcessed)
              leaf == BestLeaf(tree, leaves, top)
              root == AllocNth(pool1, 0)
              kid  == [tok |-> top[leaf][1].tok,
                       pos |-> tree.node[leaf].pos + 1,
                       par |-> leaf,
                       st  |-> kPostCandidate,
                       lp  |-> 0,
                       seq |-> root]
          IN IF FreeSeqs(pool1) = {} THEN NoBetPlaced(t1, kv2, pool1)
             ELSE /\ tree' = Add(SetPrefixLen(t1, tree.end), <<kid>>)
                  /\ kv' = SeqCp(kv2, tree.node[leaf].seq, root)
                  /\ pool' = AfterAlloc(pool1, 1)
                  /\ bet' = [NoBet EXCEPT !.st = "drafting",
                               !.leaf = leaf, !.tok = kid.tok,
                               !.prefix = tree.prefix, !.end = tree.end]
                  /\ level' = 0
                  /\ UNCHANGED <<pc, prevHit, rpc, gen, srv, cause>>
  BY DEF ChooseBet
<1> DEFINE again  == Rescored(tree, leaves)
           free   == Cardinality(FreeSeqs(pool))
           served == {l \in again : Rank(again, l) < free}
           kv1    == ScratchCache(tree, leaves, served)
           pool1  == AfterAlloc(pool, Cardinality(served))
           rows   == LeafRows(tree, leaves)
           kv2  == Decode(kv1, rows)
           t1   == SetStatus(tree, leaves, kProcessed)
           leaf(top) == BestLeaf(tree, leaves, top)
           root == AllocNth(pool1, 0)
           kid(top)  == [tok |-> top[leaf(top)][1].tok,
                         pos |-> tree.node[leaf(top)].pos + 1,
                         par |-> leaf(top),
                         st  |-> kPostCandidate,
                         lp  |-> 0,
                         seq |-> root]
<1>1. pc = "bet" /\ bet.st = "none" /\ leaves = FrontierLeaves(tree)
  BY DEF ChooseBet
<1>2. \/ NoBetPlaced(tree, kv, pool)
      \/ NoBetPlaced(tree, kv1, pool1)
      \/ NoBetPlaced(t1, kv2, pool1)
      \/ /\ ~(MaxLen - tree.end < 2) /\ leaves # {} /\ FreeSeqs(pool1) # {}
         /\ \E top \in [leaves -> TopKRows] :
              /\ tree' = Add(SetPrefixLen(t1, tree.end), <<kid(top)>>)
              /\ kv' = SeqCp(kv2, tree.node[leaf(top)].seq, root)
              /\ pool' = AfterAlloc(pool1, 1)
              /\ bet' = [NoBet EXCEPT !.st = "drafting",
                           !.leaf = leaf(top), !.tok = kid(top).tok,
                           !.prefix = tree.prefix, !.end = tree.end]
              /\ level' = 0
              /\ UNCHANGED <<pc, prevHit, rpc, gen, srv, cause>>
  BY <1>0
<1> HIDE DEF kv1, pool1, rows, kv2, t1, leaf, root, kid, served, free, again
<1>3. /\ Grown(tree, tree.prefix, tree.end, tree.end)
      /\ CommittedLen = tree.prefix /\ RoundEnd = tree.end /\ Extent = tree.end
      /\ KvTyped(kv) /\ pool \in Pool /\ rpc.st # "idle"
  BY <1>1, Choosing
<1>4. /\ MaxLen \in Nat /\ tree.prefix \in Nat /\ tree.end \in Nat
      /\ 1 <= tree.prefix /\ tree.prefix <= tree.end /\ tree.end <= MaxLen
      /\ 0 .. tree.end - 1 \subseteq Slots
      /\ \A i \in 0 .. tree.end - 1 : tree.node[i].pos \in 0 .. i /\ tree.node[i].pos < MaxLen
      /\ TreeTyped(tree)
      /\ \A i \in 0 .. tree.end - 1 : tree.node[i].tok \in Tok
  BY <1>3, GrownNumbers DEF Grown
<1>5. leaves \subseteq tree.prefix .. tree.end - 1
  BY <1>1 DEF FrontierLeaves, TopBeams, Drafted
<1>6. /\ leaves \subseteq 0 .. tree.end - 1 /\ leaves \subseteq Slots
      /\ leaves \subseteq tree.prefix - 1 .. tree.end - 1
  <2>1. leaves \subseteq 0 .. tree.end - 1 /\ leaves \subseteq tree.prefix - 1 .. tree.end - 1
    BY <1>4, <1>5
  <2> QED
    BY <1>4, <2>1
<1>7. again \subseteq Slots /\ free \in Nat /\ IsFiniteSet(again) /\ again \subseteq Int
  <2>1. again \subseteq Slots /\ free \in Nat
    BY <1>6, FreeSize DEF again, free, Rescored, WithStatus
  <2> QED
    BY <2>1, SlotSets
<1>8. served \subseteq again /\ Cardinality(served) \in Nat /\ Cardinality(served) <= free
  BY <1>7, ServedFit DEF served
<1>9. pool1 \in Pool
  BY <1>3, <1>8, AllocTyped DEF pool1, free
<1>10. KvTyped(kv1)
  BY <1>3, <1>4, <1>7, <1>8, ScratchTyped DEF kv1
<1>11. KvTyped(kv2)
  <2>1. \A s \in DOMAIN rows : rows[s] \in Cells
    BY <1>4, <1>6, LeafRowsTyped DEF rows
  <2> QED
    BY <1>10, <2>1, DecodeTyped DEF kv2
<1>12. /\ Grown(t1, tree.prefix, tree.end, tree.end)
       /\ Marked(tree, leaves, kProcessed, t1) /\ SameRows(tree, t1, MaxLen)
  BY <1>3, <1>6, GrownMark DEF t1
<1>13. t1.prefix = tree.prefix /\ t1.end = tree.end
  BY <1>12 DEF Marked
<1>14. SameRows(tree, t1, tree.end) /\ SameRows(tree, tree, tree.end)
  <2>1. \A i \in 0 .. tree.end - 1 : i \in 0 .. MaxLen - 1
    BY <1>4
  <2> QED
    BY <1>12, <2>1 DEF SameRows
<1>15. CASE NoBetPlaced(tree, kv, pool)
  BY <1>1, <1>3, <1>14, <1>15, NoBetIInv
<1>16. CASE NoBetPlaced(tree, kv1, pool1)
  BY <1>1, <1>3, <1>9, <1>10, <1>14, <1>16, NoBetIInv
<1>17. CASE NoBetPlaced(t1, kv2, pool1)
  BY <1>1, <1>3, <1>9, <1>11, <1>12, <1>13, <1>14, <1>17, NoBetIInv
<1>18. ASSUME ~(MaxLen - tree.end < 2), leaves # {}, FreeSeqs(pool1) # {}, NEW top \in [leaves -> TopKRows],
              tree' = Add(SetPrefixLen(t1, tree.end), <<kid(top)>>),
              kv' = SeqCp(kv2, tree.node[leaf(top)].seq, root),
              pool' = AfterAlloc(pool1, 1),
              bet' = [NoBet EXCEPT !.st = "drafting",
                        !.leaf = leaf(top), !.tok = kid(top).tok,
                        !.prefix = tree.prefix, !.end = tree.end],
              level' = 0,
              UNCHANGED <<pc, prevHit, rpc, gen, srv, cause>>
       PROVE  IInv' /\ Still
  <2> DEFINE l == leaf(top)
             k == kid(top)
             e == tree.end
             c == tree.prefix
  <2>1. l \in leaves /\ top[l][1].tok \in Tok
    BY <1>4, <1>6, <1>18, BestLeafIn DEF leaf
  <2>2. root \in Seqs /\ 1 <= Cardinality(FreeSeqs(pool1))
    <3>1. FreeSeqs(pool1) \subseteq Seqs /\ IsFiniteSet(FreeSeqs(pool1)) /\ Cardinality(FreeSeqs(pool1)) \in Nat
      BY FreeSize
    <3>2. Cardinality(FreeSeqs(pool1)) # 0
      BY <1>18, <3>1, FS_EmptySet
    <3>3. 0 \in Nat /\ 0 < Cardinality(FreeSeqs(pool1)) /\ 1 <= Cardinality(FreeSeqs(pool1))
      BY <3>1, <3>2
    <3> QED
      BY <1>9, <3>1, <3>3, AllocFree DEF root
  <2>3. l \in c .. e - 1 /\ l \in 0 .. e - 1 /\ l \in Slots
    BY <1>5, <1>6, <2>1
  <2>4. tree.node[l].pos + 1 \in 0 .. MaxLen
    BY <1>4, <2>3
  <2>5. k = [tok |-> top[l][1].tok, pos |-> tree.node[l].pos + 1, par |-> l, st |-> kPostCandidate,
             lp |-> 0, seq |-> root]
    BY DEF kid
  <2> HIDE DEF l, k, c, e
  <2>6. /\ k \in NodeRec(Tok \cup {0}, Seqs) /\ k.tok \in Tok /\ k.par = l /\ k.st = kPostCandidate
        /\ k.pos = tree.node[l].pos + 1
    BY <2>1, <2>2, <2>3, <2>4, <2>5 DEF NodeRec, Status
  <2>7. t1.node[l].pos = tree.node[l].pos
    BY <1>14, <2>3 DEF SameRows, e
  <2> DEFINE u == Add(SetPrefixLen(t1, t1.end), <<k>>)
  <2>8. Grown(u, c, e, e + 1) /\ u.prefix = e /\ u.end = e + 1 /\ u.node[e] = k /\ SameRows(t1, u, e)
    <3>1. Grown(t1, c, t1.end, t1.end) /\ MaxLen - t1.end >= 2 /\ t1.end = e
      BY <1>4, <1>12, <1>13, <1>18 DEF c, e
    <3>2. k.par \in c .. t1.end - 1 /\ k.pos = t1.node[k.par].pos + 1
      BY <2>3, <2>6, <2>7, <3>1
    <3>3. \A i \in tree.prefix .. tree.end - 1, x \in leaves : tree.node[i].par # x
      <4>1. \A i \in tree.prefix .. tree.end - 1 : i \in Live(tree)
        BY <1>4 DEF Live
      <4> QED
        BY <1>1, <4>1 DEF FrontierLeaves, TopBeams
    <3>4. Spent(t1, tree.prefix, tree.end, leaves)
      BY <1>3, <1>6, <3>3, MarkSpends DEF t1
    <3>5. Spent(t1, c, t1.end, {k.par})
      BY <2>1, <2>6, <3>1, <3>4 DEF Spent, c, e, l
    <3> HIDE DEF u
    <3> QED
      BY <2>6, <3>1, <3>2, <3>5, BetAdds DEF u
  <2>9. tree' = u
    BY <1>13, <1>18 DEF k
  <2> HIDE DEF u
  <2>10. bet' = [st |-> "drafting", leaf |-> l, tok |-> k.tok, prefix |-> c, end |-> e,
                 begin |-> 0, stop |-> 0, seqs |-> {}]
    BY <1>18 DEF NoBet, l, k, c, e
  <2>11. bet'.st = "drafting" /\ bet'.leaf = l /\ bet'.tok = k.tok /\ bet'.prefix = c /\ bet'.end = e
    BY <2>10
  <2>12. bet' \in [st : {"none", "drafting", "placed"}, leaf : Int, tok : Tok \cup {0}, prefix : Int,
                   end : Int, begin : Int, stop : Int, seqs : SUBSET Seqs]
    BY <1>4, <2>3, <2>6, <2>10 DEF c, e
  <2>13. CommittedLen' = c /\ RoundEnd' = e /\ Extent' = e + 1 /\ Drafting'
    BY <2>8, <2>9, <2>11 DEF CommittedLen, RoundEnd, Extent, Drafting
  <2>14. CommittedLen = c /\ RoundEnd = e
    BY <1>3 DEF c, e
  <2>15. SameRows(tree, tree', e)
    <3>1. SameRows(tree, t1, e)
      BY <1>14 DEF e
    <3> QED
      BY <2>8, <2>9, <3>1 DEF SameRows
  <2>16. Phases'
    BY <1>1, <1>3, <1>18, <2>11 DEF IInv, Phases
  <2>17. Bets'
    <3>1. ProLen \in Nat \ {0} /\ e \in Nat
      BY <1>4, SpecExecAssumption DEF e
    <3>2. e < e + 1 /\ 0 < ProLen
      BY <3>1
    <3>3. tree'.prefix = e /\ tree'.end = e + 1 /\ tree'.node[e] = k /\ k.par = l
      BY <2>6, <2>8, <2>9
    <3> QED
      BY <1>18, <2>3, <2>11, <2>13, <3>2, <3>3 DEF Bets
  <2>18. KvTyped(kv')
    <3>1. tree.node[l].seq \in Seqs \cup {CommittedSeq} /\ root \in Seqs \cup {CommittedSeq}
      BY <1>4, <2>2, <2>3, NodeFields
    <3> QED
      BY <1>11, <1>18, <3>1, CopyTyped DEF l
  <2>19. pool' \in Pool
    BY <1>9, <1>18, <2>2, AllocTyped
  <2>20. level' \in 0 .. BeamLen + ProLen
    <3>1. BeamLen \in Nat /\ ProLen \in Nat
      BY SpecExecAssumption
    <3> QED
      BY <1>18, <3>1
  <2>21. Grown(tree', CommittedLen, RoundEnd, Extent') /\ SameRows(tree, tree', RoundEnd)
         /\ CommittedLen' = CommittedLen /\ RoundEnd' = RoundEnd
    BY <2>8, <2>9, <2>13, <2>14, <2>15
  <2> QED
    BY <1>1, <1>18, <2>12, <2>16, <2>17, <2>18, <2>19, <2>20, <2>21, BetStepIInv
<1> QED
  BY <1>2, <1>15, <1>16, <1>17, <1>18

\* Without the bet's subtree the round is as it was.
LEMMA GrownShrink ==
  ASSUME NEW t, NEW c, NEW r, NEW e, Grown(t, c, r, e)
  PROVE  Grown(t, c, r, r)
<1>1. /\ MaxLen \in Nat /\ c \in Nat /\ r \in Nat /\ e \in Nat
      /\ 1 <= c /\ c <= r /\ r <= e /\ e <= MaxLen
  BY GrownNumbers
<1>2. /\ \A i \in 0 .. r - 1 : i \in 0 .. e - 1
      /\ \A i \in 1 .. r - 1 : i \in 1 .. e - 1
      /\ \A i \in c .. r - 1 : i \in c .. e - 1
      /\ \A i \in r .. r - 1 : FALSE
      /\ \A i \in r + 1 .. r - 1 : FALSE
      /\ r \in c .. r /\ c \in 1 .. r /\ r \in 1 .. MaxLen
  BY <1>1
<1>3. Shaped(t, c, r)
  BY <1>2 DEF Grown, Shaped
<1> QED
  BY <1>2, <1>3 DEF Grown, Apart

\* BoundsGuard.
LEMMA RestoredGrown ==
  ASSUME NEW t, NEW r, NEW e, bet.prefix \in 1 .. MaxLen, bet.end \in 1 .. MaxLen, Grown(t, bet.prefix, r, e)
  PROVE  /\ Grown(Restored(t), bet.prefix, r, e)
         /\ Restored(t).node = t.node /\ Restored(t).mask = t.mask
         /\ Restored(t).prefix = bet.prefix /\ Restored(t).end = bet.end
<1> DEFINE v == SetEnd(t, bet.end)
<1>1. Grown(v, bet.prefix, r, e) /\ v.node = t.node /\ v.mask = t.mask /\ v.end = bet.end
  BY GrownEnd
<1>2. Restored(t) = SetPrefixLen(v, bet.prefix)
  BY DEF Restored
<1> HIDE DEF v
<1> QED
  BY <1>1, <1>2, GrownPrefix

\* The children of a bet that stay fit the tree.
LEMMA DraftKeepFits ==
  ASSUME NEW t, TreeTyped(t), NEW C, C \subseteq Slots, NEW top \in [C -> TopKRows]
  PROVE  /\ DraftKeep(t, C, top) \subseteq Flats(C, ProWidth)
         /\ Cardinality(DraftKeep(t, C, top)) <= MaxLen - t.end
<1> DEFINE joint == Cardinality(Drafted(t)) + Cardinality(Flats(C, ProWidth))
           room == MaxLen - t.end
           keep == IF joint > ProBudget THEN InBudget(t, C, ProWidth, top, ProBudget) ELSE Flats(C, ProWidth)
<1>1. ProWidth \in 1 .. Width /\ ProWidth \in Nat \ {0}
  BY SpecExecAssumption, BeamAssumption
<1>2. keep \subseteq Flats(C, ProWidth)
  BY DEF InBudget
<1>3. DraftKeep(t, C, top) = IF Cardinality(keep) > room THEN BestFlats(t, C, ProWidth, top, keep, room) ELSE keep
  BY DEF DraftKeep
<1> HIDE DEF keep
<1>4. room \in Nat
  BY MaxLenAssumption DEF TreeTyped, Typed
<1>5. Cardinality(keep) \in Nat
  BY <1>1, <1>2, FlatSets
<1> HIDE DEF room
<1>6. CASE Cardinality(keep) > room
  <2>1. room \in 0 .. Cardinality(keep)
    BY <1>4, <1>5, <1>6
  <2>2. BestFlats(t, C, ProWidth, top, keep, room) \subseteq keep
        /\ Cardinality(BestFlats(t, C, ProWidth, top, keep, room)) = room
    BY <1>1, <1>2, <2>1, BestFlatsSize
  <2>3. DraftKeep(t, C, top) = BestFlats(t, C, ProWidth, top, keep, room)
    BY <1>3, <1>6
  <2>4. Cardinality(DraftKeep(t, C, top)) = room /\ DraftKeep(t, C, top) \subseteq keep
    BY <2>2, <2>3
  <2> QED
    BY <1>2, <1>4, <2>4 DEF room
<1>7. CASE ~(Cardinality(keep) > room)
  <2>1. DraftKeep(t, C, top) = keep
    BY <1>3, <1>7
  <2>2. Cardinality(keep) <= room
    BY <1>4, <1>5, <1>7
  <2> QED
    BY <1>2, <2>1, <2>2 DEF room
<1> QED
  BY <1>6, <1>7

\* And those that find a sequence have one.
LEMMA AffordableFits ==
  ASSUME NEW C, C \subseteq Slots, NEW want, want \subseteq Flats(C, ProWidth)
  PROVE  /\ Affordable(C, want) \subseteq want
         /\ Cardinality(Forks(C, ProWidth, Affordable(C, want))) \in Nat
         /\ Cardinality(Forks(C, ProWidth, Affordable(C, want))) <= Cardinality(FreeSeqs(pool))
<1> DEFINE keep == Affordable(C, want)
           F == Forks(C, ProWidth, want)
           K == Forks(C, ProWidth, keep)
           free == Cardinality(FreeSeqs(pool))
           U == {f \in F : Rank(F, f) < free}
<1>1. ProWidth \in Nat \ {0} /\ free \in Nat
  BY SpecExecAssumption, FreeSize
<1>2. keep \subseteq want
  BY DEF Affordable
<1>3. F \subseteq Flats(C, ProWidth)
  BY DEF Forks
<1>4. IsFiniteSet(F) /\ F \subseteq Int
  BY <1>1, <1>3, FlatSets
<1>5. K \subseteq U
  <2> SUFFICES ASSUME NEW f \in K PROVE f \in U
    OBVIOUS
  <2>1. f \in keep /\ f \in F
    BY <1>2 DEF Forks
  <2>2. f <= f
    BY <1>4, <2>1
  <2>3. Rank(F, f) < free
    BY <2>1, <2>2 DEF Affordable
  <2> QED
    BY <2>1, <2>3
<1>6. U \subseteq F /\ Cardinality(U) \in Nat /\ Cardinality(U) <= free
  <2> HIDE DEF F, free
  <2> QED
    BY <1>1, <1>4, ServedFit
<1> HIDE DEF F, U, K, keep, free
<1>7. IsFiniteSet(U) /\ IsFiniteSet(K) /\ Cardinality(K) <= Cardinality(U) /\ Cardinality(K) \in Nat
  <2>1. IsFiniteSet(U)
    BY <1>4, <1>6, FS_Subset
  <2> QED
    BY <1>5, <2>1, FS_Subset, FS_CardinalityType
<1>8. Cardinality(K) <= free
  BY <1>1, <1>6, <1>7
<1> QED
  BY <1>2, <1>7, <1>8 DEF K, keep, free

\* A level of the bet's draft.
LEMMA DraftAdds ==
  ASSUME NEW t, NEW c, NEW r, Grown(t, c, r, t.end), r < t.end, NEW C, C \subseteq r .. t.end - 1,
         NEW top \in [C -> TopKRows], NEW keep, keep \subseteq Flats(C, ProWidth),
         Cardinality(keep) <= MaxLen - t.end,
         NEW po \in Pool, Cardinality(Forks(C, ProWidth, keep)) <= Cardinality(FreeSeqs(po)),
         Spent(t, c, t.end, C)
  PROVE  LET u == Add(t, Children(t, po, C, ProWidth, top, keep, kPostCandidate))
         IN /\ Grown(u, c, r, u.end) /\ u.prefix = t.prefix /\ u.end >= t.end
            /\ SameRows(t, u, t.end)
<1> DEFINE kids == Children(t, po, C, ProWidth, top, keep, kPostCandidate)
           u == Add(t, kids)
           e == t.end
<1>1. /\ MaxLen \in Nat /\ c \in Nat /\ r \in Nat /\ e \in Nat /\ 1 <= c /\ c <= r /\ e <= MaxLen
      /\ 0 .. e - 1 \subseteq Slots
      /\ \A i \in 0 .. e - 1 : t.node[i].pos \in 0 .. i /\ t.node[i].pos < MaxLen
  BY GrownNumbers
<1>2. TreeTyped(t)
  BY DEF Grown
<1>3. \A i \in C : i \in 0 .. e - 1 /\ i \in c - 1 .. e - 1 /\ i >= r
  BY <1>1
<1>4. C \subseteq Slots /\ \A i \in C : t.node[i].pos < MaxLen
  BY <1>1, <1>3
<1>5. ProWidth \in 1 .. Width /\ kPostCandidate \in Status
  BY SpecExecAssumption DEF Status
<1>6. /\ kids \in Seq(NodeRec(Tok \cup {0}, Seqs))
      /\ Len(kids) = Cardinality(keep)
      /\ Bred(t, C, kPostCandidate, kids) /\ Siblings(kids)
  BY <1>2, <1>4, <1>5, ChildrenFacts
<1> HIDE DEF kids
<1>7. Len(kids) <= MaxLen - e /\ Len(kids) \in Nat
  BY <1>6
<1>8. \A k \in 1 .. Len(kids) : /\ kids[k].tok \in Tok
                                /\ kids[k].par \in c - 1 .. e - 1
                                /\ kids[k].pos = t.node[kids[k].par].pos + 1
                                /\ kids[k].st \in {kPostCandidate, kPostProcessed}
                                /\ kids[k].lp < t.node[kids[k].par].lp
                                /\ kids[k].par >= r /\ kids[k].par \in C
  BY <1>3, <1>6 DEF Bred
<1>9. Grown(u, c, r, e + Len(kids)) /\ Added(t, kids, u) /\ SameRows(t, u, e)
  BY <1>6, <1>7, <1>8, GrownAdd
<1> HIDE DEF u
<1>10. u.prefix = t.prefix /\ u.end = e + Len(kids)
  BY <1>9 DEF Added
<1>11. u.end >= e
  BY <1>1, <1>7, <1>10
<1> QED
  BY <1>9, <1>10, <1>11 DEF u, kids

\* While the bet's subtree grows, the tree's own bounds are the subtree's.
LEMMA DraftingFacts ==
  ASSUME IInv, pc = "bet", bet.st = "drafting"
  PROVE  /\ CommittedLen = bet.prefix /\ RoundEnd = bet.end /\ Extent = tree.end /\ tree.prefix = bet.end
         /\ Grown(tree, bet.prefix, bet.end, tree.end)
         /\ bet.prefix \in Nat /\ bet.end \in Nat /\ tree.end \in Nat /\ MaxLen \in Nat
         /\ 1 <= bet.prefix /\ bet.prefix < bet.end /\ bet.end < tree.end /\ tree.end <= MaxLen
         /\ level < ProLen /\ level \in Nat
         /\ bet.leaf \in bet.prefix .. bet.end - 1
         /\ tree.node[bet.end].par = bet.leaf /\ tree.node[bet.end].tok = bet.tok
         /\ KvTyped(kv) /\ pool \in Pool /\ rpc.st # "idle"
<1>1. Drafting /\ CommittedLen = bet.prefix /\ RoundEnd = bet.end /\ Extent = tree.end
  BY DEF CommittedLen, RoundEnd, Extent, Drafting
<1>2. rpc.st # "idle" /\ KvTyped(kv) /\ pool \in Pool /\ level \in 0 .. BeamLen + ProLen
  BY DEF IInv, Phases, Rest
<1>3. /\ tree.prefix = bet.end /\ bet.end < tree.end /\ level < ProLen
      /\ bet.leaf \in bet.prefix .. bet.end - 1
      /\ tree.node[bet.end].par = bet.leaf /\ tree.node[bet.end].tok = bet.tok
  BY <1>1 DEF IInv, Bets
<1>4. Grown(tree, bet.prefix, bet.end, tree.end)
  BY <1>1 DEF IInv, Trees
<1>5. bet.prefix < bet.end
  BY <1>1, <1>2 DEF IInv, Request
<1>6. level \in Nat
  <2>1. BeamLen \in Nat /\ ProLen \in Nat
    BY SpecExecAssumption
  <2> QED
    BY <1>2, <2>1
<1>7. /\ bet.prefix \in Nat /\ bet.end \in Nat /\ tree.end \in Nat /\ MaxLen \in Nat
      /\ 1 <= bet.prefix /\ tree.end <= MaxLen
  BY <1>4, GrownNumbers
<1> QED
  BY <1>1, <1>2, <1>3, <1>4, <1>5, <1>6, <1>7

\* The bounds are put back and nothing is kept of the bet.
LEMMA DropBetIInv ==
  ASSUME IInv, pc = "bet", bet.st = "drafting", NEW t, Grown(t, bet.prefix, bet.end, t.end),
         SameRows(tree, t, tree.end), NEW kvp, NEW poolp, KvTyped(kvp), poolp \in Pool,
         NoBetPlaced(Restored(t), kvp, poolp)
  PROVE  IInv' /\ Still
<1>1. /\ CommittedLen = bet.prefix /\ RoundEnd = bet.end
      /\ bet.prefix \in Nat /\ bet.end \in Nat /\ tree.end \in Nat /\ MaxLen \in Nat
      /\ 1 <= bet.prefix /\ bet.prefix < bet.end /\ bet.end < tree.end /\ tree.end <= MaxLen
  BY DraftingFacts
<1>2. bet.prefix \in 1 .. MaxLen /\ bet.end \in 1 .. MaxLen
  BY <1>1
<1> DEFINE u == Restored(t)
<1>3. /\ Grown(u, bet.prefix, bet.end, t.end) /\ u.node = t.node /\ u.mask = t.mask
      /\ u.prefix = bet.prefix /\ u.end = bet.end
  BY <1>2, RestoredGrown
<1> HIDE DEF u
<1>4. Grown(u, bet.prefix, bet.end, bet.end)
  BY <1>3, GrownShrink
<1>5. SameRows(tree, u, bet.end)
  <2>1. \A i \in 0 .. bet.end - 1 : i \in 0 .. tree.end - 1
    BY <1>1
  <2> QED
    BY <1>3, <2>1 DEF SameRows
<1>6. NoBetPlaced(u, kvp, poolp)
  BY DEF u
<1> QED
  BY <1>1, <1>3, <1>4, <1>5, <1>6, NoBetIInv

\* The record of a placed bet.
LEMMA PlacedRecord ==
  ASSUME NEW was \in [st : {"none", "drafting", "placed"}, leaf : Int, tok : Tok \cup {0}, prefix : Int,
                      end : Int, begin : Int, stop : Int, seqs : SUBSET Seqs],
         NEW b \in Int, NEW d \in Int, NEW q \in SUBSET Seqs, NEW is,
         is = [was EXCEPT !.st = "placed", !.begin = b, !.stop = d, !.seqs = q]
  PROVE  /\ is \in [st : {"none", "drafting", "placed"}, leaf : Int, tok : Tok \cup {0}, prefix : Int,
                    end : Int, begin : Int, stop : Int, seqs : SUBSET Seqs]
         /\ is.st = "placed" /\ is.leaf = was.leaf /\ is.tok = was.tok /\ is.begin = b /\ is.stop = d
OBVIOUS

\* The bet is placed.
LEMMA PlaceBetIInv ==
  ASSUME IInv, pc = "bet", bet.st = "drafting", NEW t, Grown(t, bet.prefix, bet.end, t.end),
         t.prefix = bet.end, SameRows(tree, t, tree.end), KvTyped(kv'), pool' \in Pool,
         t.end > t.prefix + 1, tree' = Restored(t), pc' = "join",
         bet' = [bet EXCEPT !.st = "placed", !.begin = t.prefix, !.stop = t.end,
                   !.seqs = {t.node[i].seq : i \in Drafted(t)}],
         UNCHANGED <<level, prevHit, rpc, gen, srv, cause>>
  PROVE  IInv' /\ Still
<1>1. /\ CommittedLen = bet.prefix /\ RoundEnd = bet.end
      /\ bet.prefix \in Nat /\ bet.end \in Nat /\ tree.end \in Nat /\ MaxLen \in Nat
      /\ 1 <= bet.prefix /\ bet.prefix < bet.end /\ bet.end < tree.end /\ tree.end <= MaxLen
      /\ bet.leaf \in bet.prefix .. bet.end - 1
      /\ tree.node[bet.end].par = bet.leaf /\ tree.node[bet.end].tok = bet.tok /\ rpc.st # "idle"
  BY DraftingFacts
<1>2. bet.prefix \in 1 .. MaxLen /\ bet.end \in 1 .. MaxLen
  BY <1>1
<1> DEFINE u == Restored(t)
           seqs == {t.node[i].seq : i \in Drafted(t)}
<1>3. /\ Grown(u, bet.prefix, bet.end, t.end) /\ u.node = t.node /\ u.mask = t.mask
      /\ u.prefix = bet.prefix /\ u.end = bet.end
  BY <1>2, RestoredGrown
<1> HIDE DEF u
<1>4. tree' = u
  BY DEF u
<1>5. seqs \subseteq Seqs /\ t.end \in Nat
  <2>1. TreeTyped(t) /\ t.end \in Nat /\ 0 .. t.end - 1 \subseteq Slots
    BY GrownNumbers DEF Grown
  <2>2. \A i \in Drafted(t) : i \in 0 .. t.end - 1
    BY <1>1, <2>1 DEF Drafted
  <2> QED
    BY <2>1, <2>2, NodeFields
<1> HIDE DEF seqs
<1>6. bet \in [st : {"none", "drafting", "placed"}, leaf : Int, tok : Tok \cup {0}, prefix : Int,
               end : Int, begin : Int, stop : Int, seqs : SUBSET Seqs]
  BY DEF IInv, Records
<1>7. bet' = [bet EXCEPT !.st = "placed", !.begin = bet.end, !.stop = t.end, !.seqs = seqs]
  BY DEF seqs
<1>8. /\ bet' \in [st : {"none", "drafting", "placed"}, leaf : Int, tok : Tok \cup {0}, prefix : Int,
                   end : Int, begin : Int, stop : Int, seqs : SUBSET Seqs]
      /\ bet'.st = "placed" /\ bet'.leaf = bet.leaf /\ bet'.tok = bet.tok /\ bet'.begin = bet.end
      /\ bet'.stop = t.end
  <2> DEFINE b == bet.end
             d == t.end
  <2>1. b \in Int /\ d \in Int
    BY <1>1, <1>5
  <2>2. bet' = [bet EXCEPT !.st = "placed", !.begin = b, !.stop = d, !.seqs = seqs]
    BY <1>7
  <2> HIDE DEF b, d
  <2> DEFINE is == bet'
             BetRec == [st : {"none", "drafting", "placed"}, leaf : Int, tok : Tok \cup {0}, prefix : Int,
                        end : Int, begin : Int, stop : Int, seqs : SUBSET Seqs]
  <2>3. is = [bet EXCEPT !.st = "placed", !.begin = b, !.stop = d, !.seqs = seqs]
    BY <2>2
  <2> HIDE DEF is
  <2>4. /\ is \in BetRec
        /\ is.st = "placed" /\ is.leaf = bet.leaf /\ is.tok = bet.tok /\ is.begin = b /\ is.stop = d
    BY <1>5, <1>6, <2>1, <2>3, PlacedRecord
  <2> QED
    BY <2>4 DEF b, d, is
<1>9. /\ CommittedLen' = bet.prefix /\ RoundEnd' = bet.end /\ Extent' = t.end /\ ~Drafting'
  BY <1>3, <1>4, <1>8 DEF CommittedLen, RoundEnd, Extent, Drafting
<1>10. SameRows(tree, tree', bet.end)
  <2>1. \A i \in 0 .. bet.end - 1 : i \in 0 .. tree.end - 1
    BY <1>1
  <2> QED
    BY <1>3, <1>4, <2>1 DEF SameRows
<1>11. Phases'
  BY <1>1, <1>8 DEF IInv, Phases
<1>12. Bets'
  <2>1. bet.end \in 0 .. tree.end - 1
    BY <1>1
  <2>2. tree'.node[bet.end].par = bet.leaf /\ tree'.node[bet.end].tok = bet.tok
    BY <1>1, <1>3, <1>4, <2>1 DEF SameRows
  <2>3. bet.end + 1 < t.end
    BY <1>1, <1>5
  <2> QED
    BY <1>1, <1>3, <1>4, <1>8, <1>9, <2>2, <2>3 DEF Bets
<1>13. level' \in 0 .. BeamLen + ProLen
  BY DEF IInv, Rest
<1>14. Grown(tree', CommittedLen, RoundEnd, Extent') /\ SameRows(tree, tree', RoundEnd)
       /\ CommittedLen' = CommittedLen /\ RoundEnd' = RoundEnd
  BY <1>1, <1>3, <1>4, <1>9, <1>10
<1> QED
  BY <1>8, <1>11, <1>12, <1>13, <1>14, BetStepIInv

\* Another level.
LEMMA KeepDraftingIInv ==
  ASSUME IInv, pc = "bet", bet.st = "drafting", NEW t, Grown(t, bet.prefix, bet.end, t.end),
         t.prefix = bet.end, t.end >= tree.end, SameRows(tree, t, tree.end), KvTyped(kv'), pool' \in Pool,
         tree' = t, level' = level + 1, level + 1 # ProLen,
         UNCHANGED <<pc, prevHit, rpc, bet, gen, srv, cause>>
  PROVE  IInv' /\ Still
<1>1. /\ CommittedLen = bet.prefix /\ RoundEnd = bet.end
      /\ bet.prefix \in Nat /\ bet.end \in Nat /\ tree.end \in Nat /\ MaxLen \in Nat
      /\ 1 <= bet.prefix /\ bet.prefix < bet.end /\ bet.end < tree.end /\ tree.end <= MaxLen
      /\ level < ProLen /\ level \in Nat
      /\ bet.leaf \in bet.prefix .. bet.end - 1
      /\ tree.node[bet.end].par = bet.leaf /\ tree.node[bet.end].tok = bet.tok /\ rpc.st # "idle"
  BY DraftingFacts
<1>2. /\ CommittedLen' = bet.prefix /\ RoundEnd' = bet.end /\ Extent' = t.end /\ Drafting'
  BY DEF CommittedLen, RoundEnd, Extent, Drafting
<1>3. SameRows(tree, t, bet.end)
  <2>1. \A i \in 0 .. bet.end - 1 : i \in 0 .. tree.end - 1
    BY <1>1
  <2> QED
    BY <2>1 DEF SameRows
<1>4. Phases'
  BY DEF IInv, Phases
<1>5. level + 1 < ProLen /\ level' \in 0 .. BeamLen + ProLen /\ t.end \in Nat /\ bet.end < t.end
  <2>1. BeamLen \in Nat /\ ProLen \in Nat /\ t.end \in Nat
    BY SpecExecAssumption, GrownNumbers
  <2> QED
    BY <1>1, <2>1
<1>6. Bets'
  <2>1. bet.end \in 0 .. tree.end - 1
    BY <1>1
  <2>2. tree'.node[bet.end].par = bet.leaf /\ tree'.node[bet.end].tok = bet.tok
    BY <1>1, <2>1 DEF SameRows
  <2> QED
    BY <1>1, <1>2, <1>5, <2>2 DEF Bets
<1>7. bet' \in [st : {"none", "drafting", "placed"}, leaf : Int, tok : Tok \cup {0}, prefix : Int,
               end : Int, begin : Int, stop : Int, seqs : SUBSET Seqs]
  BY DEF IInv, Records
<1>8. Grown(tree', CommittedLen, RoundEnd, Extent') /\ SameRows(tree, tree', RoundEnd)
      /\ CommittedLen' = CommittedLen /\ RoundEnd' = RoundEnd
  BY <1>1, <1>2, <1>3
<1> QED
  BY <1>4, <1>5, <1>6, <1>7, <1>8, BetStepIInv

\* One level of the proactive draft keeps the invariant.
LEMMA DraftLevelIInv ==
  ASSUME IInv, DraftLevel
  PROVE  IInv' /\ Still
<1>0. PICK C \in {TopBeams(tree, WithStatus(tree, Drafted(tree), kPostCandidate), ProBeams)} :
     LET rows == RowsOf(tree, C)
     IN IF ~DecodeOk(kv, rows) THEN NoBetPlaced(Restored(tree), kv, pool)
        ELSE \E top \in [C -> TopKRows] :
          LET t1   == SetStatus(tree, C, kPostProcessed)
              kv1  == Decode(kv, rows)
              want == DraftKeep(t1, C, top)
              keep == Affordable(C, want)
              kids == Children(t1, pool, C, ProWidth, top, keep, kPostCandidate)
              t2   == IF keep = {} THEN t1 ELSE Add(t1, kids)
              kv2  == ForkCache(kv1, t1, pool, C, ProWidth, keep)
              pool2 == AfterAlloc(pool, Cardinality(Forks(C, ProWidth, keep)))
          IN IF keep # want \/ keep = {} \/ level + 1 = ProLen
             THEN EndDraft(t2, kv2, pool2)
             ELSE /\ tree' = t2
                  /\ kv' = kv2
                  /\ pool' = pool2
                  /\ level' = level + 1
                  /\ UNCHANGED <<pc, prevHit, rpc, bet, gen, srv, cause>>
  BY DEF DraftLevel
<1> DEFINE rows == RowsOf(tree, C)
           t1   == SetStatus(tree, C, kPostProcessed)
           kv1  == Decode(kv, rows)
           want(top) == DraftKeep(t1, C, top)
           keep(top) == Affordable(C, want(top))
           kids(top) == Children(t1, pool, C, ProWidth, top, keep(top), kPostCandidate)
           t2(top)   == IF keep(top) = {} THEN t1 ELSE Add(t1, kids(top))
           kv2(top)  == ForkCache(kv1, t1, pool, C, ProWidth, keep(top))
           pool2(top) == AfterAlloc(pool, Cardinality(Forks(C, ProWidth, keep(top))))
<1>1. /\ pc = "bet" /\ bet.st = "drafting"
      /\ C = TopBeams(tree, WithStatus(tree, Drafted(tree), kPostCandidate), ProBeams)
  BY DEF DraftLevel
<1>2. \/ NoBetPlaced(Restored(tree), kv, pool)
      \/ \E top \in [C -> TopKRows] :
           \/ EndDraft(t2(top), kv2(top), pool2(top))
           \/ /\ level + 1 # ProLen
              /\ tree' = t2(top)
              /\ kv' = kv2(top)
              /\ pool' = pool2(top)
              /\ level' = level + 1
              /\ UNCHANGED <<pc, prevHit, rpc, bet, gen, srv, cause>>
  BY <1>0
<1> HIDE DEF rows, t1, kv1, want, keep, kids, t2, kv2, pool2
<1>3. /\ tree.prefix = bet.end /\ Grown(tree, bet.prefix, bet.end, tree.end)
      /\ bet.prefix \in Nat /\ bet.end \in Nat /\ tree.end \in Nat /\ MaxLen \in Nat
      /\ 1 <= bet.prefix /\ bet.prefix < bet.end /\ bet.end < tree.end /\ tree.end <= MaxLen
      /\ KvTyped(kv) /\ pool \in Pool
  BY <1>1, DraftingFacts
<1>4. C \subseteq bet.end .. tree.end - 1
  BY <1>1, <1>3 DEF TopBeams, WithStatus, Drafted
<1>5. C \subseteq 0 .. tree.end - 1 /\ C \subseteq Slots /\ TreeTyped(tree) /\ \A i \in C : tree.node[i].tok \in Tok
  <2>1. C \subseteq 0 .. tree.end - 1
    BY <1>3, <1>4
  <2>2. 0 .. tree.end - 1 \subseteq Slots /\ TreeTyped(tree) /\ \A i \in 0 .. tree.end - 1 : tree.node[i].tok \in Tok
    BY <1>3, GrownNumbers DEF Grown
  <2> QED
    BY <2>1, <2>2
<1>6. SameRows(tree, tree, tree.end)
  BY DEF SameRows
<1>7. CASE NoBetPlaced(Restored(tree), kv, pool)
  BY <1>1, <1>3, <1>6, <1>7, DropBetIInv
<1>8. /\ Grown(t1, bet.prefix, bet.end, tree.end)
      /\ Marked(tree, C, kPostProcessed, t1) /\ SameRows(tree, t1, MaxLen)
  BY <1>3, <1>4, GrownMark DEF t1
<1>9. t1.prefix = bet.end /\ t1.end = tree.end /\ TreeTyped(t1) /\ SameRows(tree, t1, tree.end)
  <2>1. \A i \in 0 .. tree.end - 1 : i \in 0 .. MaxLen - 1
    BY <1>3
  <2>2. SameRows(tree, t1, tree.end)
    BY <1>8, <2>1 DEF SameRows
  <2> QED
    BY <1>3, <1>8, <2>2 DEF Marked, Grown
<1>10. KvTyped(kv1)
  <2>1. \A s \in DOMAIN rows : rows[s] \in Cells
    BY <1>5, RowsTyped DEF rows
  <2> QED
    BY <1>3, <2>1, DecodeTyped DEF kv1
<1>11. ASSUME NEW top \in [C -> TopKRows]
       PROVE  /\ KvTyped(kv2(top)) /\ pool2(top) \in Pool
              /\ Grown(t2(top), bet.prefix, bet.end, t2(top).end)
              /\ t2(top).prefix = bet.end /\ t2(top).end >= tree.end /\ SameRows(tree, t2(top), tree.end)
  <2> DEFINE K == keep(top)
             W == want(top)
  <2>1. W \subseteq Flats(C, ProWidth) /\ Cardinality(W) <= MaxLen - t1.end
    BY <1>5, <1>9, DraftKeepFits DEF want
  <2>2. /\ K \subseteq W /\ Cardinality(Forks(C, ProWidth, K)) \in Nat
        /\ Cardinality(Forks(C, ProWidth, K)) <= Cardinality(FreeSeqs(pool))
    <3> HIDE DEF W
    <3>1. K = Affordable(C, W)
      BY DEF keep, W
    <3> HIDE DEF K
    <3> QED
      BY <1>5, <2>1, <3>1, AffordableFits
  <2>3. ProWidth \in 1 .. Width /\ ProWidth \in Nat \ {0}
    BY SpecExecAssumption
  <2>4. KvTyped(kv2(top))
    BY <1>5, <1>9, <1>10, <2>1, <2>2, <2>3, ForkTyped DEF kv2
  <2>5. pool2(top) \in Pool
    BY <1>3, <2>2, AllocTyped DEF pool2
  <2>6. CASE K = {}
    <3>1. t2(top) = t1
      BY <2>6 DEF t2
    <3>2. tree.end >= tree.end
      BY <1>3
    <3> QED
      BY <1>8, <1>9, <2>4, <2>5, <3>1, <3>2
  <2>7. CASE K # {}
    <3> HIDE DEF K, W
    <3>1. Cardinality(K) <= MaxLen - t1.end
      <4>1. IsFiniteSet(W) /\ Cardinality(W) \in Nat
        BY <1>5, <2>1, <2>3, FlatSets
      <4>2. Cardinality(K) <= Cardinality(W) /\ IsFiniteSet(K)
        BY <2>2, <4>1, FS_Subset
      <4>3. Cardinality(K) \in Nat
        BY <4>2, FS_CardinalityType
      <4> QED
        BY <1>3, <1>9, <2>1, <4>1, <4>2, <4>3
    <3> DEFINE u == Add(t1, Children(t1, pool, C, ProWidth, top, K, kPostCandidate))
    <3>2. Grown(u, bet.prefix, bet.end, u.end) /\ u.prefix = t1.prefix /\ u.end >= t1.end
          /\ SameRows(t1, u, t1.end)
      <4>1. /\ Grown(t1, bet.prefix, bet.end, t1.end) /\ bet.end < t1.end /\ C \subseteq bet.end .. t1.end - 1
            /\ K \subseteq Flats(C, ProWidth)
        BY <1>3, <1>4, <1>8, <1>9, <2>1, <2>2
      <4>2. Spent(t1, bet.prefix, t1.end, C)
        BY <1>1, <1>3, <1>5, <1>9, MarkSpends DEF t1, TopBeams, WithStatus
      <4> QED
        BY <1>3, <2>2, <3>1, <4>1, <4>2, DraftAdds
    <3>3. t2(top) = u
      BY <2>7 DEF t2, kids, K
    <3> HIDE DEF u
    <3>4. SameRows(tree, u, tree.end)
      BY <1>9, <3>2 DEF SameRows
    <3> QED
      BY <1>9, <2>4, <2>5, <3>2, <3>3, <3>4
  <2> QED
    BY <2>6, <2>7
<1>12. ASSUME NEW top \in [C -> TopKRows], EndDraft(t2(top), kv2(top), pool2(top)) PROVE IInv' /\ Still
  <2> DEFINE t == t2(top)
             kvp == kv2(top)
             poolp == pool2(top)
  <2>1. /\ KvTyped(kvp) /\ poolp \in Pool
        /\ Grown(t, bet.prefix, bet.end, t.end)
        /\ t.prefix = bet.end /\ t.end >= tree.end /\ SameRows(tree, t, tree.end)
    BY <1>11
  <2>2. EndDraft(t, kvp, poolp)
    BY <1>12
  <2> HIDE DEF t, kvp, poolp
  <2>3. CASE NoBetPlaced(Restored(t), kvp, poolp)
    BY <1>1, <2>1, <2>3, DropBetIInv
  <2>4. CASE /\ ~(t.end <= t.prefix + 1)
             /\ tree' = Restored(t) /\ kv' = kvp /\ pool' = poolp /\ pc' = "join"
             /\ bet' = [bet EXCEPT !.st = "placed", !.begin = t.prefix, !.stop = t.end,
                          !.seqs = {t.node[i].seq : i \in Drafted(t)}]
             /\ UNCHANGED <<level, prevHit, rpc, gen, srv, cause>>
    <3>1. t.end \in Nat
      BY <2>1, GrownNumbers
    <3>2. t.end > t.prefix + 1
      BY <1>3, <2>1, <2>4, <3>1
    <3> QED
      BY <1>1, <2>1, <2>4, <3>2, PlaceBetIInv
  <2> QED
    BY <2>2, <2>3, <2>4 DEF EndDraft
<1>13. ASSUME NEW top \in [C -> TopKRows], level + 1 # ProLen,
              tree' = t2(top), kv' = kv2(top), pool' = pool2(top), level' = level + 1,
              UNCHANGED <<pc, prevHit, rpc, bet, gen, srv, cause>>
       PROVE  IInv' /\ Still
  <2>1. /\ KvTyped(kv2(top)) /\ pool2(top) \in Pool
        /\ Grown(t2(top), bet.prefix, bet.end, t2(top).end)
        /\ t2(top).prefix = bet.end /\ t2(top).end >= tree.end /\ SameRows(tree, t2(top), tree.end)
    BY <1>11
  <2> QED
    BY <1>1, <1>13, <2>1, KeepDraftingIInv
<1> QED
  BY <1>2, <1>7, <1>12, <1>13

-----------------------------------------------------------------------------
(* The answer *)

\* A bounded nonempty set of numbers has its maximum.
LEMMA MaxWorks ==
  ASSUME NEW T, T \subseteq Nat, T # {}, NEW b \in Nat, \A n \in T : n <= b
  PROVE  Max(T) \in T /\ \A n \in T : n <= Max(T)
<1>1. \E m \in T : \A n \in T : m >= n
  <2>1. PICK m \in T : \A n \in T : n <= m
    BY GreatestNat
  <2>2. \A n \in T : m >= n
    BY <2>1
  <2> QED
    BY <2>2
<1>2. Max(T) \in T /\ \A n \in T : Max(T) >= n
  <2> DEFINE P(m) == \A n \in T : m >= n
  <2>1. \E m \in T : P(m)
    BY <1>1
  <2>2. Max(T) = CHOOSE m \in T : P(m)
    BY DEF Max
  <2> HIDE DEF P
  <2>3. Max(T) \in T /\ P(Max(T))
    BY <2>1, <2>2
  <2> QED
    BY <2>3 DEF P
<1> QED
  BY <1>2

\* A nonempty set of numbers has its minimum.
LEMMA MinWorks ==
  ASSUME NEW T, T \subseteq Nat, T # {}
  PROVE  Min(T) \in T /\ \A n \in T : Min(T) <= n
<1> DEFINE P(m) == \A n \in T : m <= n
<1>1. \E m \in T : P(m)
  BY LeastNat
<1>2. Min(T) = CHOOSE m \in T : P(m)
  BY DEF Min
<1> HIDE DEF P
<1>3. Min(T) \in T /\ P(Min(T))
  BY <1>1, <1>2
<1> QED
  BY <1>3 DEF P

\* Once the bet is settled the round's nodes are the tree.
LEMMA Settled ==
  ASSUME IInv, rpc.st # "idle", bet.st # "drafting"
  PROVE  /\ bet.st \in {"none", "placed"} /\ ~Drafting
         /\ CommittedLen = tree.prefix /\ RoundEnd = tree.end
         /\ Grown(tree, tree.prefix, tree.end, Extent)
         /\ MaxLen \in Nat /\ tree.prefix \in Nat /\ tree.end \in Nat /\ Extent \in Nat
         /\ 1 <= tree.prefix /\ tree.prefix < tree.end /\ tree.end <= Extent /\ Extent <= MaxLen
         /\ rpc.inputs = tree.prefix - 1 .. tree.end - 1
         /\ \A i \in rpc.inputs : /\ i \in Nat /\ i \in Live(tree) /\ i \in 0 .. Extent - 1 /\ i \in Slots
                                  /\ tree.mask[i] \subseteq 0 .. i /\ tree.mask[i] \subseteq Live(tree)
                                  /\ 0 .. tree.prefix - 1 \subseteq tree.mask[i]
<1>1. bet.st \in {"none", "placed"}
  BY DEF IInv, Phases
<1>2. ~Drafting /\ CommittedLen = tree.prefix /\ RoundEnd = tree.end
  BY <1>1 DEF CommittedLen, RoundEnd, Drafting
<1>3. /\ Grown(tree, tree.prefix, tree.end, Extent)
      /\ tree.prefix \in Nat /\ tree.end \in Nat /\ Extent \in Nat
      /\ 1 <= tree.prefix /\ tree.prefix < tree.end /\ tree.end <= Extent
      /\ rpc.inputs = tree.prefix - 1 .. tree.end - 1
      /\ \A i \in rpc.inputs : /\ i \in 0 .. Extent - 1 /\ i \in 0 .. tree.end - 1 /\ i \in Slots
                               /\ tree.mask[i] \subseteq 0 .. i
                               /\ 0 .. tree.prefix - 1 \subseteq tree.mask[i]
  BY <1>1, <1>2, Requested
<1>4. MaxLen \in Nat /\ Extent <= MaxLen
  BY <1>3, GrownNumbers
<1>5. ASSUME NEW i \in rpc.inputs PROVE i \in Nat /\ i \in Live(tree) /\ tree.mask[i] \subseteq Live(tree)
  <2>1. i \in 0 .. tree.end - 1 /\ tree.mask[i] \subseteq 0 .. i
    BY <1>3
  <2>2. i \in Nat /\ 0 .. i \subseteq 0 .. tree.end - 1
    BY <1>3, <2>1
  <2> QED
    BY <2>1, <2>2 DEF Live
<1> QED
  BY <1>1, <1>2, <1>3, <1>4, <1>5

\* When the answer is read the bet is settled.
LEMMA Joined ==
  ASSUME IInv, pc = "join"
  PROVE  rpc.st # "idle" /\ bet.st # "drafting"
BY DEF IInv, Phases

\* The row that is accepted: all of its slots are, no accepted row is longer,
\* and its last slot is the row's own.
AcceptedRow(sel, b) ==
  /\ b \in rpc.inputs /\ Accepted(sel) = tree.mask[b] /\ LastSlot(Accepted(sel)) = b
  /\ tree.mask[b] \subseteq AcceptedSlots(sel)
  /\ \A j \in rpc.inputs : tree.mask[j] \subseteq AcceptedSlots(sel) =>
       Cardinality(tree.mask[j]) <= Cardinality(tree.mask[b])

\* The slot ValidateTree selects is the end of an accepted row, and none is longer.
LEMMA BestSlotFacts ==
  ASSUME IInv, rpc.st # "idle", bet.st # "drafting", NEW sel
  PROVE  AcceptedRow(sel, BestSlot(sel))
<1> DEFINE I == rpc.inputs
           ok == AcceptedSlots(sel)
           T == {RowValue(i, ok) : i \in I}
           best == Max(T)
           M == {i \in I : RowValue(i, ok) = best}
           b == Min(M)
           c == tree.prefix
<1>1. /\ c \in Nat /\ 1 <= c /\ c < tree.end /\ tree.end \in Nat /\ MaxLen \in Nat
      /\ Shaped(tree, c, Extent) /\ Extent \in Nat
      /\ I = c - 1 .. tree.end - 1
      /\ \A i \in I : /\ i \in Nat /\ i \in 0 .. Extent - 1 /\ i \in Slots
                      /\ tree.mask[i] \subseteq 0 .. i /\ tree.mask[i] \subseteq Live(tree)
  BY Settled DEF Grown
<1>2. BestSlot(sel) = b
  BY DEF BestSlot
<1>3. ASSUME NEW i \in I
      PROVE  /\ Cardinality(tree.mask[i]) \in Nat /\ Cardinality(tree.mask[i]) <= MaxLen
             /\ i \in tree.mask[i] /\ Cardinality(tree.mask[i]) >= 1
             /\ RowValue(i, ok) = IF tree.mask[i] \subseteq ok THEN Cardinality(tree.mask[i]) ELSE 0
  <2>1. i \in 0 .. Extent - 1 /\ i \in 0 .. MaxLen - 1
    BY <1>1 DEF Slots
  <2>2. Cardinality(tree.mask[i]) = tree.node[i].pos + 1 /\ tree.node[i].pos \in 0 .. i /\ i \in tree.mask[i]
    BY <1>1, <2>1, PosIsDepth, RowBounds
  <2>3. tree.mask[i] \cap Live(tree) = tree.mask[i]
    BY <1>1
  <2>4. Cardinality(tree.mask[i]) \in Nat /\ Cardinality(tree.mask[i]) <= MaxLen /\ Cardinality(tree.mask[i]) >= 1
    BY <1>1, <2>1, <2>2
  <2> QED
    BY <2>2, <2>3, <2>4 DEF RowValue
<1>4. \A i \in I : RowValue(i, ok) \in Nat /\ RowValue(i, ok) <= MaxLen
  BY <1>1, <1>3
<1>5. c - 1 \in I
  BY <1>1
<1>6. T \subseteq Nat /\ T # {} /\ \A n \in T : n <= MaxLen
  BY <1>4, <1>5
<1> HIDE DEF ok
<1>7. best \in T /\ \A n \in T : n <= best
  <2> HIDE DEF T
  <2> QED
    BY <1>1, <1>6, MaxWorks
<1>8. M # {} /\ M \subseteq Nat
  BY <1>1, <1>7
<1>9. b \in M
  <2> HIDE DEF M
  <2> QED
    BY <1>8, MinWorks
<1>10. b \in I /\ RowValue(b, ok) = best
  BY <1>9
<1>11. \A j \in I : RowValue(j, ok) <= best
  BY <1>7
<1> HIDE DEF b, best, M, T
<1>12. tree.mask[c - 1] \subseteq ok
  <2>1. tree.mask[c - 1] \subseteq 0 .. c - 1
    BY <1>1, <1>5
  <2> QED
    BY <2>1 DEF ok, AcceptedSlots
<1>13. RowValue(c - 1, ok) >= 1
  BY <1>3, <1>5, <1>12
<1>14. RowValue(b, ok) # 0
  <2>1. RowValue(c - 1, ok) <= RowValue(b, ok) /\ RowValue(c - 1, ok) \in Nat /\ RowValue(b, ok) \in Nat
    BY <1>4, <1>5, <1>10, <1>11
  <2> QED
    BY <1>13, <2>1
<1>15. tree.mask[b] \subseteq ok /\ RowValue(b, ok) = Cardinality(tree.mask[b])
  BY <1>3, <1>10, <1>14
<1>16. \A j \in I : tree.mask[j] \subseteq ok => Cardinality(tree.mask[j]) <= Cardinality(tree.mask[b])
  BY <1>3, <1>10, <1>11, <1>15
<1>17. Accepted(sel) = tree.mask[b]
  BY <1>1, <1>2, <1>10 DEF Accepted
<1>18. LastSlot(tree.mask[b]) = b
  <2> DEFINE S == tree.mask[b]
  <2>1. b \in S /\ S \subseteq 0 .. b /\ b \in Nat
    BY <1>1, <1>3, <1>10
  <2>2. S \subseteq Nat /\ S # {} /\ \A n \in S : n <= b
    BY <2>1
  <2> HIDE DEF S
  <2>3. Max(S) \in S /\ \A n \in S : n <= Max(S)
    BY <2>1, <2>2, MaxWorks
  <2>4. Max(S) = b
    <3>1. Max(S) <= b /\ b <= Max(S) /\ Max(S) \in Nat
      BY <2>1, <2>2, <2>3
    <3> QED
      BY <2>1, <3>1
  <2> QED
    BY <2>4 DEF LastSlot, S
<1> QED
  BY <1>2, <1>10, <1>15, <1>16, <1>17, <1>18 DEF AcceptedRow, ok

\* What the commit takes for granted of the accepted slots.
LEMMA AcceptedFacts ==
  ASSUME IInv, pc = "join", rpc.st = "answered", NEW acc, acc = Accepted(rpc.sel)
  PROVE  /\ acc \subseteq Live(tree) /\ acc \subseteq Slots /\ 0 .. tree.prefix - 1 \subseteq acc
         /\ ReorderOk(tree, acc)
         /\ LastSlot(acc) \in rpc.inputs /\ LastSlot(acc) \in acc /\ acc = tree.mask[LastSlot(acc)]
         /\ Bonus(acc) \in Tok
         /\ \A i \in acc : tree.node[i].tok \in Tok
<1> DEFINE b == BestSlot(rpc.sel)
<1>1. AcceptedRow(rpc.sel, b)
  BY Joined, BestSlotFacts
<1> HIDE DEF b
<1>2. b \in rpc.inputs /\ acc = tree.mask[b] /\ LastSlot(acc) = b
  BY <1>1 DEF AcceptedRow
<1>3. /\ acc \subseteq Live(tree) /\ 0 .. tree.prefix - 1 \subseteq acc
      /\ Grown(tree, tree.prefix, tree.end, Extent) /\ tree.end \in Nat /\ Extent \in Nat /\ tree.end <= Extent
      /\ b \in 0 .. Extent - 1
  BY <1>2, Joined, Settled
<1>4. b \in acc
  BY <1>2, <1>3, RowBounds DEF Grown
<1>5. rpc.sel \in [rpc.inputs -> Tok]
  BY DEF IInv, Request
<1>6. \A i \in acc : i \in 0 .. Extent - 1
  BY <1>3 DEF Live
<1>7. /\ 0 .. Extent - 1 \subseteq Slots
      /\ \A i \in 0 .. Extent - 1 : tree.node[i].tok \in Tok
  BY <1>3, GrownNumbers DEF Grown
<1> QED
  BY <1>2, <1>3, <1>4, <1>5, <1>6, <1>7 DEF ReorderOk, Bonus

\* The end of a round.
LEMMA CommitIInv ==
  ASSUME IInv, pc = "join", NEW t, NEW kvp, NEW hit \in BOOLEAN, Commit(t, kvp, hit),
         Grown(t, t.prefix, t.end, t.end), t.prefix >= tree.prefix,
         \A i \in 0 .. tree.prefix - 1 : t.node[i].tok = tree.node[i].tok, KvTyped(kvp)
  PROVE  /\ IInv'
         /\ tree' = t /\ rpc' = NoRpc /\ bet' = NoBet /\ srv' = srv /\ ~gen'.first
<1> DEFINE fresh == {t.node[i].tok : i \in tree.prefix .. t.prefix - 1}
           warm  == IF gen.first THEN t.prefix - tree.prefix ELSE gen.warm
           eog   == ~gen.first /\ fresh \cap Eog # {}
<1>1. /\ tree' = t /\ kv' = kvp /\ pool' = PoolOf(t) /\ level' = 0 /\ prevHit' = hit
      /\ rpc' = NoRpc /\ bet' = NoBet /\ srv' = srv /\ cause' = cause
  BY DEF Commit
<1>2. /\ gen' = [gen EXCEPT !.first = FALSE, !.warm = warm, !.eog = eog]
      /\ pc' = IF t.prefix - gen.orig < MaxNew + warm /\ ~eog THEN "grow" ELSE "done"
  BY DEF Commit, Return
<1>3. /\ CommittedLen = tree.prefix /\ tree.prefix \in Nat /\ 1 <= tree.prefix
  BY Joined, Settled
<1>4. t.prefix \in Nat /\ t.end \in Nat /\ 0 .. t.end - 1 \subseteq Slots /\ TreeTyped(t) /\ t.prefix <= t.end
  BY GrownNumbers DEF Grown
<1>5. gen \in [orig : 1 .. MaxLen, first : BOOLEAN, warm : Nat, eog : BOOLEAN]
  BY DEF IInv, Records
<1>6. warm \in Nat /\ eog \in BOOLEAN
  BY <1>3, <1>4, <1>5
<1>7. pc' \in {"grow", "done"} /\ (pc' = "grow" => ~eog)
  BY <1>2
<1> HIDE DEF warm, eog, fresh
<1>8. /\ gen' \in [orig : 1 .. MaxLen, first : BOOLEAN, warm : Nat, eog : BOOLEAN]
      /\ gen'.first = FALSE /\ gen'.orig = gen.orig /\ gen'.warm = warm
  BY <1>2, <1>5, <1>6
<1>9. rpc'.st = "idle" /\ bet'.st = "none"
  BY <1>1 DEF NoRpc, NoBet
<1>10. CommittedLen' = t.prefix /\ RoundEnd' = t.end /\ Extent' = t.end /\ ~Drafting'
  BY <1>1, <1>9 DEF CommittedLen, RoundEnd, Extent, Drafting
<1>11. Phases'
  BY <1>7, <1>9 DEF Phases
<1>12. Records'
  <2>1. rpc' = [st |-> rpc'.st, inputs |-> rpc'.inputs, req |-> rpc'.req, ctx |-> rpc'.ctx, sel |-> rpc'.sel]
        /\ rpc'.inputs \subseteq Slots
    BY <1>1 DEF NoRpc
  <2>2. bet' \in [st : {"none", "drafting", "placed"}, leaf : Int, tok : Tok \cup {0}, prefix : Int,
                 end : Int, begin : Int, stop : Int, seqs : SUBSET Seqs]
    BY <1>1 DEF NoBet
  <2> QED
    BY <1>8, <2>1, <2>2 DEF Records
<1>13. Trees' /\ Bets'
  BY <1>1, <1>9, <1>10 DEF Trees, Bets
<1>14. Request'
  BY <1>7, <1>9 DEF Request, RequestStillDescribesTree
<1>15. Generated'
  <2>1. ASSUME pc' = "grow", NEW i \in gen.orig + warm .. t.prefix - 1 PROVE t.node[i].tok \notin Eog
    <3>1. ~eog /\ gen.orig \in Nat /\ gen.warm \in Nat
      BY <1>5, <1>7, <2>1, MaxLenAssumption
    <3>2. CASE gen.first
      <4>1. gen.orig = tree.prefix
        BY <1>3, <3>2 DEF IInv, Generated
      <4>2. warm = t.prefix - tree.prefix
        BY <3>2 DEF warm
      <4> QED
        BY <1>3, <1>4, <2>1, <4>1, <4>2
    <3>3. CASE ~gen.first
      <4>1. warm = gen.warm /\ fresh \cap Eog = {}
        BY <3>1, <3>3 DEF warm, eog
      <4>2. CASE i >= tree.prefix
        <5>1. i \in tree.prefix .. t.prefix - 1
          BY <1>3, <1>4, <1>6, <2>1, <3>1, <4>2
        <5> QED
          BY <4>1, <5>1 DEF fresh
      <4>3. CASE ~(i >= tree.prefix)
        <5>1. i \in gen.orig + gen.warm .. tree.prefix - 1 /\ i \in 0 .. tree.prefix - 1
          BY <1>3, <1>4, <2>1, <3>1, <4>1, <4>3
        <5>2. tree.node[i].tok \notin Eog
          BY <1>3, <3>3, <5>1 DEF IInv, Generated
        <5> QED
          BY <5>1, <5>2
      <4> QED
        BY <4>2, <4>3
    <3> QED
      BY <3>2, <3>3
  <2> QED
    BY <1>1, <1>7, <1>8, <1>10, <2>1 DEF Generated
<1>16. Rest'
  <2>1. PoolOf(t) \in Pool
    <3>1. 0 \in Seqs /\ 1 % MaxSeqs \in Seqs
      BY SeqsAssumption DEF Seqs
    <3>2. \A i \in Live(t) : t.node[i].seq \in Seqs
      <4>1. Live(t) \subseteq Slots
        BY <1>4 DEF Live
      <4> QED
        BY <1>4, <4>1, NodeFields
    <3> QED
      BY <3>1, <3>2 DEF PoolOf, Pool
  <2>2. 0 \in 0 .. BeamLen + ProLen
    <3>1. BeamLen \in Nat /\ ProLen \in Nat
      BY SpecExecAssumption
    <3> QED
      BY <3>1
  <2> QED
    BY <1>1, <2>1, <2>2 DEF IInv, Rest
<1> QED
  BY <1>1, <1>8, <1>11, <1>12, <1>13, <1>14, <1>15, <1>16 DEF IInv

\* The path from the seed to the last accepted slot, as cells.
LEMMA AcceptedPathTyped ==
  ASSUME IInv, pc = "join", rpc.st = "answered", NEW acc, acc = Accepted(rpc.sel)
  PROVE  /\ \A k \in DOMAIN AcceptedPath(acc) : AcceptedPath(acc)[k] \in Cells
         /\ AcceptedPath(acc)[Len(AcceptedPath(acc))] \in Cells
<1> DEFINE P == {i \in acc : i >= tree.prefix - 1}
           N == Cardinality(P)
           path == AcceptedPath(acc)
<1>1. /\ acc \subseteq Slots /\ 0 .. tree.prefix - 1 \subseteq acc
      /\ \A i \in acc : tree.node[i].tok \in Tok
  BY AcceptedFacts
<1>2. TreeTyped(tree) /\ tree.prefix \in Nat /\ 1 <= tree.prefix
  BY Joined, Settled DEF Grown
<1>3. P \subseteq Slots /\ tree.prefix - 1 \in P
  BY <1>1, <1>2
<1>4. path = [k \in 1 .. N |-> Cell(tree.node[Nth(P, k - 1)].pos, tree.node[Nth(P, k - 1)].tok)]
  BY DEF AcceptedPath
<1>5. \A i \in P : i \in acc
  OBVIOUS
<1> HIDE DEF P, path
<1>6. IsFiniteSet(P) /\ P \subseteq Int /\ N \in Nat /\ N # 0
  BY <1>3, SlotSets, FS_EmptySet
<1>7. ASSUME NEW k \in 1 .. N PROVE path[k] \in Cells
  <2> DEFINE i == Nth(P, k - 1)
  <2>1. k - 1 \in 0 .. N - 1
    BY <1>6
  <2>2. i \in P
    BY <1>6, <2>1, NthWorks
  <2>3. path[k] = <<tree.node[i].pos, tree.node[i].tok>>
    BY <1>4 DEF Cell
  <2> HIDE DEF i
  <2>4. tree.node[i].pos \in 0 .. MaxLen /\ tree.node[i].tok \in Tok
    BY <1>1, <1>2, <1>3, <1>5, <2>2, NodeFields
  <2> QED
    BY <2>3, <2>4 DEF Cells
<1>8. DOMAIN path = 1 .. N
  BY <1>4
<1>9. path \in [1 .. N -> Cells]
  BY <1>4, <1>7
<1>10. Len(path) = N
  <2> HIDE DEF N
  <2>1. path \in Seq(Cells)
    BY <1>6, <1>9
  <2> QED
    BY <1>6, <1>8, <2>1, DOMAIN path = 1 .. Len(path)
<1>11. N \in 1 .. N
  BY <1>6
<1>12. \A k \in DOMAIN path : path[k] \in Cells
  BY <1>7, <1>8
<1>13. path[Len(path)] \in Cells
  BY <1>7, <1>10, <1>11
<1> QED
  BY <1>12, <1>13 DEF path

\* accept_path leaves a cache.
LEMMA AcceptPathTyped ==
  ASSUME NEW c, KvTyped(c), NEW keep \in Seqs, NEW path, \A k \in DOMAIN path : path[k] \in Cells,
         path[Len(path)] \in Cells
  PROVE  KvTyped(AcceptPath(c, keep, path))
<1> DEFINE tip == path[Len(path)]
           D == Seqs \cup {CommittedSeq}
<1>0. 0 \in D /\ CommittedSeq \in D /\ keep \in D
  BY SeqsAssumption DEF Seqs
<1>1. CASE Recurrent
  <2> DEFINE c1 == DroppedBranches(c)
             c2 == AdvanceCommitted(c1, path)
  <2>1. KvTyped(c1)
    BY DEF KvTyped, DroppedBranches
  <2> HIDE DEF c1
  <2>2. KvTyped(c2)
    BY <1>0, <2>1, PathTyped DEF AdvanceCommitted, D
  <2> HIDE DEF c2
  <2>3. KvTyped(SeqCp(c2, CommittedSeq, 0))
    BY <1>0, <2>2, CopyTyped DEF D
  <2> QED
    BY <1>1, <2>3 DEF AcceptPath, c1, c2
<1>2. CASE ~Recurrent
  <2> DEFINE c1 == CollapseToSeq(c, keep, tip[1] - 1)
             rows == [s \in {0} |-> tip]
  <2>1. \A p0 : SeqRm(c, keep, p0)[keep] \subseteq Cells
    BY DEF KvTyped, SeqRm
  <2>2. KvTyped(c1)
    BY <2>1 DEF KvTyped, CollapseToSeq
  <2>3. \A s \in DOMAIN rows : rows[s] \in Cells
    OBVIOUS
  <2> HIDE DEF c1, rows
  <2>4. KvTyped(Decode(c1, rows))
    BY <2>2, <2>3, DecodeTyped
  <2> QED
    BY <1>2, <2>4 DEF AcceptPath, c1, rows
<1> QED
  BY <1>1, <1>2

\* The bonus token, added behind the accepted path, is the next seed.
Reseeded(t1, seed) ==
  SetStatus(SetPrefixLen(Add(t1, <<seed>>), Add(t1, <<seed>>).end), 0 .. Add(t1, <<seed>>).end - 2, kPrompt)

\* The tree t1 is the accepted path alone, n slots, and seed is a bonus token for slot n.
Seeds(t1, n, seed) ==
  /\ n \in Nat /\ TreeTyped(t1) /\ Shaped(t1, n, n) /\ t1.end = n /\ t1.prefix = n
  /\ \A i \in 0 .. n - 1 : t1.node[i].tok \in Tok
  /\ seed \in NodeRec(Tok \cup {0}, Seqs) /\ seed.tok \in Tok /\ seed.par = n - 1
  /\ seed.pos = t1.node[n - 1].pos + 1 /\ seed.st = kCandidate /\ 1 <= MaxLen - n

\* Behind the accepted chain, the bonus token makes a tree of one candidate.
LEMMA ReseedGrown ==
  ASSUME NEW t1, NEW n, NEW seed, Seeds(t1, n, seed)
  PROVE  /\ Grown(Reseeded(t1, seed), n + 1, n + 1, n + 1)
         /\ Reseeded(t1, seed).prefix = n + 1 /\ Reseeded(t1, seed).end = n + 1
         /\ \A i \in 0 .. n - 1 : Reseeded(t1, seed).node[i].tok = t1.node[i].tok
         /\ Reseeded(t1, seed).node[n].tok = seed.tok
         /\ Reseeded(t1, seed).node[n].seq = seed.seq /\ Reseeded(t1, seed).node[n].st = kCandidate
<1> DEFINE kids == <<seed>>
           t2 == Add(t1, kids)
           t3 == SetPrefixLen(t2, t2.end)
           S == 0 .. t2.end - 2
           u == SetStatus(t3, S, kPrompt)
           X == NodeRec(Tok \cup {0}, Seqs)
<1> /\ n \in Nat /\ TreeTyped(t1) /\ Shaped(t1, n, n) /\ t1.end = n /\ t1.prefix = n
    /\ \A i \in 0 .. n - 1 : t1.node[i].tok \in Tok
    /\ seed \in NodeRec(Tok \cup {0}, Seqs) /\ seed.tok \in Tok /\ seed.par = n - 1
    /\ seed.pos = t1.node[n - 1].pos + 1 /\ seed.st = kCandidate /\ 1 <= MaxLen - n
  BY DEF Seeds
<1>1. MaxLen \in Nat /\ n \in 1 .. MaxLen
  BY MaxLenAssumption DEF Shaped
<1>2. kids \in Seq(X) /\ Len(kids) = 1 /\ kids[1] = seed
  <2>1. seed \in X
    OBVIOUS
  <2> HIDE DEF X
  <2> QED
    BY <2>1
<1> HIDE DEF kids, X
<1>3. TreeTyped(t2) /\ Shaped(t2, n, n + 1) /\ Added(t1, kids, t2)
  <2>1. /\ Shaped(t1, n, t1.end) /\ Len(kids) <= MaxLen - t1.end
        /\ \A k \in 1 .. Len(kids) : /\ kids[k].par \in n - 1 .. t1.end - 1
                                     /\ kids[k].pos = t1.node[kids[k].par].pos + 1
    <3>1. \A k \in 1 .. Len(kids) : k = 1
      BY <1>2
    <3>2. n - 1 \in n - 1 .. n - 1
      BY <1>1
    <3> QED
      BY <1>2, <3>1, <3>2
  <2>2. Typed(t1, Tok \cup {0}, Seqs) /\ kids \in Seq(NodeRec(Tok \cup {0}, Seqs))
    BY <1>2 DEF TreeTyped, X
  <2>3. /\ Typed(t2, Tok \cup {0}, Seqs) /\ Shaped(t2, n, t1.end + Len(kids)) /\ Added(t1, kids, t2)
    <3> HIDE DEF t2
    <3> QED
      BY <2>1, <2>2, AddShape DEF t2
  <2> QED
    BY <1>2, <2>3 DEF TreeTyped
<1> HIDE DEF t2
<1>4. /\ t2.end = n + 1 /\ t2.node[n] = seed
      /\ \A s \in 0 .. n - 1 : s \in Slots /\ t2.node[s] = t1.node[s]
  <2>1. t1.end \in t1.end .. t1.end + Len(kids) - 1 /\ t1.end - t1.end + 1 = 1
    BY <1>1, <1>2
  <2>2. \A s \in 0 .. n - 1 : s \in Slots /\ s < t1.end
    BY <1>1 DEF Slots
  <2> QED
    BY <1>2, <1>3, <2>1, <2>2 DEF Added
<1>5. n + 1 \in 1 .. MaxLen
  BY <1>1
<1>6. TreeTyped(t3) /\ t3.node = t2.node /\ t3.mask = t2.mask /\ t3.prefix = n + 1 /\ t3.end = n + 1
  BY <1>3, <1>4, <1>5 DEF TreeTyped, Typed, SetPrefixLen
<1> HIDE DEF t3
<1>7. TreeTyped(u) /\ Marked(t3, S, kPrompt, u)
  BY <1>6, StatusFields DEF TreeTyped, Status
<1> HIDE DEF u
<1>8. S = 0 .. n - 1
  <2>1. (n + 1) - 2 = n - 1
    OBVIOUS
  <2> QED
    BY <1>4, <2>1
<1> HIDE DEF S
<1>9. ASSUME NEW s \in 0 .. (n + 1) - 1
      PROVE  /\ u.node[s].tok = t2.node[s].tok /\ u.node[s].pos = t2.node[s].pos
             /\ u.node[s].seq = t2.node[s].seq
             /\ u.node[s].par = t2.node[s].par /\ u.mask[s] = t2.mask[s]
             /\ u.node[s].st = IF s \in S THEN kPrompt ELSE t2.node[s].st
  <2>1. s \in Slots
    BY <1>1, <1>5 DEF Slots
  <2>2. u.node[s] = [t2.node[s] EXCEPT !.st = IF s \in S THEN kPrompt ELSE @] /\ u.mask = t2.mask
    BY <1>6, <1>7, <2>1 DEF Marked
  <2>3. t2.node[s] \in NodeRec(Tok \cup {0}, Seqs)
    BY <1>3, <2>1, NodeFields
  <2> QED
    BY <2>2, <2>3 DEF NodeRec
<1>10. Shaped(u, n, n + 1)
  BY <1>3, <1>9, SameShape
<1>11. n \in 0 .. (n + 1) - 1 /\ n \notin S /\ \A s \in 0 .. n - 1 : s \in 0 .. (n + 1) - 1 /\ s \in S
  BY <1>1, <1>8
<1>12. Shaped(u, n + 1, n + 1)
  <2>1. n + 1 \in 1 .. n + 1 /\ n + 1 \in 1 .. MaxLen
    BY <1>1, <1>5
  <2>2. ASSUME NEW i \in 1 .. (n + 1) - 1 PROVE Hangs(u, n + 1, i)
    <3>1. Hangs(u, n, i)
      BY <1>10 DEF Shaped
    <3>2. i < n \/ i = n
      BY <1>1
    <3>3. u.node[n].par = n - 1
      BY <1>4, <1>9, <1>11
    <3>4. i < n + 1 /\ ~(i >= n + 1)
      BY <1>1
    <3>5. u.node[i].par = i - 1
      BY <3>1, <3>2, <3>3 DEF Hangs
    <3> QED
      BY <3>1, <3>4, <3>5 DEF Hangs
  <2> QED
    BY <1>10, <2>1, <2>2 DEF Shaped
<1>13. \A i \in 0 .. n - 1 : u.node[i].tok = t1.node[i].tok /\ u.node[i].st = kPrompt
  BY <1>4, <1>9, <1>11
<1>14. u.node[n].tok = seed.tok /\ u.node[n].seq = seed.seq /\ u.node[n].st = kCandidate
  BY <1>4, <1>9, <1>11
<1>15. \A i \in 0 .. (n + 1) - 1 : i \in 0 .. n - 1 \/ i = n
  BY <1>1
<1>16. \A i \in 0 .. (n + 1) - 1 : u.node[i].tok \in Tok
  BY <1>13, <1>14, <1>15
<1>17. /\ (n + 1) - 2 = n - 1 /\ (\A i \in (n + 1) - 1 .. (n + 1) - 1 : i = n)
       /\ (\A i \in n + 1 .. (n + 1) - 1 : FALSE) /\ (\A i \in (n + 1) + 1 .. (n + 1) - 1 : FALSE)
       /\ n + 1 \in n + 1 .. n + 1
  BY <1>1
<1>18. /\ \A i \in 0 .. (n + 1) - 2 : u.node[i].st = kPrompt
       /\ \A i \in (n + 1) - 1 .. (n + 1) - 1 : u.node[i].st \in {kCandidate, kProcessed}
  BY <1>13, <1>14, <1>17
<1> DEFINE m == n + 1
<1>19. Grown(u, m, m, m)
  <2> HIDE DEF m
  <2>1. /\ TreeTyped(u) /\ Shaped(u, m, m) /\ m \in m .. m /\ \A i \in 0 .. m - 1 : u.node[i].tok \in Tok
    BY <1>7, <1>12, <1>16, <1>17 DEF m
  <2>2. (\A i \in m .. m - 1 : FALSE) /\ (\A i \in m + 1 .. m - 1 : FALSE)
    BY <1>17 DEF m
  <2>3. /\ \A i \in 0 .. m - 2 : u.node[i].st = kPrompt
        /\ \A i \in m - 1 .. m - 1 : u.node[i].st \in {kCandidate, kProcessed}
    BY <1>18 DEF m
  <2> QED
    BY <2>1, <2>2, <2>3 DEF Grown, Apart
<1>20. u.prefix = n + 1 /\ u.end = n + 1
  BY <1>6, <1>7 DEF Marked
<1>21. Reseeded(t1, seed) = u
  BY DEF Reseeded, u, t3, t2, S, kids
<1> QED
  BY <1>13, <1>14, <1>19, <1>20, <1>21

\* The miss path commits the accepted path and the bonus token.
LEMMA AcceptMissIInv ==
  ASSUME IInv, AcceptMiss
  PROVE  IInv' /\ (Still \/ Commits)
<1>0. PICK acc \in {Accepted(rpc.sel)} :
     LET path == AcceptedPath(acc)
         keep == tree.node[LastSlot(acc)].seq
         t1   == ReorderBySequence(tree, acc)
         seed == [tok |-> Bonus(acc), pos |-> t1.node[t1.end - 1].pos + 1,
                  par |-> t1.end - 1, st |-> kCandidate, lp |-> 0, seq |-> 0]
         t2   == Add(t1, <<seed>>)
     IN /\ ~BetWon(acc)
        /\ IF ~AcceptPathOk(kv, keep, path) THEN Die("decode")
           ELSE IF ~AddOk(t1, <<seed>>) THEN Die("max_len")
           ELSE Commit(SetStatus(SetPrefixLen(t2, t2.end), 0 .. t2.end - 2, kPrompt),
                       AcceptPath(kv, keep, path),
                       FALSE)
  BY DEF AcceptMiss
<1> DEFINE path == AcceptedPath(acc)
           keep == tree.node[LastSlot(acc)].seq
           t1   == ReorderBySequence(tree, acc)
           seed == [tok |-> Bonus(acc), pos |-> t1.node[t1.end - 1].pos + 1,
                    par |-> t1.end - 1, st |-> kCandidate, lp |-> 0, seq |-> 0]
           n == Cardinality(acc)
           kvp == AcceptPath(kv, keep, path)
<1>1. pc = "join" /\ rpc.st = "answered" /\ acc = Accepted(rpc.sel)
  BY DEF AcceptMiss
<1>2. \/ Die("decode") \/ Die("max_len")
      \/ AddOk(t1, <<seed>>) /\ Commit(Reseeded(t1, seed), kvp, FALSE)
  BY <1>0 DEF Reseeded
<1> HIDE DEF path, keep, t1, seed, kvp
<1>3. /\ Grown(tree, tree.prefix, tree.end, Extent) /\ bet.st # "drafting"
      /\ MaxLen \in Nat /\ tree.prefix \in Nat /\ tree.end \in Nat /\ Extent \in Nat
      /\ 1 <= tree.prefix /\ tree.prefix < tree.end /\ tree.end <= Extent /\ Extent <= MaxLen
      /\ \A i \in rpc.inputs : i \in Slots
  BY <1>1, Joined, Settled
<1>4. /\ acc \subseteq Slots /\ ReorderOk(tree, acc) /\ LastSlot(acc) \in rpc.inputs
      /\ Bonus(acc) \in Tok /\ \A i \in acc : tree.node[i].tok \in Tok
  BY <1>1, AcceptedFacts
<1>5. ASSUME NEW why \in {"decode", "max_len"}, Die(why) PROVE IInv' /\ Still
  BY <1>3, <1>5, DieIInv
<1>6. ASSUME AddOk(t1, <<seed>>), Commit(Reseeded(t1, seed), kvp, FALSE) PROVE IInv' /\ Commits
  <2>1. TreeTyped(tree) /\ 0 \in Seqs
    BY <1>3, SeqsAssumption DEF Grown, Seqs
  <2>2. TreeTyped(t1) /\ Shaped(t1, n, n) /\ Reordered(tree, acc, t1)
    BY <1>4, <2>1, ReorderShape DEF TreeTyped, t1
  <2>3. /\ n \in tree.prefix .. tree.end /\ t1.prefix = n /\ t1.end = n
        /\ \A i \in 0 .. n - 1 : t1.node[i].tok = tree.node[Nth(acc, i)].tok /\ t1.node[i].pos = i
        /\ \A i \in 0 .. tree.prefix - 1 : t1.node[i].tok = tree.node[i].tok
    BY <2>2 DEF Reordered
  <2>4. n \in Nat /\ n >= tree.prefix /\ n <= MaxLen /\ n >= 1 /\ n - 1 \in 0 .. n - 1
    BY <1>3, <2>3
  <2>5. IsFiniteSet(acc) /\ acc \subseteq Int
    BY <1>4, SlotSets
  <2>6. \A i \in 0 .. n - 1 : t1.node[i].tok \in Tok
    <3>1. \A i \in 0 .. n - 1 : Nth(acc, i) \in acc
      BY <2>5, NthWorks
    <3> QED
      BY <1>4, <2>3, <3>1
  <2>7. seed = [tok |-> Bonus(acc), pos |-> t1.node[n - 1].pos + 1, par |-> n - 1, st |-> kCandidate,
                lp |-> 0, seq |-> 0]
    BY <2>3 DEF seed
  <2>8. t1.node[n - 1].pos + 1 \in 0 .. MaxLen
    <3>1. t1.node[n - 1].pos = n - 1
      BY <2>3, <2>4
    <3> HIDE DEF n
    <3> QED
      BY <1>3, <2>4, <3>1
  <2>9. n - 1 \in Slots
    <3> HIDE DEF n
    <3> QED
      BY <1>3, <2>4 DEF Slots
  <2>10. /\ seed \in NodeRec(Tok \cup {0}, Seqs) /\ seed.tok = Bonus(acc) /\ seed.par = n - 1
         /\ seed.pos = t1.node[n - 1].pos + 1 /\ seed.st = kCandidate
    <3> HIDE DEF n
    <3> QED
      BY <1>4, <2>1, <2>7, <2>8, <2>9 DEF NodeRec, Status
  <2>11. 1 <= MaxLen - n
    <3>1. Len(<<seed>>) = 1
      OBVIOUS
    <3> QED
      BY <1>6, <2>3, <3>1 DEF AddOk
  <2> DEFINE u == Reseeded(t1, seed)
  <2>12. /\ Grown(u, n + 1, n + 1, n + 1) /\ u.prefix = n + 1 /\ u.end = n + 1
         /\ \A i \in 0 .. n - 1 : u.node[i].tok = t1.node[i].tok
         /\ u.node[n].tok = Bonus(acc)
    <3> HIDE DEF n, u, seed, t1
    <3>1. TreeTyped(t1) /\ Shaped(t1, n, n) /\ t1.end = n /\ t1.prefix = n /\ n \in Nat
      BY <2>2, <2>3, <2>4
    <3>2. seed.tok \in Tok
      BY <1>4, <2>10
    <3>4. Seeds(t1, n, seed)
      BY <2>6, <2>10, <2>11, <3>1, <3>2 DEF Seeds
    <3>3. /\ Grown(Reseeded(t1, seed), n + 1, n + 1, n + 1)
          /\ Reseeded(t1, seed).prefix = n + 1 /\ Reseeded(t1, seed).end = n + 1
          /\ \A i \in 0 .. n - 1 : Reseeded(t1, seed).node[i].tok = t1.node[i].tok
          /\ Reseeded(t1, seed).node[n].tok = seed.tok
          /\ Reseeded(t1, seed).node[n].seq = seed.seq
          /\ Reseeded(t1, seed).node[n].st = kCandidate
      BY <3>4, ReseedGrown
    <3> QED
      BY <2>10, <3>3 DEF u
  <2> HIDE DEF u, n
  <2>13. Grown(u, u.prefix, u.end, u.end) /\ u.prefix >= tree.prefix
    BY <1>3, <2>4, <2>12
  <2>14. \A i \in 0 .. tree.prefix - 1 : u.node[i].tok = tree.node[i].tok
    <3>1. \A i \in 0 .. tree.prefix - 1 : i \in 0 .. n - 1
      BY <1>3, <2>4
    <3> QED
      BY <2>3, <2>12, <3>1
  <2>15. KvTyped(kvp)
    <3>1. keep \in Seqs
      BY <1>3, <1>4, <2>1, NodeFields DEF keep
    <3>2. (\A k \in DOMAIN path : path[k] \in Cells) /\ path[Len(path)] \in Cells
      BY <1>1, AcceptedPathTyped DEF path
    <3>3. KvTyped(kv)
      BY DEF IInv, Rest
    <3> QED
      BY <3>1, <3>2, <3>3, AcceptPathTyped DEF kvp
  <2>16. Commit(u, kvp, FALSE)
    BY <1>6 DEF u
  <2>17. /\ IInv'
         /\ tree' = u /\ rpc' = NoRpc /\ bet' = NoBet /\ srv' = srv /\ ~gen'.first
    BY <1>1, <2>13, <2>14, <2>15, <2>16, CommitIInv
  <2>18. Commits
    BY <1>1, <2>3, <2>12, <2>17 DEF Commits, n
  <2> QED
    BY <2>17, <2>18
<1> QED
  BY <1>2, <1>5, <1>6

\* A won bet's subtree, spliced in behind the accepted path, is a round's tree
\* again: its root is committed, its statuses are this round's.
LEMMA SpliceGrown ==
  ASSUME NEW t, NEW e, Grown(t, t.prefix, t.end, e), NEW acc, acc \subseteq Slots,
         ReorderProactiveOk(t, acc, t.end, e), \A i \in acc : t.node[i].tok \in Tok,
         NEW q \in Seqs, NEW u, u = ReorderProactive(t, acc, t.end, e, q)
  PROVE  /\ Grown(u, u.prefix, u.end, u.end) /\ u.prefix >= t.prefix
         /\ Spliced(t, acc, t.end, e, q, u)
<1> DEFINE b == t.end
           n == Cardinality(acc)
           m == n + (e - b)
<1>1. /\ MaxLen \in Nat /\ t.prefix \in Nat /\ b \in Nat /\ e \in Nat
      /\ 1 <= t.prefix /\ t.prefix <= b /\ b <= e /\ e <= MaxLen
      /\ 0 .. e - 1 \subseteq Slots
      /\ \A i \in t.prefix .. e - 1 : t.node[i].par \in t.prefix - 1 .. i - 1
  BY GrownNumbers
<1>2. b < e /\ m <= MaxLen
  BY DEF ReorderProactiveOk
<1>3. 0 \in Seqs /\ TreeTyped(t) /\ Shaped(t, t.prefix, e)
  BY SeqsAssumption DEF Seqs, Grown
<1>4. /\ \A i \in t.prefix .. e - 1 : i # b /\ t.node[i].par >= t.prefix => t.node[i].lp < t.node[t.node[i].par].lp
      /\ \A i \in b .. e - 1 : t.node[i].st \in {kPostCandidate, kPostProcessed} /\ t.node[i].tok \in Tok
      /\ \A i \in b + 1 .. e - 1 : t.node[i].par >= b
  <2>1. \A i \in b .. e - 1 : i \in 0 .. e - 1
    BY <1>1
  <2> QED
    BY <2>1 DEF Grown
<1>5. ASSUME NEW s \in b + 1 .. e - 1
      PROVE  /\ t.node[s].par \in b .. s - 1 /\ t.node[s].pos = t.node[t.node[s].par].pos + 1
             /\ s \in t.prefix .. e - 1 /\ s # b
  <2> HIDE DEF b
  <2>1. s \in 1 .. e - 1 /\ s \in t.prefix .. e - 1 /\ s # b
    BY <1>1
  <2>2. Hangs(t, t.prefix, s)
    BY <1>3, <2>1 DEF Shaped
  <2>3. t.node[s].par \in 0 .. s - 1 /\ t.node[s].par >= b
    BY <1>4, <2>2 DEF Hangs
  <2>4. t.node[s].par \in b .. s - 1
    BY <1>1, <2>3
  <2> QED
    BY <2>1, <2>2, <2>4 DEF Hangs
<1> HIDE DEF b
<1>6. TreeTyped(u) /\ Shaped(u, n + 1, m) /\ Spliced(t, acc, b, e, q, u)
  <2>1. u = ReorderProactive(t, acc, b, e, q) /\ ReorderProactiveOk(t, acc, b, e)
    BY DEF b
  <2>2. \A s \in b + 1 .. e - 1 : t.node[s].par \in b .. s - 1 /\ t.node[s].pos = t.node[t.node[s].par].pos + 1
    BY <1>5
  <2> DEFINE T == Tok \cup {0}
  <2>3. Typed(t, T, Seqs) /\ 0 \in T /\ 0 \in Seqs /\ b \in Nat /\ e \in Nat
    BY <1>1, <1>3 DEF TreeTyped
  <2> HIDE DEF T, n
  <2>4. /\ Typed(ReorderProactive(t, acc, b, e, q), T, Seqs)
        /\ Shaped(ReorderProactive(t, acc, b, e, q), Cardinality(acc) + 1, Cardinality(acc) + (e - b))
        /\ Spliced(t, acc, b, e, q, ReorderProactive(t, acc, b, e, q))
    BY <2>1, <2>2, <2>3, ProactiveShape
  <2> QED
    BY <2>1, <2>4 DEF TreeTyped, T, n
<1>7. n \in t.prefix .. b /\ u.prefix = n + 1 /\ u.end = m
  BY <1>6 DEF Spliced, b
<1>8. IsFiniteSet(acc) /\ acc \subseteq Int
  BY SlotSets
<1>9. \A i \in 0 .. n - 1 : u.node[i].tok \in Tok /\ u.node[i].st = kPrompt
  <2>1. \A i \in 0 .. n - 1 : Nth(acc, i) \in acc
    BY <1>8, NthWorks
  <2> QED
    BY <1>6, <2>1 DEF Spliced
<1> DEFINE at(s) == n + (s - b)
<1>10. ASSUME NEW s \in b .. e - 1
       PROVE  /\ u.node[at(s)].tok \in Tok /\ u.node[at(s)].lp = t.node[s].lp
              /\ u.node[at(s)].st \in {kCandidate, kProcessed}
              /\ s > b => u.node[at(s)].par = at(t.node[s].par)
  <2>1. /\ u.node[at(s)].tok = t.node[s].tok /\ u.node[at(s)].lp = t.node[s].lp
        /\ u.node[at(s)].st = (IF s = b THEN kProcessed ELSE Promoted(t.node[s].st))
        /\ s > b => u.node[at(s)].par = at(t.node[s].par)
    BY <1>6 DEF Spliced
  <2>2. t.node[s].tok \in Tok /\ t.node[s].st \in {kPostCandidate, kPostProcessed}
    BY <1>4
  <2>3. Promoted(t.node[s].st) \in {kCandidate, kProcessed}
    BY <2>2 DEF Promoted, kPostCandidate, kPostProcessed, kCandidate, kProcessed
  <2> QED
    BY <2>1, <2>2, <2>3
<1> HIDE DEF n
<1>11. /\ n \in Nat /\ m \in Nat /\ n >= t.prefix /\ n + 1 <= m /\ m <= MaxLen
  BY <1>1, <1>2, <1>7
<1>12. ASSUME NEW i \in n .. m - 1
       PROVE  \E s \in b .. e - 1 : i = at(s) /\ (i > n => s > b)
  <2>1. b + (i - n) \in b .. e - 1 /\ i = at(b + (i - n)) /\ (i > n => b + (i - n) > b)
    BY <1>1, <1>11
  <2> QED
    BY <2>1
<1> HIDE DEF m
<1>13. \A i \in 0 .. m - 1 : i \in 0 .. n - 1 \/ i \in n .. m - 1
  BY <1>11
<1>14. \A i \in n .. m - 1 : u.node[i].tok \in Tok /\ u.node[i].st \in {kCandidate, kProcessed}
  BY <1>10, <1>12
<1>15. ASSUME NEW i \in n + 1 .. m - 1, u.node[i].par >= n + 1
       PROVE  u.node[i].lp < u.node[u.node[i].par].lp
  <2>1. i \in n .. m - 1 /\ i > n
    BY <1>11
  <2>2. PICK s \in b .. e - 1 : i = at(s) /\ s > b
    BY <1>12, <2>1
  <2>3. s \in b + 1 .. e - 1
    BY <1>1, <2>2
  <2> DEFINE p == t.node[s].par
  <2>4. p \in b .. s - 1 /\ s \in t.prefix .. e - 1 /\ s # b
    BY <1>5, <2>3
  <2>5. u.node[i].par = at(p) /\ u.node[i].lp = t.node[s].lp
    BY <1>10, <2>2
  <2> HIDE DEF p
  <2>6. p \in b .. e - 1 /\ p >= t.prefix
    BY <1>1, <2>3, <2>4
  <2>7. u.node[at(p)].lp = t.node[p].lp
    BY <1>10, <2>6
  <2>8. t.node[s].lp < t.node[p].lp
    BY <1>4, <2>4, <2>6 DEF p
  <2> QED
    BY <2>5, <2>7, <2>8
<1>19. Apart(u, n + 1, m)
  <2>1. ASSUME NEW i \in n + 1 .. m - 1
        PROVE  \E s \in b + 1 .. e - 1 : i = at(s)
    <3>1. i \in n .. m - 1 /\ i > n
      BY <1>11
    <3>2. PICK s \in b .. e - 1 : i = at(s) /\ s > b
      BY <1>12, <3>1
    <3>3. s \in b + 1 .. e - 1
      BY <1>1, <3>2
    <3> QED
      BY <3>2, <3>3
  <2>2. ASSUME NEW s \in b + 1 .. e - 1
        PROVE  /\ s \in t.prefix .. e - 1 /\ t.node[s].par \in b .. e - 1
               /\ u.node[at(s)].tok = t.node[s].tok /\ u.node[at(s)].par = at(t.node[s].par)
               /\ u.node[at(t.node[s].par)].st = kProcessed
    <3> DEFINE p == t.node[s].par
    <3>1. p \in b .. s - 1 /\ s \in t.prefix .. e - 1 /\ s \in b .. e - 1 /\ s > b
      BY <1>1, <1>5
    <3>2. p \in b .. e - 1
      BY <1>1, <3>1
    <3>3. t.node[p].st \notin {kCandidate, kPostCandidate} /\ t.node[p].st \in {kPostCandidate, kPostProcessed}
      BY <1>4, <3>1, <3>2 DEF Grown, Apart
    <3>4. Promoted(t.node[p].st) = kProcessed
      BY <3>3 DEF Promoted, kPostCandidate, kPostProcessed
    <3> HIDE DEF p
    <3>5. u.node[at(p)].st = kProcessed
      <4>1. u.node[at(p)].st = (IF p = b THEN kProcessed ELSE Promoted(t.node[p].st))
        BY <1>6, <3>2 DEF Spliced, n
      <4> QED
        BY <3>4, <4>1
    <3>6. u.node[at(s)].tok = t.node[s].tok /\ u.node[at(s)].par = at(p)
      BY <1>6, <3>1 DEF Spliced, n, p
    <3> QED
      BY <3>1, <3>2, <3>5, <3>6 DEF p
  <2>3. \A i \in n + 1 .. m - 1 : u.node[u.node[i].par].st \notin {kCandidate, kPostCandidate}
    <3>1. kProcessed \notin {kCandidate, kPostCandidate}
      BY DEF kProcessed, kCandidate, kPostCandidate
    <3> HIDE DEF at
    <3> QED
      BY <2>1, <2>2, <3>1
  <2>4. ASSUME NEW i \in n + 1 .. m - 1, NEW j \in n + 1 .. m - 1, i # j, u.node[i].par = u.node[j].par
        PROVE  u.node[i].tok # u.node[j].tok
    <3>1. PICK s \in b + 1 .. e - 1 : i = at(s)
      BY <2>1
    <3>2. PICK q2 \in b + 1 .. e - 1 : j = at(q2)
      BY <2>1
    <3>3. at(t.node[s].par) = at(t.node[q2].par) /\ s # q2
      BY <2>2, <2>4, <3>1, <3>2
    <3>4. t.node[s].par = t.node[q2].par
      <4> DEFINE x == t.node[s].par
                 y == t.node[q2].par
      <4>1. x \in b .. e - 1 /\ y \in b .. e - 1 /\ at(x) = at(y)
        BY <2>2, <3>3
      <4> HIDE DEF x, y
      <4>2. x = y
        BY <1>1, <1>11, <4>1, SMTT(30)
      <4> QED
        BY <4>2 DEF x, y
    <3>5. t.node[s].tok # t.node[q2].tok
      BY <2>2, <3>3, <3>4, SMTT(30) DEF Grown, Apart
    <3> HIDE DEF at
    <3> QED
      BY <2>2, <3>1, <3>2, <3>5
  <2> DEFINE c == n + 1
  <2>5. /\ \A i, j \in c .. m - 1 : i # j /\ u.node[i].par = u.node[j].par => u.node[i].tok # u.node[j].tok
        /\ \A i \in c .. m - 1 : u.node[u.node[i].par].st \notin {kCandidate, kPostCandidate}
    BY <2>3, <2>4
  <2> HIDE DEF c
  <2> QED
    BY <2>5 DEF Apart, c
<1>16. Grown(u, n + 1, m, m)
  <2>1. /\ (n + 1) - 1 = n /\ (n + 1) - 2 = n - 1 /\ m \in n + 1 .. m
        /\ (\A i \in m .. m - 1 : FALSE) /\ (\A i \in m + 1 .. m - 1 : FALSE)
    BY <1>11
  <2>2. \A i \in 0 .. m - 1 : u.node[i].tok \in Tok
    BY <1>9, <1>13, <1>14
  <2>3. \A i \in 0 .. (n + 1) - 2 : u.node[i].st = kPrompt
    BY <1>9, <2>1
  <2>4. \A i \in (n + 1) - 1 .. m - 1 : u.node[i].st \in {kCandidate, kProcessed}
    BY <1>14, <2>1
  <2>5. Shaped(u, n + 1, m)
    BY <1>6 DEF n, m
  <2> DEFINE c == n + 1
  <2>6. \A i \in c .. m - 1 : i # m /\ u.node[i].par >= c => u.node[i].lp < u.node[u.node[i].par].lp
    BY <1>15
  <2> HIDE DEF c
  <2> QED
    BY <1>6, <1>19, <2>1, <2>2, <2>3, <2>4, <2>5, <2>6 DEF Grown, c
<1>17. u.prefix = n + 1 /\ u.end = m
  BY <1>7 DEF m
<1>18. u.prefix >= t.prefix
  BY <1>1, <1>11, <1>17
<1> QED
  BY <1>6, <1>16, <1>17, <1>18 DEF b

\* The hit path commits the accepted path and the bonus token, and keeps the
\* rest of the bet's subtree as this round's tree.
LEMMA AcceptHitIInv ==
  ASSUME IInv, AcceptHit
  PROVE  IInv' /\ (Still \/ Commits)
<1>0. PICK acc \in {Accepted(rpc.sel)} :
     LET path == AcceptedPath(acc)
         kv1  == IF Recurrent THEN AdvanceCommitted(kv, path) ELSE kv
     IN /\ BetWon(acc)
        /\ IF Recurrent /\ ~AdvanceCommittedOk(kv, path) THEN Die("decode")
           ELSE IF ~ReorderProactiveOk(tree, acc, bet.begin, bet.stop)
           THEN Die("splice")
           ELSE Commit(ReorderProactive(tree, acc, bet.begin, bet.stop,
                                        tree.node[bet.begin].seq),
                       CollapseToSeqs(kv1, bet.seqs),
                       TRUE)
  BY DEF AcceptHit
<1> DEFINE path == AcceptedPath(acc)
           kv1 == IF Recurrent THEN AdvanceCommitted(kv, path) ELSE kv
           q == tree.node[bet.begin].seq
           u == ReorderProactive(tree, acc, bet.begin, bet.stop, q)
           kvp == CollapseToSeqs(kv1, bet.seqs)
<1>1. pc = "join" /\ rpc.st = "answered" /\ acc = Accepted(rpc.sel) /\ BetWon(acc)
  BY <1>0 DEF AcceptHit
<1>2. \/ Die("decode") \/ Die("splice")
      \/ ReorderProactiveOk(tree, acc, bet.begin, bet.stop) /\ Commit(u, kvp, TRUE)
  BY <1>0
<1> HIDE DEF path, kv1, u, kvp, q
<1>3. /\ bet.st # "drafting" /\ Grown(tree, tree.prefix, tree.end, Extent)
      /\ tree.end \in Nat /\ tree.prefix \in Nat
  BY <1>1, Joined, Settled
<1>4. bet.st = "placed" /\ Extent = bet.stop /\ bet.begin = tree.end
  BY <1>1 DEF BetWon, Extent, IInv, Bets
<1>5. ASSUME NEW why \in {"decode", "splice"}, Die(why) PROVE IInv' /\ Still
  BY <1>3, <1>5, DieIInv
<1>6. ASSUME ReorderProactiveOk(tree, acc, bet.begin, bet.stop), Commit(u, kvp, TRUE) PROVE IInv' /\ Commits
  <2>1. acc \subseteq Slots /\ \A i \in acc : tree.node[i].tok \in Tok
    BY <1>1, AcceptedFacts
  <2>2. bet.begin \in Slots
    <3>1. tree.end < bet.stop /\ bet.stop <= MaxLen /\ bet.stop \in Nat
      BY <1>3, <1>4, <1>6, GrownNumbers DEF ReorderProactiveOk
    <3> QED
      BY <1>3, <1>4, <3>1, MaxLenAssumption DEF Slots
  <2>3. q \in Seqs
    <3>1. TreeTyped(tree)
      BY <1>3 DEF Grown
    <3> QED
      BY <2>2, <3>1, NodeFields DEF q
  <2>4. /\ Grown(u, u.prefix, u.end, u.end) /\ u.prefix >= tree.prefix
        /\ Spliced(tree, acc, tree.end, bet.stop, q, u)
    <3>1. u = ReorderProactive(tree, acc, tree.end, bet.stop, q)
      BY <1>4 DEF u
    <3>2. ReorderProactiveOk(tree, acc, tree.end, bet.stop) /\ Grown(tree, tree.prefix, tree.end, bet.stop)
      BY <1>3, <1>4, <1>6
    <3> QED
      BY <2>1, <2>3, <3>1, <3>2, SpliceGrown
  <2>5. \A i \in 0 .. tree.prefix - 1 : u.node[i].tok = tree.node[i].tok
    BY <2>4 DEF Spliced
  <2>6. KvTyped(kvp)
    <3>1. \A k \in DOMAIN path : path[k] \in Cells
      BY <1>1, AcceptedPathTyped DEF path
    <3>2. KvTyped(kv) /\ CommittedSeq \in Seqs \cup {CommittedSeq}
      BY DEF IInv, Rest
    <3>3. KvTyped(DecodePath(kv, CommittedSeq, path))
      BY <3>1, <3>2, PathTyped
    <3>4. KvTyped(kv1)
      BY <3>2, <3>3 DEF kv1, AdvanceCommitted
    <3> QED
      BY <3>4 DEF kvp, CollapseToSeqs, KvTyped
  <2>7. /\ IInv'
        /\ tree' = u /\ rpc' = NoRpc /\ bet' = NoBet /\ srv' = srv /\ ~gen'.first
    BY <1>1, <1>6, <2>4, <2>5, <2>6, CommitIInv
  <2> DEFINE n == Cardinality(acc)
  <2>8. u.prefix = n + 1 /\ \A i \in 0 .. n - 1 : u.node[i].tok = tree.node[Nth(acc, i)].tok
    BY <2>4 DEF Spliced
  <2>9. u.node[n].tok = Bonus(acc)
    <3>1. tree.end \in tree.end .. bet.stop - 1 /\ n \in Nat /\ n + (tree.end - tree.end) = n
      <4>1. tree.end < bet.stop /\ bet.stop \in Nat
        BY <1>3, <1>4, <1>6, GrownNumbers DEF ReorderProactiveOk
      <4>2. n \in Nat
        BY <2>1, SlotSets
      <4> HIDE DEF n
      <4> QED
        BY <1>3, <4>1, <4>2
    <3>2. u.node[n + (tree.end - tree.end)].tok = tree.node[tree.end].tok
      BY <2>4, <3>1 DEF Spliced
    <3>3. tree.node[tree.end].tok = bet.tok /\ bet.tok = Bonus(acc)
      BY <1>1, <1>3, <1>4 DEF BetWon, IInv, Bets, RoundEnd, Drafting
    <3> QED
      BY <3>1, <3>2, <3>3
  <2>10. Commits
    BY <1>1, <2>7, <2>8, <2>9 DEF Commits
  <2> QED
    BY <2>7, <2>10
<1> QED
  BY <1>2, <1>5, <1>6

-----------------------------------------------------------------------------
(* The theorems *)

\* What the proofs below rest on: the phases of the main thread, the call and
\* the bet go together, the tree is one tree in three parts, the bet's subtree
\* stands where the bet says, the request describes the round's nodes.  Every
\* step of the client, the server and the oracle keeps it.
THEOREM AlwaysIInv == Spec => []IInv
<1>1. Init => IInv
  BY InitIInv
<1>2. IInv /\ [Next]_vars => IInv'
  <2> SUFFICES ASSUME IInv, [Next]_vars PROVE IInv'
    OBVIOUS
  <2>1. CASE GrowLevel
    BY <2>1, GrowLevelIInv
  <2>2. CASE GrowDone
    BY <2>2, GrowDoneIInv
  <2>3. CASE StartValidate
    BY <2>3, StartValidateIInv
  <2>4. CASE ServerAnswer
    BY <2>4, ServerAnswerIInv
  <2>5. CASE ServerFail
    BY <2>5, ServerFailIInv
  <2>6. CASE OracleAnswer
    BY <2>6, OracleAnswerIInv
  <2>7. CASE ChooseBet
    BY <2>7, ChooseBetIInv
  <2>8. CASE DraftLevel
    BY <2>8, DraftLevelIInv
  <2>9. CASE AcceptHit
    BY <2>9, AcceptHitIInv
  <2>10. CASE AcceptMiss
    BY <2>10, AcceptMissIInv
  <2>11. CASE JoinFailed
    BY <2>11, JoinFailedIInv
  <2>12. CASE UNCHANGED vars
    BY <2>12 DEF IInv, Phases, Records, Trees, Bets, Request, Generated, Rest, Extent, CommittedLen,
                 RoundEnd, Drafting, RequestStillDescribesTree, vars
  <2> QED
    BY <2>1, <2>2, <2>3, <2>4, <2>5, <2>6, <2>7, <2>8, <2>9, <2>10, <2>11, <2>12 DEF Next, Finished
<1> QED
  BY <1>1, <1>2, PTL DEF Spec

\* The bounds of the parts of the tree in every state.
LEMMA Bounds ==
  ASSUME IInv
  PROVE  /\ MaxLen \in Nat /\ CommittedLen \in Nat /\ RoundEnd \in Nat /\ Extent \in Nat
         /\ tree.prefix \in Nat /\ tree.end \in Nat
         /\ 1 <= CommittedLen /\ CommittedLen <= RoundEnd /\ tree.end <= Extent /\ Extent <= MaxLen
         /\ 1 <= tree.prefix /\ tree.prefix <= tree.end
<1>1. Grown(tree, CommittedLen, RoundEnd, Extent)
  BY DEF IInv, Trees
<1>2. /\ MaxLen \in Nat /\ CommittedLen \in Nat /\ RoundEnd \in Nat /\ Extent \in Nat
      /\ 1 <= CommittedLen /\ CommittedLen <= RoundEnd /\ RoundEnd <= Extent /\ Extent <= MaxLen
  BY <1>1, GrownNumbers
<1>3. tree.prefix \in 1 .. MaxLen /\ tree.end \in 1 .. MaxLen
  BY <1>1 DEF Grown, TreeTyped, Typed
<1>4. CASE Drafting
  <2>1. Extent = tree.end /\ tree.prefix < tree.end
    BY <1>4 DEF Extent, Drafting, IInv, Bets
  <2> QED
    BY <1>2, <1>3, <2>1
<1>5. CASE ~Drafting
  <2>1. CommittedLen = tree.prefix /\ RoundEnd = tree.end
    BY <1>5 DEF CommittedLen, RoundEnd
  <2> QED
    BY <1>2, <1>3, <2>1
<1> QED
  BY <1>4, <1>5

\* The type of every variable of a request, at every configuration.
THEOREM AlwaysTyped == Spec => []TypeOK
<1>1. IInv => TypeOK
  <2> SUFFICES ASSUME IInv PROVE TypeOK
    OBVIOUS
  <2>1. TreeTyped(tree)
    BY DEF IInv, Trees, Grown
  <2>2. tree.node \in [Slots -> NodeType] /\ tree.mask \in [Slots -> SUBSET Slots]
    BY <2>1 DEF TreeTyped, Typed, NodeType, NodeRec
  <2>3. tree.prefix \in 1 .. MaxLen /\ tree.end \in tree.prefix .. MaxLen
    BY Bounds
  <2>4. /\ kv \in [Seqs \cup {CommittedSeq} -> SUBSET ((0 .. MaxLen) \X Tok)]
        /\ pool \in Pool /\ level \in 0 .. BeamLen + ProLen /\ prevHit \in BOOLEAN
        /\ srv \in [Slots -> Tok \cup {0}]
        /\ cause \in {"none", "decode", "seqs", "max_len", "no_targets", "splice", "rpc"}
    BY DEF IInv, Rest, KvTyped, Cells
  <2>5. /\ pc \in {"grow", "validate", "bet", "join", "done", "fatal"}
        /\ rpc.st \in {"idle", "sent", "answered", "failed"}
        /\ bet.st \in {"none", "drafting", "placed"}
    BY DEF IInv, Phases
  <2>6. rpc.inputs \subseteq Slots /\ gen \in [orig : 1 .. MaxLen, first : BOOLEAN, warm : Nat, eog : BOOLEAN]
    BY DEF IInv, Records
  <2>7. bet.seqs \subseteq Seqs
    BY DEF IInv, Records
  <2> QED
    BY <2>2, <2>3, <2>4, <2>5, <2>6, <2>7 DEF TypeOK
<1> QED
  BY <1>1, AlwaysIInv, PTL

\* add, TrimByBudget's gather, reorder_by_sequence and
\* reorder_by_sequence_proactive keep one tree over one committed chain, in any
\* order the rounds and the bets run them in.
THEOREM TreeStaysATree == Spec => []TreeShape
<1>1. IInv => TreeShape
  <2> SUFFICES ASSUME IInv PROVE TreeShape
    OBVIOUS
  <2>1. Shaped(tree, CommittedLen, Extent)
    BY DEF IInv, Trees, Grown
  <2>2. \A i \in 1 .. tree.end - 1 : i \in 1 .. Extent - 1 /\ i \in Nat
    BY Bounds
  <2>3. ASSUME NEW i \in 1 .. tree.end - 1
        PROVE  LET p == tree.node[i].par
               IN /\ p < i
                  /\ tree.mask[i] = tree.mask[p] \cup {i}
                  /\ tree.node[i].pos = tree.node[p].pos + 1
                  /\ i < CommittedLen => p = i - 1
    <3>1. Hangs(tree, CommittedLen, i) /\ i \in Nat
      BY <2>1, <2>2 DEF Shaped
    <3> QED
      BY <3>1 DEF Hangs
  <2>4. tree.mask[0] = {0}
    BY <2>1 DEF Shaped
  <2> QED
    BY <2>3, <2>4 DEF TreeShape
<1> QED
  BY <1>1, AlwaysIInv, PTL

\* While the call is in flight, and when its answer is read, every row of the
\* request is the node it was built from, whatever ProactiveDraft did meanwhile.
THEOREM AnswerIsReadAgainstItsTree == Spec => []RequestStillDescribesTree
<1>1. IInv => RequestStillDescribesTree
  BY DEF IInv, Request
<1> QED
  BY <1>1, AlwaysIInv, PTL

\* No request exceeds max_budget drafted nodes and the seed.
THEOREM RequestsKeepBudget == Spec => []WithinBudget
<1>1. IInv => WithinBudget
  <2> SUFFICES ASSUME IInv, rpc.st # "idle" PROVE Cardinality(rpc.inputs) <= Budget + 1
    BY DEF WithinBudget
  <2> DEFINE a == CommittedLen - 1
             b == RoundEnd
  <2>1. rpc.inputs = a .. b - 1 /\ RoundEnd - CommittedLen <= Budget
    BY DEF IInv, Request, RequestStillDescribesTree
  <2>2. a \in Nat /\ b \in Nat /\ a <= b /\ b - a = (RoundEnd - CommittedLen) + 1
    BY Bounds
  <2>3. Budget \in Nat /\ RoundEnd - CommittedLen \in Int
    BY Bounds, SpecExecAssumption
  <2> HIDE DEF a, b
  <2>4. Cardinality(a .. b - 1) = b - a
    BY <2>2, IntervalSize
  <2> QED
    BY <2>1, <2>2, <2>3, <2>4
<1> QED
  BY <1>1, AlwaysIInv, PTL

\* Once a round after the warm-up committed an end-of-generation token, Generate
\* starts no other round.
THEOREM GenerationStops == Spec => []EogStopsAfterWarmup
<1>1. IInv => EogStopsAfterWarmup
  <2> SUFFICES ASSUME IInv, pc = "grow", ~gen.first
               PROVE  \A i \in gen.orig + gen.warm .. tree.prefix - 1 : tree.node[i].tok \notin Eog
    BY DEF EogStopsAfterWarmup
  <2>1. CommittedLen = tree.prefix
    BY DEF IInv, Phases, CommittedLen, Drafting
  <2> QED
    BY <2>1 DEF IInv, Generated
<1> QED
  BY <1>1, AlwaysIInv, PTL

-----------------------------------------------------------------------------
(***************************************************************************)
(* What is committed.  The argument rests on no two nodes of the tree      *)
(* standing for the same continuation, so that an answer agrees with one   *)
(* row of each depth.                                                      *)
(***************************************************************************)

\* Along a mask row, a slot's place is its position.
LEMMA RowByPos ==
  ASSUME NEW t, NEW c, NEW e, Shaped(t, c, e), NEW i \in 0 .. e - 1
  PROVE  /\ \A a \in t.mask[i] : /\ Rank(t.mask[i], a) = t.node[a].pos
                                 /\ Nth(t.mask[i], t.node[a].pos) = a
         /\ \A k \in 0 .. t.node[i].pos : /\ Nth(t.mask[i], k) \in t.mask[i]
                                          /\ t.node[Nth(t.mask[i], k)].pos = k
<1> DEFINE S == t.mask[i]
<1>1. /\ IsFiniteSet(S) /\ Cardinality(S) = t.node[i].pos + 1 /\ t.node[i].pos \in Nat
      /\ S \subseteq 0 .. i /\ i \in Nat /\ S \subseteq Int
  BY PosIsDepth, RowBounds
<1>2. ASSUME NEW a \in S PROVE Rank(S, a) = t.node[a].pos
  <2>1. a \in 0 .. e - 1 /\ t.mask[a] = {x \in S : x <= a}
    BY RowsNest
  <2>2. IsFiniteSet(t.mask[a]) /\ Cardinality(t.mask[a]) = t.node[a].pos + 1 /\ t.node[a].pos \in Nat
    <3>1. a \in 0 .. e - 1
      BY <2>1
    <3>2. IsFiniteSet(t.mask[a]) /\ Cardinality(t.mask[a]) = t.node[a].pos + 1 /\ t.node[a].pos \in 0 .. a
      BY <3>1, PosIsDepth
    <3> QED
      BY <3>1, <3>2
  <2> DEFINE B == {x \in S : x < a}
  <2>3. IsFiniteSet(B) /\ Cardinality(B) \in Nat
    BY <1>1, FS_Subset, FS_CardinalityType
  <2>4. t.mask[a] = B \cup {a} /\ a \notin B
    BY <1>1, <2>1
  <2>5. Cardinality(B \cup {a}) = Cardinality(B) + 1
    BY <2>3, <2>4, FS_AddElement
  <2>6. Cardinality(B) = t.node[a].pos
    <3> HIDE DEF B
    <3> QED
      BY <2>2, <2>3, <2>4, <2>5
  <2> QED
    BY <2>6 DEF Rank
<1>3. ASSUME NEW a \in S PROVE Nth(S, t.node[a].pos) = a
  <2>1. Nth(S, Rank(S, a)) = a
    BY <1>1, NthOfRank
  <2> QED
    BY <1>2, <2>1
<1>4. ASSUME NEW k \in 0 .. t.node[i].pos PROVE Nth(S, k) \in S /\ t.node[Nth(S, k)].pos = k
  <2>1. k \in 0 .. Cardinality(S) - 1
    BY <1>1
  <2> HIDE DEF S
  <2>2. Nth(S, k) \in S /\ Rank(S, Nth(S, k)) = k
    BY <1>1, <2>1, NthWorks
  <2> QED
    BY <1>2, <2>2
<1> QED
  BY <1>2, <1>3, <1>4

\* Rows agree as far as they share slots.
LEMMA RowsShare ==
  ASSUME NEW t, NEW c, NEW e, Shaped(t, c, e), NEW i \in 0 .. e - 1, NEW a \in t.mask[i],
         NEW k \in 0 .. t.node[a].pos
  PROVE  Nth(t.mask[a], k) = Nth(t.mask[i], k) /\ Nth(t.mask[a], k) \in t.mask[i]
<1>1. a \in 0 .. e - 1 /\ t.mask[a] = {x \in t.mask[i] : x <= a}
  BY RowsNest
<1> DEFINE x == Nth(t.mask[a], k)
<1>2. x \in t.mask[a] /\ t.node[x].pos = k
  <2>1. a \in 0 .. e - 1
    BY <1>1
  <2>2. \A n \in 0 .. t.node[a].pos : Nth(t.mask[a], n) \in t.mask[a] /\ t.node[Nth(t.mask[a], n)].pos = n
    BY <2>1, RowByPos
  <2> QED
    BY <2>2
<1> HIDE DEF x
<1>3. x \in t.mask[i]
  BY <1>1, <1>2
<1>4. Nth(t.mask[i], t.node[x].pos) = x
  BY <1>3, RowByPos
<1> QED
  BY <1>2, <1>3, <1>4 DEF x

\* Only the seed stands at the seed's depth.
LEMMA SeedAlone ==
  ASSUME NEW t, NEW c, NEW e, Shaped(t, c, e), NEW j \in c .. e - 1
  PROVE  t.node[c - 1].pos = c - 1 /\ t.node[j].pos >= c /\ c \in Nat /\ t.node[j].pos \in Nat
<1>1. e \in Nat /\ c \in 1 .. e /\ c \in Nat
  BY MaxLenAssumption DEF Shaped
<1>2. c - 1 \in 0 .. e - 1 /\ j \in 0 .. e - 1 /\ j >= c - 1 /\ c - 1 < c /\ c - 1 < j /\ j \in Int
  BY <1>1
<1>3. t.node[c - 1].pos = c - 1 /\ 0 .. c - 1 \subseteq t.mask[j]
  BY <1>2, RowOfChain
<1>4. c - 1 \in t.mask[j] /\ j \in t.mask[j]
  <2>1. c - 1 \in 0 .. c - 1
    BY <1>1
  <2> QED
    BY <1>2, <1>3, <2>1, RowBounds
<1>5. Rank(t.mask[j], c - 1) = c - 1 /\ Rank(t.mask[j], j) = t.node[j].pos
  BY <1>2, <1>3, <1>4, RowByPos
<1>6. IsFiniteSet(t.mask[j]) /\ t.mask[j] \subseteq Int /\ t.node[j].pos \in Nat
  BY <1>2, PosIsDepth, RowBounds
<1>7. Rank(t.mask[j], c - 1) < Rank(t.mask[j], j)
  BY <1>2, <1>4, <1>6, RankGrows
<1> QED
  BY <1>1, <1>3, <1>5, <1>6, <1>7

\* No two nodes stand for the same continuation: a relation between nodes of equal
\* depth that passes to the parents, and that only nodes of the same token are in
\* when their parent is the same, is equality.
LEMMA NoTwins ==
  ASSUME NEW t, NEW c, NEW r, NEW e, Grown(t, c, r, e), NEW E,
         \A i, j \in c - 1 .. e - 1 : <<i, j>> \in E => t.node[i].pos = t.node[j].pos,
         \A i, j \in c .. e - 1 : <<i, j>> \in E =>
            /\ <<t.node[i].par, t.node[j].par>> \in E
            /\ t.node[i].par = t.node[j].par => t.node[i].tok = t.node[j].tok,
         NEW a \in c - 1 .. e - 1, NEW b \in c - 1 .. e - 1, <<a, b>> \in E
  PROVE  a = b
<1>1. /\ Shaped(t, c, e) /\ c \in Nat /\ e \in Nat /\ 1 <= c /\ c <= e
      /\ \A i \in c .. e - 1 : t.node[i].par \in c - 1 .. i - 1
      /\ \A i, j \in c .. e - 1 : i # j /\ t.node[i].par = t.node[j].par => t.node[i].tok # t.node[j].tok
  BY GrownNumbers DEF Grown, Apart
<1>2. \A j \in c .. e - 1 : t.node[c - 1].pos # t.node[j].pos
  <2>1. \A j \in c .. e - 1 : t.node[c - 1].pos = c - 1 /\ t.node[j].pos >= c /\ t.node[j].pos \in Nat
    BY <1>1, SeedAlone
  <2> QED
    BY <1>1, <2>1
<1>3. \A j \in c - 1 .. e - 1 : j = c - 1 \/ j \in c .. e - 1
  BY <1>1
<1> DEFINE G == {k \in 0 .. e - 1 : k >= c - 1 => \A j \in c - 1 .. e - 1 : <<k, j>> \in E => j = k}
<1>4. c - 1 \in G
  <2>1. c - 1 \in 0 .. e - 1 /\ c - 1 \in c - 1 .. e - 1
    BY <1>1
  <2>2. ASSUME NEW j \in c - 1 .. e - 1, <<c - 1, j>> \in E PROVE j = c - 1
    <3>1. t.node[c - 1].pos = t.node[j].pos
      BY <2>1, <2>2
    <3> QED
      BY <1>2, <1>3, <3>1
  <2> QED
    BY <2>1, <2>2
<1>5. 0 \in G
  <2>1. CASE c - 1 = 0
    BY <1>4, <2>1
  <2>2. CASE c - 1 # 0
    <3>1. 0 \in 0 .. e - 1 /\ ~(0 >= c - 1)
      BY <1>1, <2>2
    <3> QED
      BY <3>1
  <2> QED
    BY <2>1, <2>2
<1>6. ASSUME NEW i \in 1 .. e - 1, t.node[i].par \in G PROVE i \in G
  <2>0. i \in 0 .. e - 1 /\ i \in Nat
    BY <1>1
  <2>1. CASE i < c - 1
    BY <1>1, <2>0, <2>1
  <2>2. CASE i = c - 1
    BY <1>4, <2>2
  <2>3. CASE i >= c
    <3>1. i \in c .. e - 1 /\ i \in c - 1 .. e - 1
      BY <1>1, <2>0, <2>3
    <3>2. ASSUME NEW j \in c - 1 .. e - 1, <<i, j>> \in E PROVE j = i
      <4>1. t.node[i].pos = t.node[j].pos
        BY <3>1, <3>2
      <4>2. j \in c .. e - 1
        BY <1>2, <1>3, <3>1, <4>1
      <4> DEFINE p == t.node[i].par
                 q == t.node[j].par
      <4>3. <<p, q>> \in E /\ (p = q => t.node[i].tok = t.node[j].tok)
        BY <3>1, <3>2, <4>2
      <4>4. p \in c - 1 .. i - 1 /\ q \in c - 1 .. j - 1
        BY <1>1, <3>1, <4>2
      <4>5. p \in G
        BY <1>6
      <4> HIDE DEF p, q
      <4>6. p >= c - 1 /\ q \in c - 1 .. e - 1
        BY <1>1, <4>2, <4>4
      <4>7. q = p
        BY <4>3, <4>5, <4>6
      <4> QED
        BY <1>1, <3>1, <4>2, <4>3, <4>7 DEF p, q
    <3> QED
      BY <2>0, <3>2
  <2> QED
    BY <1>1, <2>0, <2>1, <2>2, <2>3
<1> HIDE DEF G
<1>7. 0 .. e - 1 \subseteq G
  BY <1>1, <1>5, <1>6, SlotInduction
<1>8. a \in 0 .. e - 1 /\ a >= c - 1
  BY <1>1
<1>9. a \in G
  BY <1>7, <1>8
<1> QED
  BY <1>8, <1>9 DEF G

-----------------------------------------------------------------------------
(* The two acceptance walks *)

\* A row an answer agrees with: each drafted slot on it is what was answered to
\* its parent.
Agrees(sel, i) ==
  \A a \in tree.mask[i] : a >= CommittedLen => tree.node[a].tok = sel[tree.node[a].par]

\* An answer agrees with one row of each depth at most.
LEMMA OneAgreed ==
  ASSUME IInv, rpc.st # "idle", NEW sel, NEW i \in rpc.inputs, NEW j \in rpc.inputs,
         Agrees(sel, i), Agrees(sel, j), tree.node[i].pos = tree.node[j].pos
  PROVE  i = j
<1> DEFINE c == CommittedLen
           e == Extent
           E == {x \in Nat \X Nat : /\ Agrees(sel, x[1]) /\ Agrees(sel, x[2])
                                    /\ tree.node[x[1]].pos = tree.node[x[2]].pos}
<1>1. /\ Grown(tree, c, RoundEnd, e) /\ Shaped(tree, c, e)
      /\ c \in Nat /\ RoundEnd \in Nat /\ e \in Nat /\ 1 <= c /\ c < RoundEnd /\ RoundEnd <= e
      /\ rpc.inputs = c - 1 .. RoundEnd - 1
  BY Requested DEF Grown
<1>2. \A x \in c - 1 .. e - 1 : x \in Nat
  BY <1>1
<1>3. \A x, y \in c - 1 .. e - 1 : <<x, y>> \in E <=> /\ Agrees(sel, x) /\ Agrees(sel, y)
                                                      /\ tree.node[x].pos = tree.node[y].pos
  BY <1>2
<1>4. ASSUME NEW x \in c .. e - 1
      PROVE  /\ x \in c - 1 .. e - 1 /\ tree.node[x].par \in c - 1 .. e - 1
             /\ tree.node[x].pos = tree.node[tree.node[x].par].pos + 1
             /\ tree.node[tree.node[x].par].pos \in Nat
             /\ Agrees(sel, x) => /\ Agrees(sel, tree.node[x].par)
                                  /\ tree.node[x].tok = sel[tree.node[x].par]
  <2>1. x \in 1 .. e - 1 /\ x >= c /\ x \in Nat /\ x \in 0 .. e - 1 /\ x \in c - 1 .. e - 1
    BY <1>1
  <2>2. Hangs(tree, c, x)
    BY <1>1, <2>1 DEF Shaped
  <2> DEFINE p == tree.node[x].par
  <2>3. p \in c - 1 .. x - 1
    BY <1>1, GrownNumbers
  <2>4. tree.mask[x] = tree.mask[p] \cup {x} /\ tree.node[x].pos = tree.node[p].pos + 1
    BY <2>2 DEF Hangs
  <2> HIDE DEF p
  <2>5. p \in c - 1 .. e - 1 /\ p \in 0 .. e - 1
    BY <1>1, <2>1, <2>3
  <2>6. tree.node[p].pos \in Nat
    BY <1>1, <2>5, PosIsDepth
  <2>7. ASSUME Agrees(sel, x) PROVE Agrees(sel, p) /\ tree.node[x].tok = sel[p]
    BY <2>1, <2>4, <2>7 DEF Agrees, p
  <2> QED
    BY <2>1, <2>4, <2>5, <2>6, <2>7 DEF p
<1> HIDE DEF E
<1>5. \A x, y \in c - 1 .. e - 1 : <<x, y>> \in E => tree.node[x].pos = tree.node[y].pos
  BY <1>3
<1>6. ASSUME NEW x \in c .. e - 1, NEW y \in c .. e - 1, <<x, y>> \in E
      PROVE  /\ <<tree.node[x].par, tree.node[y].par>> \in E
             /\ tree.node[x].par = tree.node[y].par => tree.node[x].tok = tree.node[y].tok
  <2>1. Agrees(sel, x) /\ Agrees(sel, y) /\ tree.node[x].pos = tree.node[y].pos
    BY <1>3, <1>4, <1>6
  <2>2. /\ Agrees(sel, tree.node[x].par) /\ Agrees(sel, tree.node[y].par)
        /\ tree.node[x].tok = sel[tree.node[x].par] /\ tree.node[y].tok = sel[tree.node[y].par]
    BY <1>4, <2>1
  <2>3. tree.node[tree.node[x].par].pos = tree.node[tree.node[y].par].pos
    <3> DEFINE u == tree.node[tree.node[x].par].pos
               v == tree.node[tree.node[y].par].pos
    <3>1. u \in Nat /\ v \in Nat /\ u + 1 = v + 1
      BY <1>4, <2>1
    <3> HIDE DEF u, v
    <3>2. u = v
      BY <3>1
    <3> QED
      BY <3>2 DEF u, v
  <2>4. tree.node[x].par \in c - 1 .. e - 1 /\ tree.node[y].par \in c - 1 .. e - 1
    BY <1>4
  <2>5. <<tree.node[x].par, tree.node[y].par>> \in E
    BY <1>3, <2>2, <2>3, <2>4
  <2> QED
    BY <2>2, <2>5
<1>7. i \in c - 1 .. e - 1 /\ j \in c - 1 .. e - 1
  BY <1>1
<1>8. <<i, j>> \in E
  BY <1>3, <1>7
<1>9. Grown(tree, c, RoundEnd, e)
  BY <1>1
<1> HIDE DEF c, e
<1> QED
  BY <1>5, <1>6, <1>7, <1>8, <1>9, NoTwins

\* The server accepts the rows its answer agrees with.
LEMMA ServerAgrees ==
  ASSUME IInv, rpc.st # "idle", NEW sel, NEW i \in rpc.inputs
  PROVE  ServerAccepts(sel, i) <=> Agrees(sel, i)
<1> DEFINE c == CommittedLen
<1>1. /\ c \in Nat /\ RoundEnd \in Nat /\ 1 <= c /\ rpc.inputs = c - 1 .. RoundEnd - 1
      /\ rpc.req[i].mask = tree.mask[i] /\ tree.mask[i] \subseteq 0 .. i
      /\ \A a \in rpc.inputs : rpc.req[a].tok = tree.node[a].tok /\ rpc.req[a].par = tree.node[a].par
  BY Requested
<1>2. ServerAccepts(sel, i) <=> \A a \in tree.mask[i] : a > c - 1 => rpc.req[a].tok = sel[rpc.req[a].par]
  BY <1>1, SeedIsFirst DEF ServerAccepts
<1>3. ASSUME NEW a \in tree.mask[i]
      PROVE  /\ a > c - 1 <=> a >= c
             /\ a >= c => rpc.req[a].tok = tree.node[a].tok /\ rpc.req[a].par = tree.node[a].par
  <2>1. a \in 0 .. i /\ i \in c - 1 .. RoundEnd - 1
    BY <1>1
  <2>2. (a > c - 1 <=> a >= c) /\ (a >= c => a \in c - 1 .. RoundEnd - 1)
    BY <1>1, <2>1
  <2> QED
    BY <1>1, <2>2
<1> QED
  BY <1>2, <1>3 DEF Agrees

\* So does the client, once the bet is settled.
LEMMA ClientAgrees ==
  ASSUME IInv, rpc.st # "idle", bet.st # "drafting", NEW sel, NEW i \in rpc.inputs
  PROVE  tree.mask[i] \subseteq AcceptedSlots(sel) <=> Agrees(sel, i)
<1> DEFINE c == tree.prefix
           e == tree.end
<1>1. /\ CommittedLen = c /\ Grown(tree, c, e, Extent) /\ c \in Nat /\ e \in Nat
      /\ 1 <= c /\ c < e /\ rpc.inputs = c - 1 .. e - 1 /\ tree.mask[i] \subseteq 0 .. i
  BY Settled
<1>2. Grown(tree, c, e, e)
  BY <1>1, GrownShrink
<1>3. Targets(tree) = c .. e - 1
  BY <1>2, InputsAreTree
<1>4. \A a \in tree.mask[i] : a \in Nat /\ (a < c => a \in 0 .. c - 1) /\ (a >= c => a \in c .. e - 1 /\ a \notin 0 .. c - 1)
  BY <1>1
<1>5. AcceptedSlots(sel) = (0 .. c - 1) \cup {a \in c .. e - 1 : tree.node[a].tok = sel[tree.node[a].par]}
  BY <1>3 DEF AcceptedSlots
<1>6. \A a \in tree.mask[i] : a \in AcceptedSlots(sel) <=> (a >= c => tree.node[a].tok = sel[tree.node[a].par])
  BY <1>1, <1>4, <1>5
<1> QED
  BY <1>1, <1>6 DEF Agrees

\* The two walks, over the same answer, end at the same row: the server keeps
\* the cells of the path the client commits, whichever of the deepest it takes.
LEMMA WalksAgree ==
  ASSUME IInv, rpc.st # "idle", bet.st # "drafting", NEW sel
  PROVE  ServerPath(sel) = Accepted(sel)
<1> DEFINE b == BestSlot(sel)
<1>1. /\ b \in rpc.inputs /\ Accepted(sel) = tree.mask[b] /\ tree.mask[b] \subseteq AcceptedSlots(sel)
      /\ \A j \in rpc.inputs : tree.mask[j] \subseteq AcceptedSlots(sel) =>
           Cardinality(tree.mask[j]) <= Cardinality(tree.mask[b])
  BY BestSlotFacts DEF AcceptedRow
<1> HIDE DEF b
<1>2. PICK i \in rpc.inputs : /\ ServerAccepts(sel, i) /\ ServerPath(sel) = tree.mask[i]
                              /\ \A j \in rpc.inputs : ServerAccepts(sel, j) =>
                                    Cardinality(tree.mask[j]) <= Cardinality(tree.mask[i])
  BY ServerPathRow
<1>3. Agrees(sel, b) /\ Agrees(sel, i)
  BY <1>1, <1>2, ClientAgrees, ServerAgrees
<1>4. /\ Cardinality(tree.mask[i]) <= Cardinality(tree.mask[b])
      /\ Cardinality(tree.mask[b]) <= Cardinality(tree.mask[i])
  BY <1>1, <1>2, <1>3, ClientAgrees, ServerAgrees
<1>5. /\ Shaped(tree, CommittedLen, Extent) /\ \A j \in rpc.inputs : j \in 0 .. Extent - 1
  BY Requested DEF Grown
<1>6. /\ Cardinality(tree.mask[i]) = tree.node[i].pos + 1 /\ tree.node[i].pos \in 0 .. i
      /\ Cardinality(tree.mask[b]) = tree.node[b].pos + 1 /\ tree.node[b].pos \in 0 .. b
      /\ i \in 0 .. Extent - 1 /\ b \in 0 .. Extent - 1
  BY <1>1, <1>2, <1>5, PosIsDepth
<1>7. tree.node[i].pos = tree.node[b].pos
  <2> DEFINE u == tree.node[i].pos
             v == tree.node[b].pos
  <2>1. u \in Nat /\ v \in Nat /\ u + 1 <= v + 1 /\ v + 1 <= u + 1
    BY <1>4, <1>6
  <2> HIDE DEF u, v
  <2>2. u = v
    BY <2>1
  <2> QED
    BY <2>2 DEF u, v
<1>8. i = b
  BY <1>1, <1>2, <1>3, <1>7, OneAgreed
<1> QED
  BY <1>1, <1>2, <1>8
-----------------------------------------------------------------------------
(* What the server holds *)

\* Every step commits a round, or leaves the call alone, or moves it on: it is
\* sent, answered or fails.
LEMMA Steps ==
  ASSUME IInv, [Next]_vars
  PROVE  /\ IInv'
         /\ \/ Commits
            \/ Still
            \/ Quiet /\ rpc.st = "idle" /\ rpc'.st = "sent" /\ srv' = srv
            \/ Quiet /\ rpc'.st = "failed"
            \/ Quiet /\ (ServerAnswer \/ OracleAnswer)
<1>1. CASE GrowLevel
  BY <1>1, GrowLevelIInv
<1>2. CASE GrowDone
  BY <1>2, GrowDoneIInv
<1>3. CASE StartValidate
  <2>1. IInv' /\ Quiet
    BY <1>3, StartValidateIInv
  <2>2. pc = "validate" /\ rpc.st = "idle" /\ bet.st # "drafting"
    BY <1>3 DEF StartValidate, IInv, Phases
  <2>3. CASE Targets(tree) = {}
    <3>1. Die("no_targets")
      BY <1>3, <2>3 DEF StartValidate
    <3> QED
      BY <2>2, <3>1, DieIInv
  <2>4. CASE Targets(tree) # {}
    <3>1. rpc'.st = "sent" /\ srv' = srv
      BY <1>3, <2>4 DEF StartValidate, NoRpc
    <3> QED
      BY <2>1, <2>2, <3>1
  <2> QED
    BY <2>3, <2>4
<1>4. CASE ServerAnswer
  BY <1>4, ServerAnswerIInv
<1>5. CASE ServerFail
  <2>1. IInv' /\ Quiet
    BY <1>5, ServerFailIInv
  <2>2. rpc' = [rpc EXCEPT !.st = "failed"]
    BY <1>5 DEF ServerFail
  <2>3. rpc = [st |-> rpc.st, inputs |-> rpc.inputs, req |-> rpc.req, ctx |-> rpc.ctx, sel |-> rpc.sel]
    BY DEF IInv, Records
  <2>4. rpc'.st = "failed"
    BY <2>2, <2>3
  <2> QED
    BY <2>1, <2>4
<1>6. CASE OracleAnswer
  BY <1>6, OracleAnswerIInv
<1>7. CASE ChooseBet
  BY <1>7, ChooseBetIInv
<1>8. CASE DraftLevel
  BY <1>8, DraftLevelIInv
<1>9. CASE AcceptHit
  BY <1>9, AcceptHitIInv
<1>10. CASE AcceptMiss
  BY <1>10, AcceptMissIInv
<1>11. CASE JoinFailed
  BY <1>11, JoinFailedIInv
<1>12. CASE UNCHANGED vars
  <2>1. IInv'
    BY <1>12 DEF IInv, Phases, Records, Trees, Bets, Request, Generated, Rest, Extent, CommittedLen,
                 RoundEnd, Drafting, RequestStillDescribesTree, vars
  <2>2. Still
    BY <1>12 DEF Still, Quiet, CommittedLen, Drafting, vars
  <2> QED
    BY <2>1, <2>2
<1> QED
  BY <1>1, <1>2, <1>3, <1>4, <1>5, <1>6, <1>7, <1>8, <1>9, <1>10, <1>11, <1>12 DEF Next, Finished

\* While a call is out, the rows it is about keep their tokens.
LEMMA RowsStay ==
  ASSUME IInv, IInv', Quiet, rpc.st # "idle", rpc'.st # "idle",
         rpc'.inputs = rpc.inputs, rpc'.req = rpc.req
  PROVE  RoundEnd' = RoundEnd /\ \A s \in 0 .. RoundEnd - 1 : tree'.node[s].tok = tree.node[s].tok
<1> DEFINE c == CommittedLen
           r == RoundEnd
           q == RoundEnd'
<1>1. /\ c \in Nat /\ r \in Nat /\ 1 <= c /\ c < r /\ rpc.inputs = c - 1 .. r - 1
      /\ \A i \in rpc.inputs : rpc.req[i].tok = tree.node[i].tok
  BY Requested
<1>2. CommittedLen' = c /\ \A i \in 0 .. c - 1 : tree'.node[i].tok = tree.node[i].tok
  BY DEF Quiet
<1>3. /\ c < q /\ rpc.inputs = c - 1 .. q - 1
      /\ \A i \in rpc.inputs :
           rpc.req[i] = [tok |-> tree'.node[i].tok, pos |-> tree'.node[i].pos,
                         par |-> tree'.node[i].par, mask |-> tree'.mask[i]]
  BY <1>2 DEF IInv, Request, RequestStillDescribesTree
<1>4. q \in Nat
  <2>1. Grown(tree', CommittedLen', RoundEnd', Extent')
    BY DEF IInv, Trees
  <2> QED
    BY <2>1, GrownNumbers
<1> HIDE DEF c, r, q
<1>5. q = r
  <2>1. q - 1 \in c - 1 .. r - 1 /\ r - 1 \in c - 1 .. q - 1
    BY <1>1, <1>3, <1>4
  <2> QED
    BY <1>1, <1>4, <2>1
<1>6. ASSUME NEW s \in 0 .. r - 1 PROVE tree'.node[s].tok = tree.node[s].tok
  <2>1. CASE s < c
    BY <1>1, <1>2, <2>1
  <2>2. CASE s >= c
    <3>1. s \in rpc.inputs
      BY <1>1, <2>2
    <3> DEFINE row == rpc.req[s]
               n == tree'.node[s]
    <3>2. row = [tok |-> n.tok, pos |-> n.pos, par |-> n.par, mask |-> tree'.mask[s]]
      BY <1>3, <3>1
    <3>3. row.tok = tree.node[s].tok
      BY <1>1, <3>1
    <3> HIDE DEF row, n
    <3>4. row.tok = n.tok
      BY <3>2
    <3> QED
      BY <3>3, <3>4 DEF n
  <2> QED
    BY <1>1, <2>1, <2>2
<1> QED
  BY <1>5, <1>6 DEF r, q

\* The tokens a mask row selects, in slot order.
Spelled(t, row) == [k \in 1 .. Cardinality(row) |-> t.node[Nth(row, k - 1)].tok]

\* Between calls, and until one is answered, the server holds the committed
\* tokens but the seed.  An answer is given for the tokens of each row, and
\* leaves the tokens of the path the server walked.
Served ==
  /\ rpc.st \in {"idle", "sent"} =>
       \A s \in Slots : srv[s] = IF ~gen.first /\ s < CommittedLen - 1 THEN tree.node[s].tok ELSE 0
  /\ rpc.st = "answered" =>
       /\ \A i \in rpc.inputs : rpc.ctx[i] = Spelled(tree, rpc.req[i].mask)
       /\ \A s \in Slots : srv[s] = IF s < Cardinality(ServerPath(rpc.sel))
                                    THEN tree.node[Nth(ServerPath(rpc.sel), s)].tok ELSE 0

\* A row's tokens stay while the call is out.
LEMMA SpellingStays ==
  ASSUME IInv, rpc.st # "idle", NEW t, \A s \in 0 .. RoundEnd - 1 : t.node[s].tok = tree.node[s].tok,
         NEW i \in rpc.inputs
  PROVE  /\ \A k \in 0 .. Cardinality(tree.mask[i]) - 1 : /\ Nth(tree.mask[i], k) \in 0 .. RoundEnd - 1
                                                          /\ Nth(tree.mask[i], k) \in Slots
                                                          /\ t.node[Nth(tree.mask[i], k)].tok
                                                              = tree.node[Nth(tree.mask[i], k)].tok
         /\ Spelled(t, tree.mask[i]) = Spelled(tree, tree.mask[i])
         /\ Cardinality(tree.mask[i]) \in Nat
<1> DEFINE S == tree.mask[i]
<1>1. /\ i \in 0 .. RoundEnd - 1 /\ RoundEnd \in Nat /\ S \subseteq 0 .. i
      /\ i \in 0 .. Extent - 1 /\ Shaped(tree, CommittedLen, Extent) /\ i \in Slots
  BY Requested DEF Grown
<1>2. IsFiniteSet(S) /\ Cardinality(S) \in Nat /\ S \subseteq Int
  <2>1. IsFiniteSet(S) /\ Cardinality(S) = tree.node[i].pos + 1 /\ tree.node[i].pos \in 0 .. i
    BY <1>1, PosIsDepth
  <2> QED
    BY <1>1, <2>1
<1>3. S \subseteq 0 .. RoundEnd - 1 /\ S \subseteq Slots
  BY <1>1, MaxLenAssumption DEF Slots
<1> HIDE DEF S
<1>4. ASSUME NEW k \in 0 .. Cardinality(S) - 1
      PROVE  /\ Nth(S, k) \in 0 .. RoundEnd - 1 /\ Nth(S, k) \in Slots
             /\ t.node[Nth(S, k)].tok = tree.node[Nth(S, k)].tok
  <2>1. Nth(S, k) \in S
    BY <1>2, NthWorks
  <2> QED
    BY <1>3, <2>1
<1>5. \A k \in 1 .. Cardinality(S) : k - 1 \in 0 .. Cardinality(S) - 1
  BY <1>2
<1>6. Spelled(t, S) = Spelled(tree, S)
  BY <1>4, <1>5 DEF Spelled
<1> QED
  BY <1>2, <1>4, <1>6 DEF S

\* When a call arrives, the server's cache with the rows written in is the tree's
\* tokens.
LEMMA ServerReads ==
  ASSUME IInv, Served, rpc.st = "sent"
  PROVE  \A s \in 0 .. RoundEnd - 1 : s \in Slots /\ ServerCache[s] = tree.node[s].tok
<1> DEFINE c == CommittedLen
           r == RoundEnd
<1>1. /\ c \in Nat /\ r \in Nat /\ 1 <= c /\ c < r /\ rpc.inputs = c - 1 .. r - 1
      /\ \A i \in rpc.inputs : rpc.req[i].tok = tree.node[i].tok
  BY Requested
<1>2. 0 .. r - 1 \subseteq Slots
  <2>1. r <= Extent /\ Extent \in Nat /\ 0 .. Extent - 1 \subseteq Slots
    BY Requested, GrownNumbers
  <2> QED
    BY <1>1, <2>1
<1>3. gen.first => gen.orig = c
  BY DEF IInv, Generated
<1>4. \A s \in Slots : srv[s] = IF ~gen.first /\ s < c - 1 THEN tree.node[s].tok ELSE 0
  BY DEF Served
<1> HIDE DEF c, r
<1>5. ASSUME NEW s \in 0 .. r - 1 PROVE ServerCache[s] = tree.node[s].tok
  <2>1. ServerCache[s] = IF s \in rpc.inputs THEN rpc.req[s].tok
                         ELSE IF gen.first /\ s < gen.orig - 1 THEN tree.node[s].tok
                         ELSE srv[s]
    BY <1>2 DEF ServerCache
  <2>2. CASE s \in rpc.inputs
    BY <1>1, <2>1, <2>2
  <2>3. CASE s \notin rpc.inputs
    <3>1. s < c - 1
      BY <1>1, <2>3
    <3>2. CASE gen.first
      BY <1>3, <2>1, <2>3, <3>1, <3>2
    <3>3. CASE ~gen.first
      BY <1>2, <1>4, <2>1, <2>3, <3>1, <3>3
    <3> QED
      BY <3>2, <3>3
  <2> QED
    BY <2>2, <2>3
<1> QED
  BY <1>2, <1>5 DEF r

\* What the server holds is kept by every step of a live run.
LEMMA ServedStep ==
  ASSUME Reference = <<>>, IInv, Served, [Next]_vars
  PROVE  Served'
<1>0. /\ IInv'
      /\ \/ Commits
         \/ Still
         \/ Quiet /\ rpc.st = "idle" /\ rpc'.st = "sent" /\ srv' = srv
         \/ Quiet /\ rpc'.st = "failed"
         \/ Quiet /\ (ServerAnswer \/ OracleAnswer)
  BY Steps
<1>a. CommittedLen \in Nat /\ Slots \subseteq Nat
  BY Bounds, MaxLenAssumption DEF Slots
<1>1. ASSUME Quiet, srv' = srv, rpc.st \in {"idle", "sent"}
      PROVE  \A s \in Slots : srv'[s] = IF ~gen'.first /\ s < CommittedLen' - 1 THEN tree'.node[s].tok ELSE 0
  <2>1. \A s \in Slots : srv[s] = IF ~gen.first /\ s < CommittedLen - 1 THEN tree.node[s].tok ELSE 0
    BY <1>1 DEF Served
  <2>2. \A s \in Slots : s < CommittedLen - 1 => s \in 0 .. CommittedLen - 1
    BY <1>a
  <2>3. gen' = gen /\ CommittedLen' = CommittedLen
        /\ \A s \in Slots : s < CommittedLen - 1 => tree'.node[s].tok = tree.node[s].tok
    BY <1>1, <2>2 DEF Quiet
  <2> QED
    BY <1>1, <2>1, <2>3
<1>2. CASE Quiet /\ rpc'.st = "failed"
  BY <1>2 DEF Served
<1>3. CASE Quiet /\ rpc.st = "idle" /\ rpc'.st = "sent" /\ srv' = srv
  BY <1>1, <1>3 DEF Served
<1>4. CASE Still
  <2>1. Quiet /\ rpc' = rpc /\ srv' = srv
    BY <1>4 DEF Still
  <2>2. CASE rpc.st = "answered"
    <3>1. \A s \in 0 .. RoundEnd - 1 : tree'.node[s].tok = tree.node[s].tok
      BY <1>0, <2>1, <2>2, RowsStay
    <3>2. ASSUME NEW i \in rpc.inputs PROVE rpc.ctx[i] = Spelled(tree', rpc.req[i].mask)
      <4>1. rpc.req[i].mask = tree.mask[i]
        BY <2>2, Requested
      <4>2. Spelled(tree', tree.mask[i]) = Spelled(tree, tree.mask[i])
        BY <2>2, <3>1, SpellingStays
      <4>3. rpc.ctx[i] = Spelled(tree, rpc.req[i].mask)
        BY <2>2 DEF Served
      <4> QED
        BY <4>1, <4>2, <4>3
    <3>3. ServerPath(rpc.sel)' = ServerPath(rpc.sel)
      BY <2>1 DEF ServerPath, ServerAccepts
    <3>4. ASSUME NEW s \in Slots
          PROVE  srv[s] = IF s < Cardinality(ServerPath(rpc.sel))
                          THEN tree'.node[Nth(ServerPath(rpc.sel), s)].tok ELSE 0
      <4> DEFINE P == ServerPath(rpc.sel)
      <4>1. PICK i \in rpc.inputs : P = tree.mask[i]
        BY <2>2, ServerPathRow
      <4>2. srv[s] = IF s < Cardinality(P) THEN tree.node[Nth(P, s)].tok ELSE 0
        BY <2>2 DEF Served
      <4> HIDE DEF P
      <4>3. /\ \A k \in 0 .. Cardinality(P) - 1 : tree'.node[Nth(P, k)].tok = tree.node[Nth(P, k)].tok
            /\ Cardinality(P) \in Nat
        BY <2>2, <3>1, <4>1, SpellingStays
      <4>4. s < Cardinality(P) => s \in 0 .. Cardinality(P) - 1
        BY <1>a, <4>3
      <4> QED
        BY <4>2, <4>3, <4>4 DEF P
    <3> QED
      BY <2>1, <2>2, <3>2, <3>3, <3>4 DEF Served
  <2>3. CASE rpc.st # "answered"
    BY <1>1, <2>1, <2>3 DEF Served
  <2> QED
    BY <2>2, <2>3
<1>5. CASE Quiet /\ ServerAnswer
  <2>1. PICK sel \in [rpc.inputs -> Tok] :
          /\ rpc' = [rpc EXCEPT !.st = "answered", !.sel = sel,
                       !.ctx = [i \in rpc.inputs |-> ContextOf(ServerCache, rpc.req[i].mask)]]
          /\ srv' = [s \in Slots |-> IF s < Cardinality(ServerPath(sel))
                                     THEN ServerCache[Nth(ServerPath(sel), s)] ELSE 0]
    BY <1>5 DEF ServerAnswer
  <2>2. rpc.st = "sent" /\ rpc.st # "idle" /\ tree' = tree
    BY <1>5 DEF ServerAnswer
  <2>3. rpc = [st |-> rpc.st, inputs |-> rpc.inputs, req |-> rpc.req, ctx |-> rpc.ctx, sel |-> rpc.sel]
    BY DEF IInv, Records
  <2> DEFINE context == [i \in rpc.inputs |-> ContextOf(ServerCache, rpc.req[i].mask)]
             P == ServerPath(sel)
  <2>4. /\ rpc'.st = "answered" /\ rpc'.inputs = rpc.inputs /\ rpc'.req = rpc.req
        /\ rpc'.sel = sel /\ rpc'.ctx = context
    <3> HIDE DEF context
    <3>1. rpc' = [rpc EXCEPT !.st = "answered", !.sel = sel, !.ctx = context]
      BY <2>1 DEF context
    <3> QED
      BY <2>3, <3>1
  <2>5. \A s \in 0 .. RoundEnd - 1 : s \in Slots /\ ServerCache[s] = tree.node[s].tok
    BY <2>2, ServerReads
  <2>6. ASSUME NEW i \in rpc.inputs
        PROVE  /\ \A k \in 0 .. Cardinality(tree.mask[i]) - 1 :
                     ServerCache[Nth(tree.mask[i], k)] = tree.node[Nth(tree.mask[i], k)].tok
               /\ ContextOf(ServerCache, rpc.req[i].mask) = Spelled(tree, rpc.req[i].mask)
               /\ Cardinality(tree.mask[i]) \in Nat
    <3> DEFINE S == tree.mask[i]
    <3>1. rpc.req[i].mask = S
      BY <2>2, Requested
    <3>2. (\A k \in 0 .. Cardinality(S) - 1 : Nth(S, k) \in 0 .. RoundEnd - 1) /\ Cardinality(S) \in Nat
      BY <2>2, SpellingStays
    <3> HIDE DEF S
    <3>3. \A k \in 0 .. Cardinality(S) - 1 : ServerCache[Nth(S, k)] = tree.node[Nth(S, k)].tok
      BY <2>5, <3>2
    <3>4. \A k \in 1 .. Cardinality(S) : k - 1 \in 0 .. Cardinality(S) - 1
      BY <3>2
    <3>5. ContextOf(ServerCache, S) = Spelled(tree, S)
      BY <3>3, <3>4 DEF ContextOf, Spelled
    <3> QED
      BY <3>1, <3>2, <3>3, <3>5 DEF S
  <2>7. \A i \in rpc'.inputs : rpc'.ctx[i] = Spelled(tree', rpc'.req[i].mask)
    BY <2>2, <2>4, <2>6
  <2>8. ServerPath(rpc.sel)' = P
    BY <2>4 DEF ServerPath, ServerAccepts
  <2>9. ASSUME NEW s \in Slots
        PROVE  srv'[s] = IF s < Cardinality(P) THEN tree'.node[Nth(P, s)].tok ELSE 0
    <3>1. PICK i \in rpc.inputs : P = tree.mask[i]
      BY <2>2, ServerPathRow
    <3>2. srv'[s] = IF s < Cardinality(P) THEN ServerCache[Nth(P, s)] ELSE 0
      BY <2>1
    <3> HIDE DEF P
    <3>3. s < Cardinality(P) => s \in 0 .. Cardinality(P) - 1
      BY <1>a, <2>6, <3>1
    <3>4. s < Cardinality(P) => ServerCache[Nth(P, s)] = tree.node[Nth(P, s)].tok
      BY <2>6, <3>1, <3>3
    <3> QED
      BY <2>2, <3>2, <3>4
  <2> HIDE DEF P
  <2> QED
    BY <2>4, <2>7, <2>8, <2>9 DEF Served
<1>6. CASE Commits
  <2> DEFINE acc == Accepted(rpc.sel)
             n == Cardinality(acc)
  <2>1. /\ pc = "join" /\ rpc.st = "answered"
        /\ rpc' = NoRpc /\ bet' = NoBet /\ srv' = srv /\ ~gen'.first
        /\ tree'.prefix = n + 1
        /\ \A i \in 0 .. n - 1 : tree'.node[i].tok = tree.node[Nth(acc, i)].tok
    BY <1>6 DEF Commits
  <2>2. ServerPath(rpc.sel) = acc
    BY <2>1, Joined, WalksAgree
  <2>3. \A s \in Slots : srv[s] = IF s < n THEN tree.node[Nth(acc, s)].tok ELSE 0
    BY <2>1, <2>2 DEF Served
  <2>4. n \in Nat
    <3>1. acc \subseteq Slots
      BY <2>1, AcceptedFacts
    <3> QED
      BY <3>1, SlotSets
  <2> HIDE DEF acc, n
  <2>5. CommittedLen' - 1 = n
    BY <2>1, <2>4 DEF CommittedLen, Drafting, NoBet
  <2>6. \A s \in Slots : s < n => s \in 0 .. n - 1
    BY <1>a, <2>4
  <2>7. \A s \in Slots : srv'[s] = IF ~gen'.first /\ s < CommittedLen' - 1 THEN tree'.node[s].tok ELSE 0
    BY <2>1, <2>3, <2>5, <2>6
  <2>8. rpc'.st = "idle"
    BY <2>1 DEF NoRpc
  <2> QED
    BY <2>7, <2>8 DEF Served
<1>7. CASE OracleAnswer
  BY <1>7 DEF OracleAnswer
<1> QED
  BY <1>0, <1>2, <1>3, <1>4, <1>5, <1>6, <1>7

\* It holds at the start.
LEMMA ServedInit ==
  ASSUME Init
  PROVE  Served
<1>1. /\ srv = [s \in Slots |-> 0] /\ rpc = NoRpc /\ gen.first
  BY DEF Init
<1> QED
  BY <1>1 DEF Served, NoRpc

\* In a live run the client and the server walk the same path: whatever the
\* target answers, and whether or not the bet is won, the server's cache holds
\* the committed tokens but the seed when the next round starts.
THEOREM ServerStaysInStep ==
  ASSUME Reference = <<>>
  PROVE  Spec => []ServerInStep
<1>1. Init => Served
  BY ServedInit
<1>2. IInv /\ Served /\ [Next]_vars => Served'
  BY ServedStep
<1>3. IInv /\ Served => ServerInStep
  <2> SUFFICES ASSUME IInv, Served, rpc.st = "idle", ~gen.first, NEW s \in Slots
               PROVE  srv[s] = IF s < tree.prefix - 1 THEN tree.node[s].tok ELSE 0
    BY DEF ServerInStep
  <2>1. bet.st # "drafting"
    BY DEF IInv, Phases
  <2> QED
    BY <2>1 DEF Served, CommittedLen, Drafting
<1> QED
  BY <1>1, <1>2, <1>3, AlwaysIInv, PTL DEF Spec

-----------------------------------------------------------------------------
(* The client implements the target alone *)

\* Different rows spell different tokens, so an answer by context is an answer to
\* one row.
LEMMA WordsDiffer ==
  ASSUME NEW t, NEW c, NEW r, NEW e, Grown(t, c, r, e),
         NEW a \in c - 1 .. e - 1, NEW b \in c - 1 .. e - 1, t.node[a].pos = t.node[b].pos,
         \A k \in 0 .. t.node[a].pos : t.node[Nth(t.mask[a], k)].tok = t.node[Nth(t.mask[b], k)].tok
  PROVE  a = b
<1> DEFINE Same(x, y) == /\ t.node[x].pos = t.node[y].pos
                         /\ \A k \in 0 .. t.node[x].pos :
                              t.node[Nth(t.mask[x], k)].tok = t.node[Nth(t.mask[y], k)].tok
           E == {x \in Nat \X Nat : Same(x[1], x[2])}
<1>1. Shaped(t, c, e) /\ c \in Nat /\ e \in Nat /\ 1 <= c /\ c <= e
  BY GrownNumbers DEF Grown
<1>2. \A x \in c - 1 .. e - 1 : x \in Nat
  BY <1>1
<1>3. \A x, y \in c - 1 .. e - 1 : <<x, y>> \in E <=> Same(x, y)
  BY <1>2
<1>4. ASSUME NEW x \in c .. e - 1
      PROVE  /\ x \in c - 1 .. e - 1 /\ t.node[x].par \in c - 1 .. e - 1
             /\ t.node[x].pos = t.node[t.node[x].par].pos + 1
             /\ t.node[t.node[x].par].pos \in Nat
             /\ \A k \in 0 .. t.node[t.node[x].par].pos : Nth(t.mask[t.node[x].par], k) = Nth(t.mask[x], k)
             /\ Nth(t.mask[x], t.node[x].pos) = x
  <2>1. x \in 1 .. e - 1 /\ x >= c /\ x \in Nat /\ x \in 0 .. e - 1 /\ x \in c - 1 .. e - 1
    BY <1>1
  <2>2. Hangs(t, c, x)
    BY <1>1, <2>1 DEF Shaped
  <2> DEFINE p == t.node[x].par
  <2>3. p \in c - 1 .. x - 1
    BY GrownNumbers
  <2>4. t.mask[x] = t.mask[p] \cup {x} /\ t.node[x].pos = t.node[p].pos + 1
    BY <2>2 DEF Hangs
  <2> HIDE DEF p
  <2>5. p \in c - 1 .. e - 1 /\ p \in 0 .. e - 1
    BY <1>1, <2>1, <2>3
  <2>6. t.node[p].pos \in Nat /\ p \in t.mask[p]
    BY <1>1, <2>5, PosIsDepth, RowBounds
  <2>7. p \in t.mask[x] /\ x \in t.mask[x]
    BY <2>4, <2>6
  <2>8. \A k \in 0 .. t.node[p].pos : Nth(t.mask[p], k) = Nth(t.mask[x], k)
    BY <1>1, <2>1, <2>7, RowsShare
  <2>9. Nth(t.mask[x], t.node[x].pos) = x
    BY <1>1, <2>1, <2>7, RowByPos
  <2> QED
    BY <2>1, <2>4, <2>5, <2>6, <2>8, <2>9 DEF p
<1>5. Same(a, b)
  OBVIOUS
<1> HIDE DEF E
<1>6. \A x, y \in c - 1 .. e - 1 : <<x, y>> \in E => t.node[x].pos = t.node[y].pos
  BY <1>3
<1>7. ASSUME NEW x \in c .. e - 1, NEW y \in c .. e - 1, <<x, y>> \in E
      PROVE  <<t.node[x].par, t.node[y].par>> \in E /\ t.node[x].tok = t.node[y].tok
  <2> DEFINE p == t.node[x].par
             q == t.node[y].par
             u == t.node[x].pos
             v == t.node[y].pos
             m == t.node[p].pos
             n == t.node[q].pos
  <2>1. /\ u = v
        /\ \A k \in 0 .. u : t.node[Nth(t.mask[x], k)].tok = t.node[Nth(t.mask[y], k)].tok
    BY <1>3, <1>4, <1>7
  <2>2. /\ p \in c - 1 .. e - 1 /\ u = m + 1 /\ m \in Nat
        /\ \A k \in 0 .. m : Nth(t.mask[p], k) = Nth(t.mask[x], k)
        /\ Nth(t.mask[x], u) = x
    BY <1>4
  <2>3. /\ q \in c - 1 .. e - 1 /\ v = n + 1 /\ n \in Nat
        /\ \A k \in 0 .. n : Nth(t.mask[q], k) = Nth(t.mask[y], k)
        /\ Nth(t.mask[y], v) = y
    BY <1>4
  <2> HIDE DEF p, q, u, v, m, n
  <2>4. m = n /\ u \in 0 .. u /\ 0 .. m \subseteq 0 .. u
    <3>1. u = m + 1 /\ u = n + 1 /\ m \in Nat /\ n \in Nat
      BY <2>1, <2>2, <2>3, Zenon
    <3>2. m = n /\ u \in Nat
      BY <3>1
    <3>3. \A k \in 0 .. m : k \in 0 .. u
      BY <3>1
    <3> QED
      BY <3>2, <3>3
  <2>5. t.node[x].tok = t.node[y].tok
    BY <2>1, <2>2, <2>3, <2>4
  <2>6. \A k \in 0 .. m : t.node[Nth(t.mask[p], k)].tok = t.node[Nth(t.mask[q], k)].tok
    BY <2>1, <2>2, <2>3, <2>4
  <2>7. Same(p, q)
    BY <2>4, <2>6 DEF m, n
  <2>8. <<p, q>> \in E
    BY <1>3, <2>2, <2>3, <2>7
  <2> QED
    BY <2>5, <2>8 DEF p, q
<1>8. <<a, b>> \in E
  BY <1>3, <1>5
<1> HIDE DEF Same
<1> QED
  BY <1>6, <1>7, <1>8, NoTwins

\* Two rows of a call are answered for different contexts.
LEMMA ContextsDiffer ==
  ASSUME IInv, Served, rpc.st = "answered", NEW i \in rpc.inputs, NEW j \in rpc.inputs,
         rpc.ctx[i] = rpc.ctx[j]
  PROVE  i = j
<1> DEFINE S == tree.mask[i]
           T == tree.mask[j]
           u == tree.node[i].pos
           v == tree.node[j].pos
<1>1. /\ Grown(tree, CommittedLen, RoundEnd, Extent) /\ Shaped(tree, CommittedLen, Extent)
      /\ CommittedLen \in Nat /\ RoundEnd \in Nat /\ Extent \in Nat /\ RoundEnd <= Extent
      /\ 1 <= CommittedLen
      /\ rpc.inputs = CommittedLen - 1 .. RoundEnd - 1
      /\ i \in 0 .. Extent - 1 /\ j \in 0 .. Extent - 1
      /\ rpc.req[i].mask = S /\ rpc.req[j].mask = T
  BY Requested DEF Grown
<1>2. Spelled(tree, S) = Spelled(tree, T)
  BY <1>1 DEF Served
<1>3. Cardinality(S) = u + 1 /\ u \in 0 .. i /\ Cardinality(T) = v + 1 /\ v \in 0 .. j
  BY <1>1, PosIsDepth
<1>4. u \in Nat /\ v \in Nat
  BY <1>1, <1>3
<1>5. i \in CommittedLen - 1 .. Extent - 1 /\ j \in CommittedLen - 1 .. Extent - 1
  BY <1>1
<1> HIDE DEF S, T, u, v
<1>6. Spelled(tree, S) = [k \in 1 .. u + 1 |-> tree.node[Nth(S, k - 1)].tok]
  BY <1>3 DEF Spelled
<1>7. Spelled(tree, T) = [k \in 1 .. v + 1 |-> tree.node[Nth(T, k - 1)].tok]
  BY <1>3 DEF Spelled
<1>8. 1 .. u + 1 = 1 .. v + 1
  BY <1>2, <1>6, <1>7
<1>9. u = v
  <2>1. u + 1 \in 1 .. v + 1 /\ v + 1 \in 1 .. u + 1
    BY <1>4, <1>8
  <2> QED
    BY <1>4, <2>1
<1>10. ASSUME NEW k \in 0 .. u PROVE tree.node[Nth(S, k)].tok = tree.node[Nth(T, k)].tok
  <2> DEFINE m == k + 1
  <2>1. m \in 1 .. u + 1 /\ m \in 1 .. v + 1 /\ m - 1 = k
    BY <1>4, <1>9
  <2> HIDE DEF m
  <2>2. Spelled(tree, S)[m] = tree.node[Nth(S, m - 1)].tok
    BY <1>6, <2>1
  <2>3. Spelled(tree, T)[m] = tree.node[Nth(T, m - 1)].tok
    BY <1>7, <2>1
  <2> QED
    BY <1>2, <2>1, <2>2, <2>3
<1>11. /\ tree.node[i].pos = tree.node[j].pos
       /\ \A k \in 0 .. tree.node[i].pos :
            tree.node[Nth(tree.mask[i], k)].tok = tree.node[Nth(tree.mask[j], k)].tok
  BY <1>9, <1>10 DEF S, T, u, v
<1>12. Grown(tree, CommittedLen, RoundEnd, Extent)
  BY <1>1
<1> QED
  BY <1>5, <1>11, <1>12, WordsDiffer, SMTT(30)

\* The accepted path, slot by slot: the committed slots first, then one node of
\* each depth, the child of the one before that the answer picked for it.
LEMMA AcceptedChain ==
  ASSUME IInv, rpc.st # "idle", bet.st # "drafting", NEW sel, NEW acc, acc = Accepted(sel),
         NEW c, c = CommittedLen, NEW n, n = Cardinality(acc)
  PROVE  /\ c \in Nat /\ n \in Nat /\ 1 <= c /\ c <= n
         /\ \A k \in 0 .. c - 1 : Nth(acc, k) = k
         /\ \A k \in 0 .. n - 1 : Nth(acc, k) \in acc /\ tree.node[Nth(acc, k)].pos = k
         /\ \A k \in c - 1 .. n - 1 : /\ Nth(acc, k) \in rpc.inputs
                                      /\ Cardinality(tree.mask[Nth(acc, k)]) = k + 1
                                      /\ \A l \in 0 .. k : Nth(tree.mask[Nth(acc, k)], l) = Nth(acc, l)
         /\ \A k \in c .. n - 1 : tree.node[Nth(acc, k)].tok = sel[Nth(acc, k - 1)]
         /\ Nth(acc, n - 1) = LastSlot(acc)
<1> DEFINE e == Extent
           r == RoundEnd
           b == BestSlot(sel)
<1>1. /\ Shaped(tree, c, e) /\ c \in Nat /\ r \in Nat /\ e \in Nat /\ 1 <= c /\ c < r /\ r <= e
      /\ rpc.inputs = c - 1 .. r - 1
  BY Requested DEF Grown
<1>2. b \in rpc.inputs /\ acc = tree.mask[b] /\ LastSlot(acc) = b /\ tree.mask[b] \subseteq AcceptedSlots(sel)
  BY BestSlotFacts DEF AcceptedRow
<1> HIDE DEF b, e, r
<1>3. b \in 0 .. e - 1 /\ b \in Nat /\ b >= c - 1 /\ b <= r - 1
  BY <1>1, <1>2
<1>4. n = tree.node[b].pos + 1 /\ tree.node[b].pos \in 0 .. b
  BY <1>1, <1>2, <1>3, PosIsDepth
<1>5. /\ \A a \in acc : Nth(acc, tree.node[a].pos) = a
      /\ \A k \in 0 .. tree.node[b].pos : Nth(acc, k) \in acc /\ tree.node[Nth(acc, k)].pos = k
  BY <1>1, <1>2, <1>3, RowByPos
<1>6. n \in Nat /\ tree.node[b].pos = n - 1
  BY <1>3, <1>4
<1>7. \A k \in 0 .. n - 1 : Nth(acc, k) \in acc /\ tree.node[Nth(acc, k)].pos = k
  BY <1>5, <1>6
<1>8. b \in acc /\ acc \subseteq 0 .. b /\ 0 .. c - 1 \subseteq acc
  BY <1>1, <1>2, <1>3, RowBounds, RowOfChain
<1>9. \A k \in 0 .. c - 1 : k \in 0 .. e - 1 /\ tree.node[k].pos = k
  <2>1. \A k \in 0 .. c - 1 : k \in 0 .. e - 1 /\ k < c
    BY <1>1
  <2> QED
    BY <1>1, <2>1, RowOfChain
<1>10. \A k \in 0 .. c - 1 : Nth(acc, k) = k
  BY <1>5, <1>8, <1>9
<1>11. Nth(acc, n - 1) = LastSlot(acc)
  BY <1>2, <1>5, <1>6, <1>8
<1>12. c <= n
  <2>1. CASE b < c
    <3>1. b = c - 1 /\ c - 1 \in 0 .. c - 1
      BY <1>1, <1>3, <2>1
    <3>2. tree.node[b].pos = c - 1
      BY <1>9, <3>1
    <3> QED
      BY <1>1, <1>6, <3>2
  <2>2. CASE b >= c
    <3>1. b \in c .. e - 1
      BY <1>1, <1>3, <2>2
    <3>2. tree.node[b].pos >= c
      BY <1>1, <3>1, SeedAlone
    <3> QED
      BY <1>1, <1>6, <3>2
  <2> QED
    BY <1>1, <1>3, <2>1, <2>2
<1>13. ASSUME NEW k \in c - 1 .. n - 1
       PROVE  /\ k \in 0 .. n - 1 /\ Nth(acc, k) \in rpc.inputs /\ Nth(acc, k) \in 0 .. e - 1
              /\ k >= c => Nth(acc, k) >= c
  <2> DEFINE x == Nth(acc, k)
  <2>1. k \in 0 .. n - 1 /\ k \in Int
    BY <1>1, <1>6
  <2>2. x \in acc /\ tree.node[x].pos = k
    BY <1>7, <2>1
  <2> HIDE DEF x
  <2>3. x \in Nat /\ x <= b
    BY <1>3, <1>8, <2>2
  <2>4. x < c => k = x
    <3> SUFFICES ASSUME x < c PROVE k = x
      OBVIOUS
    <3>1. x \in 0 .. c - 1
      BY <1>1, <2>3
    <3> QED
      BY <1>9, <2>2, <3>1
  <2>5. x >= c - 1 /\ (k >= c => x >= c)
    BY <1>1, <2>1, <2>3, <2>4
  <2>6. x \in c - 1 .. r - 1 /\ x \in 0 .. e - 1
    BY <1>1, <1>3, <2>3, <2>5
  <2> QED
    BY <1>1, <2>1, <2>5, <2>6 DEF x
<1>14. ASSUME NEW k \in c - 1 .. n - 1
       PROVE  /\ Cardinality(tree.mask[Nth(acc, k)]) = k + 1
              /\ \A l \in 0 .. k : Nth(tree.mask[Nth(acc, k)], l) = Nth(acc, l)
  <2> DEFINE x == Nth(acc, k)
  <2>1. x \in acc /\ tree.node[x].pos = k /\ x \in 0 .. e - 1
    BY <1>7, <1>13
  <2> HIDE DEF x
  <2>2. Cardinality(tree.mask[x]) = tree.node[x].pos + 1
    BY <1>1, <2>1, PosIsDepth
  <2>3. \A l \in 0 .. tree.node[x].pos : Nth(tree.mask[x], l) = Nth(tree.mask[b], l)
    <3>1. x \in tree.mask[b]
      BY <1>2, <2>1
    <3> QED
      BY <1>1, <1>3, <3>1, RowsShare
  <2> QED
    BY <1>2, <2>1, <2>2, <2>3 DEF x
<1>15. ASSUME NEW k \in c .. n - 1
       PROVE  tree.node[Nth(acc, k)].tok = sel[Nth(acc, k - 1)]
  <2> DEFINE y == Nth(acc, k)
             p == tree.node[y].par
  <2>0. k \in c - 1 .. n - 1 /\ k \in Int /\ k >= c
    BY <1>1, <1>6
  <2>1. y \in acc /\ tree.node[y].pos = k /\ y \in 0 .. e - 1 /\ y >= c /\ y \in rpc.inputs
    BY <1>7, <1>13, <2>0
  <2> HIDE DEF y
  <2>2. y \in 1 .. e - 1
    BY <1>1, <2>1
  <2>3. Hangs(tree, c, y)
    BY <1>1, <2>2 DEF Shaped
  <2>4. tree.mask[y] = tree.mask[p] \cup {y} /\ tree.node[y].pos = tree.node[p].pos + 1 /\ p \in 0 .. y - 1
    <3>1. p \in Nat /\ p < y
      <4>1. Grown(tree, c, RoundEnd, e)
        BY Requested DEF e
      <4>2. \A i \in c .. e - 1 : tree.node[i].par \in c - 1 .. i - 1
        BY <4>1, GrownNumbers
      <4>3. y \in c .. e - 1 /\ y \in Nat
        BY <1>1, <2>1
      <4>4. p \in c - 1 .. y - 1
        BY <4>2, <4>3
      <4> QED
        BY <1>1, <4>3, <4>4
    <3> QED
      BY <2>2, <2>3, <3>1 DEF Hangs
  <2> HIDE DEF p
  <2>5. p \in 0 .. e - 1
    BY <1>1, <2>2, <2>4
  <2>6. p \in tree.mask[p] /\ tree.node[p].pos \in Nat
    BY <1>1, <2>5, RowBounds, PosIsDepth
  <2>7. p \in acc
    <3>1. tree.mask[y] = {x \in tree.mask[b] : x <= y}
      BY <1>1, <1>2, <1>3, <2>1, RowsNest
    <3> QED
      BY <1>2, <2>4, <2>6, <3>1
  <2>8. Nth(acc, k - 1) = p
    <3>1. tree.node[p].pos = k - 1
      BY <2>0, <2>1, <2>4, <2>6
    <3> QED
      BY <1>5, <2>7, <3>1
  <2>9. Agrees(sel, b)
    BY <1>2, ClientAgrees
  <2>10. tree.node[y].tok = sel[p]
    BY <1>2, <2>1, <2>9 DEF Agrees, p
  <2> QED
    BY <2>8, <2>10 DEF y
<1> QED
  BY <1>1, <1>6, <1>7, <1>10, <1>11, <1>12, <1>13, <1>14, <1>15

\* The first tokens of a sequence given token by token.
LEMMA FirstTokens ==
  ASSUME NEW f, NEW n \in Nat, DOMAIN f = 1 .. n, f = [k \in 1 .. n |-> f[k]], NEW m \in 0 .. n
  PROVE  Len(f) = n /\ SubSeq(f, 1, m) = [k \in 1 .. m |-> f[k]]
<1>1. Len(f) = n
  <2>1. \A j \in Nat : 1 .. j = 1 .. n => j = n
    <3> SUFFICES ASSUME NEW j \in Nat, 1 .. j = 1 .. n PROVE j = n
      OBVIOUS
    <3>1. (j = 0 \/ j \in 1 .. n) /\ (n = 0 \/ n \in 1 .. j)
      OBVIOUS
    <3> QED
      BY <3>1
  <2> QED
    BY <2>1
<1>2. SubSeq(f, 1, m) = [k \in 1 .. m |-> f[k]]
  OBVIOUS
<1> QED
  BY <1>1, <1>2

\* A row's answer is the answer to its context.
LEMMA AnswerOfRow ==
  ASSUME IInv, Served, rpc.st = "answered", NEW x \in rpc.inputs
  PROVE  rpc.ctx[x] \in DOMAIN Answers /\ Answers[rpc.ctx[x]] = rpc.sel[x]
<1>1. Answers = [w \in {rpc.ctx[i] : i \in rpc.inputs} |->
                   rpc.sel[CHOOSE i \in rpc.inputs : rpc.ctx[i] = w]]
  BY DEF Answers
<1>2. rpc.ctx[x] \in {rpc.ctx[i] : i \in rpc.inputs}
  OBVIOUS
<1> DEFINE i == CHOOSE i \in rpc.inputs : rpc.ctx[i] = rpc.ctx[x]
<1>3. i \in rpc.inputs /\ rpc.ctx[i] = rpc.ctx[x]
  OBVIOUS
<1>4. i = x
  BY <1>3, ContextsDiffer
<1> QED
  BY <1>1, <1>2, <1>4

\* Committing a round emits what the target answered, token by token.
LEMMA CommitEmits ==
  ASSUME IInv, Served, Commits
  PROVE  Target!Emit
<1> DEFINE acc == Accepted(rpc.sel)
           n == Cardinality(acc)
           c == CommittedLen
<1>1. /\ pc = "join" /\ rpc.st = "answered"
      /\ rpc' = NoRpc /\ bet' = NoBet
      /\ tree'.prefix = n + 1
      /\ \A i \in 0 .. n - 1 : tree'.node[i].tok = tree.node[Nth(acc, i)].tok
      /\ tree'.node[n].tok = Bonus(acc)
  BY DEF Commits
<1>2. rpc.st # "idle" /\ bet.st # "drafting"
  BY <1>1, Joined
<1>3. /\ c \in Nat /\ n \in Nat /\ 1 <= c /\ c <= n
      /\ \A k \in 0 .. c - 1 : Nth(acc, k) = k
      /\ \A k \in c - 1 .. n - 1 : /\ Nth(acc, k) \in rpc.inputs
                                   /\ Cardinality(tree.mask[Nth(acc, k)]) = k + 1
                                   /\ \A l \in 0 .. k : Nth(tree.mask[Nth(acc, k)], l) = Nth(acc, l)
      /\ \A k \in c .. n - 1 : tree.node[Nth(acc, k)].tok = rpc.sel[Nth(acc, k - 1)]
      /\ Nth(acc, n - 1) = LastSlot(acc)
  BY <1>2, AcceptedChain
<1>4. CommittedLen' = n + 1
  BY <1>1 DEF CommittedLen, Drafting, NoBet
<1>5. rpc.sel[LastSlot(acc)] = Bonus(acc)
  BY DEF Bonus
<1> DEFINE o == Output
           q == Output'
           s(k) == tree.node[Nth(acc, k - 1)].tok
<1>6. o = [k \in 1 .. c |-> tree.node[k - 1].tok]
  BY DEF Output
<1>7. q = [k \in 1 .. n + 1 |-> tree'.node[k - 1].tok]
  BY <1>4 DEF Output
<1> HIDE DEF acc, n, c, o, q
<1>8. \A k \in 1 .. n : k - 1 \in 0 .. n - 1 /\ k \in 1 .. n + 1
  BY <1>3
<1>9. \A k \in 1 .. n : q[k] = tree.node[Nth(acc, k - 1)].tok
  BY <1>1, <1>7, <1>8
<1>10. q[n + 1] = Bonus(acc)
  <2> DEFINE N == n + 1
  <2>1. N \in 1 .. N /\ N - 1 = n
    BY <1>3
  <2>2. q = [k \in 1 .. N |-> tree'.node[k - 1].tok]
    BY <1>7
  <2> HIDE DEF N
  <2>3. q[N] = tree'.node[N - 1].tok
    BY <2>1, <2>2
  <2> QED
    BY <1>1, <2>1, <2>3 DEF N
<1>11. /\ Len(q) = n + 1 /\ n + 1 \in Nat
       /\ \A m \in 0 .. n + 1 : SubSeq(q, 1, m) = [k \in 1 .. m |-> q[k]]
  <2> DEFINE N == n + 1
  <2>1. N \in Nat /\ DOMAIN q = 1 .. N /\ q = [k \in 1 .. N |-> q[k]]
    BY <1>3, <1>7
  <2> HIDE DEF N
  <2>2. \A m \in 0 .. N : Len(q) = N /\ SubSeq(q, 1, m) = [k \in 1 .. m |-> q[k]]
    BY <2>1, FirstTokens
  <2>3. 0 \in 0 .. N
    BY <2>1
  <2> QED
    BY <2>1, <2>2, <2>3 DEF N
<1>12. Len(o) = c
  <2>1. DOMAIN o = 1 .. c /\ o = [k \in 1 .. c |-> o[k]] /\ 0 \in 0 .. c
    BY <1>3, <1>6
  <2> QED
    BY <1>3, <2>1, FirstTokens
<1>13. Len(q) > Len(o) /\ SubSeq(q, 1, Len(o)) = o
  <2>1. c \in 0 .. n + 1 /\ n + 1 > c
    BY <1>3
  <2>2. SubSeq(q, 1, c) = [k \in 1 .. c |-> q[k]]
    BY <1>11, <2>1
  <2>3. ASSUME NEW k \in 1 .. c PROVE q[k] = tree.node[k - 1].tok
    <3>1. k \in 1 .. n /\ k - 1 \in 0 .. c - 1
      BY <1>3
    <3> QED
      BY <1>3, <1>9, <3>1
  <2> QED
    BY <1>6, <1>11, <1>12, <2>1, <2>2, <2>3
<1>14. ASSUME NEW m \in Len(o) + 1 .. Len(q)
       PROVE  SubSeq(q, 1, m - 1) \in DOMAIN Answers /\ Answers[SubSeq(q, 1, m - 1)] = q[m]
  <2> DEFINE j == m - 1
             x == Nth(acc, j - 1)
  <2>1. m \in c + 1 .. n + 1
    BY <1>11, <1>12
  <2>2. j \in c .. n /\ j - 1 \in c - 1 .. n - 1 /\ j \in Nat /\ j - 1 \in Nat /\ m = j + 1
    BY <1>3, <2>1
  <2> HIDE DEF j
  <2>3. /\ x \in rpc.inputs /\ Cardinality(tree.mask[x]) = j
        /\ \A l \in 0 .. j - 1 : Nth(tree.mask[x], l) = Nth(acc, l)
    <3>1. Cardinality(tree.mask[x]) = j - 1 + 1
      BY <1>3, <2>2
    <3> QED
      BY <1>3, <2>2, <3>1
  <2> HIDE DEF x
  <2>4. rpc.ctx[x] = Spelled(tree, tree.mask[x])
    <3>1. rpc.req[x].mask = tree.mask[x]
      BY <1>2, <2>3, Requested
    <3> QED
      BY <1>1, <2>3, <3>1 DEF Served
  <2>5. SubSeq(q, 1, j) = [k \in 1 .. j |-> q[k]]
    BY <1>3, <1>11, <2>2
  <2>6. ASSUME NEW k \in 1 .. j PROVE tree.node[Nth(tree.mask[x], k - 1)].tok = q[k]
    <3>1. k \in 1 .. n /\ k - 1 \in 0 .. j - 1
      BY <1>3, <2>2
    <3> QED
      BY <1>9, <2>3, <3>1
  <2>7. Spelled(tree, tree.mask[x]) = [k \in 1 .. j |-> q[k]]
    BY <2>3, <2>6 DEF Spelled
  <2>8. rpc.ctx[x] = SubSeq(q, 1, j)
    BY <2>4, <2>5, <2>7
  <2>9. rpc.ctx[x] \in DOMAIN Answers /\ Answers[rpc.ctx[x]] = rpc.sel[x]
    BY <1>1, <2>3, AnswerOfRow
  <2>10. rpc.sel[x] = q[m]
    <3>1. CASE j = n
      BY <1>3, <1>5, <1>10, <2>2, <3>1 DEF x
    <3>2. CASE j # n
      <4>1. j \in c .. n - 1 /\ m \in 1 .. n /\ m - 1 = j
        BY <1>3, <2>2, <3>2
      <4>2. q[m] = tree.node[Nth(acc, j)].tok
        BY <1>9, <4>1
      <4> QED
        BY <1>3, <4>1, <4>2 DEF x
    <3> QED
      BY <3>1, <3>2
  <2> QED
    BY <2>8, <2>9, <2>10 DEF j
<1>15. Answers' = <<>>
  BY <1>1 DEF Answers, NoRpc
<1> QED
  BY <1>13, <1>14, <1>15 DEF Target!Emit, o, q

\* Any other step leaves the output alone.
LEMMA QuietAnswers ==
  ASSUME IInv, IInv', Quiet
  PROVE  Target!Answer
<1>1. Output' = Output
  <2>1. CommittedLen \in Nat
    BY Bounds
  <2>2. /\ CommittedLen' = CommittedLen
        /\ \A k \in 1 .. CommittedLen : tree'.node[k - 1].tok = tree.node[k - 1].tok
    <3>1. \A k \in 1 .. CommittedLen : k - 1 \in 0 .. CommittedLen - 1
      BY <2>1
    <3> QED
      BY <3>1 DEF Quiet
  <2> QED
    BY <2>2 DEF Output
<1>2. CASE rpc'.st # "answered"
  <2>1. Answers' = <<>>
    BY <1>2 DEF Answers
  <2> QED
    BY <1>1, <2>1 DEF Target!Answer
<1>3. CASE rpc'.st = "answered"
  <2>1. Answers' = [w \in {rpc'.ctx[i] : i \in rpc'.inputs} |->
                     rpc'.sel[CHOOSE i \in rpc'.inputs : rpc'.ctx[i] = w]]
    BY <1>3 DEF Answers
  <2>2. rpc'.sel \in [rpc'.inputs -> Tok]
    BY <1>3 DEF IInv, Request
  <2>3. ASSUME NEW w \in DOMAIN Answers' PROVE Answers'[w] \in Tok
    <3>1. \E i \in rpc'.inputs : rpc'.ctx[i] = w
      BY <2>1
    <3>2. (CHOOSE i \in rpc'.inputs : rpc'.ctx[i] = w) \in rpc'.inputs
      BY <3>1
    <3> QED
      BY <2>1, <2>2, <3>2
  <2> QED
    BY <1>1, <2>3 DEF Target!Answer
<1> QED
  BY <1>2, <1>3

\* A request starts with its prompt as the output.
LEMMA PromptIsOutput ==
  ASSUME Init
  PROVE  Target!Init
<1>1. PICK p \in Prompts : tree = NewTree(p)
  BY DEF Init
<1>2. rpc = NoRpc /\ bet = NoBet
  BY DEF Init
<1>3. p \in Seq(Tok) /\ Len(p) \in 1 .. MaxLen /\ MaxLen \in Nat
  BY SpecExecAssumption, MaxLenAssumption DEF NewTreeOk
<1>4. CommittedLen = Len(p)
  BY <1>1, <1>2 DEF CommittedLen, Drafting, NoBet, NewTree
<1>5. ASSUME NEW k \in 1 .. Len(p) PROVE tree.node[k - 1].tok = p[k]
  <2> DEFINE s == k - 1
  <2>1. s \in Slots /\ s < Len(p) /\ s + 1 = k
    BY <1>3 DEF Slots
  <2> HIDE DEF s
  <2>2. tree.node[s].tok = p[s + 1]
    BY <1>1, <2>1 DEF NewTree
  <2> QED
    BY <2>1, <2>2 DEF s
<1>6. Output = [k \in 1 .. Len(p) |-> p[k]]
  BY <1>4, <1>5 DEF Output
<1>7. Output = p
  BY <1>3, <1>6
<1>8. p # <<>>
  BY <1>3
<1>9. Answers = <<>>
  BY <1>2 DEF Answers, NoRpc
<1> QED
  BY <1>3, <1>7, <1>8, <1>9 DEF Target!Init

\* Speculative decoding is lossless, at every configuration and whatever the
\* draft model proposes: a live request implements the target decoding alone.
THEOREM DecodingIsLossless ==
  ASSUME Reference = <<>>
  PROVE  Spec => Lossless
<1>1. Init => Served
  BY ServedInit
<1>2. IInv /\ Served /\ [Next]_vars => Served'
  BY ServedStep
<1>3. Init => Target!Init
  BY PromptIsOutput
<1>4. IInv /\ Served /\ [Next]_vars => [Target!Next]_<<Output, Answers>>
  <2> SUFFICES ASSUME IInv, Served, [Next]_vars PROVE Target!Answer \/ Target!Emit
    BY DEF Target!Next
  <2>1. IInv' /\ (Commits \/ Quiet)
    BY Steps DEF Still
  <2>2. CASE Commits
    BY <2>2, CommitEmits
  <2>3. CASE Quiet
    BY <2>1, <2>3, QuietAnswers
  <2> QED
    BY <2>1, <2>2, <2>3
<1> QED
  BY <1>1, <1>2, <1>3, <1>4, AlwaysIInv, PTL DEF Spec, Lossless, Target!Spec

-----------------------------------------------------------------------------
(* Replays *)

\* The token a replay is to commit to slot s.
Recorded(s) == IF s < Len(Reference) THEN Reference[s + 1] ELSE PastEnd

\* A replay has committed its recording, and is answered from it by position.
Recited ==
  /\ \A s \in 0 .. CommittedLen - 1 : tree.node[s].tok = Recorded(s)
  /\ rpc.st = "answered" => \A i \in rpc.inputs : rpc.sel[i] = Recorded(rpc.req[i].pos + 1)

\* It starts with the recording's prompt.
LEMMA RecitedInit ==
  ASSUME Reference # <<>>, Init
  PROVE  Recited
<1>1. PICK p \in Prompts : tree = NewTree(p)
  BY DEF Init
<1>2. rpc.st = "idle" /\ bet.st = "none"
  BY DEF Init, NoRpc, NoBet
<1>3. /\ p \in Seq(Tok) /\ Len(p) \in 1 .. MaxLen /\ MaxLen \in Nat
      /\ Reference \in Seq(Tok) /\ Len(p) < Len(Reference) /\ SubSeq(Reference, 1, Len(p)) = p
  BY SpecExecAssumption, MaxLenAssumption DEF NewTreeOk
<1>4. CommittedLen = Len(p)
  BY <1>1, <1>2 DEF CommittedLen, Drafting, NewTree
<1>5. ASSUME NEW s \in 0 .. Len(p) - 1 PROVE tree.node[s].tok = Recorded(s)
  <2>1. s \in Slots /\ s < Len(p) /\ s + 1 \in 1 .. Len(p) /\ s < Len(Reference)
    BY <1>3 DEF Slots
  <2>2. tree.node[s].tok = p[s + 1]
    BY <1>1, <2>1 DEF NewTree
  <2>3. p[s + 1] = Reference[s + 1]
    <3>1. \A k \in 1 .. Len(p) : SubSeq(Reference, 1, Len(p))[k] = Reference[k]
      BY <1>3
    <3> QED
      BY <1>3, <2>1, <3>1
  <2> QED
    BY <2>1, <2>2, <2>3 DEF Recorded
<1> QED
  BY <1>2, <1>4, <1>5 DEF Recited

\* Every step of a replay keeps to the recording: each accepted token is what the
\* recording has at its position, and so is the bonus token.
LEMMA RecitedStep ==
  ASSUME Reference # <<>>, IInv, Recited, [Next]_vars
  PROVE  Recited'
<1>0. /\ IInv'
      /\ \/ Commits
         \/ Still
         \/ Quiet /\ rpc.st = "idle" /\ rpc'.st = "sent" /\ srv' = srv
         \/ Quiet /\ rpc'.st = "failed"
         \/ Quiet /\ (ServerAnswer \/ OracleAnswer)
  BY Steps
<1>1. ASSUME Quiet PROVE \A s \in 0 .. CommittedLen' - 1 : tree'.node[s].tok = Recorded(s)
  BY <1>1 DEF Quiet, Recited
<1>2. CASE Still
  BY <1>1, <1>2 DEF Still, Recited, Recorded
<1>3. CASE Quiet /\ rpc'.st \in {"sent", "failed"}
  BY <1>1, <1>3 DEF Recited, Recorded
<1>4. CASE Quiet /\ OracleAnswer
  <2> DEFINE chosen == OracleSelection(Reference, PastEnd)
  <2>1. rpc' = [rpc EXCEPT !.st = "answered", !.sel = chosen] /\ rpc.st = "sent"
    BY <1>4 DEF OracleAnswer
  <2>2. rpc = [st |-> rpc.st, inputs |-> rpc.inputs, req |-> rpc.req, ctx |-> rpc.ctx, sel |-> rpc.sel]
    BY DEF IInv, Records
  <2>3. \A i \in rpc.inputs : chosen[i] = Recorded(rpc.req[i].pos + 1)
    <3> SUFFICES ASSUME NEW i \in rpc.inputs PROVE chosen[i] = Recorded(rpc.req[i].pos + 1)
      OBVIOUS
    <3> DEFINE u == rpc.req[i].pos + 1
    <3>1. chosen[i] = IF u < Len(Reference) THEN Reference[u + 1] ELSE PastEnd
      BY DEF OracleSelection
    <3> HIDE DEF u, chosen
    <3> QED
      BY <3>1 DEF Recorded, u
  <2> HIDE DEF chosen
  <2>4. rpc'.st = "answered" /\ rpc'.inputs = rpc.inputs /\ rpc'.req = rpc.req /\ rpc'.sel = chosen
    BY <2>1, <2>2
  <2> QED
    BY <1>1, <1>4, <2>3, <2>4 DEF Recited, Recorded
<1>5. CASE ServerAnswer
  BY <1>5 DEF ServerAnswer
<1>6. CASE Commits
  <2> DEFINE acc == Accepted(rpc.sel)
             n == Cardinality(acc)
             c == CommittedLen
  <2>1. /\ pc = "join" /\ rpc.st = "answered"
        /\ rpc' = NoRpc /\ bet' = NoBet
        /\ tree'.prefix = n + 1
        /\ \A i \in 0 .. n - 1 : tree'.node[i].tok = tree.node[Nth(acc, i)].tok
        /\ tree'.node[n].tok = Bonus(acc)
    BY <1>6 DEF Commits
  <2>2. rpc.st # "idle" /\ bet.st # "drafting"
    BY <2>1, Joined
  <2>3. /\ c \in Nat /\ n \in Nat /\ 1 <= c /\ c <= n
        /\ \A k \in 0 .. c - 1 : Nth(acc, k) = k
        /\ \A k \in 0 .. n - 1 : tree.node[Nth(acc, k)].pos = k
        /\ \A k \in c - 1 .. n - 1 : Nth(acc, k) \in rpc.inputs
        /\ \A k \in c .. n - 1 : tree.node[Nth(acc, k)].tok = rpc.sel[Nth(acc, k - 1)]
        /\ Nth(acc, n - 1) = LastSlot(acc)
    BY <2>2, AcceptedChain
  <2>4. CommittedLen' = n + 1 /\ rpc'.st = "idle"
    BY <2>1 DEF CommittedLen, Drafting, NoBet, NoRpc
  <2>5. Bonus(acc) = rpc.sel[LastSlot(acc)]
    BY DEF Bonus
  <2>6. \A s \in 0 .. c - 1 : tree.node[s].tok = Recorded(s)
    BY DEF Recited
  <2> HIDE DEF acc, n, c
  <2>7. ASSUME NEW k \in c - 1 .. n - 1 PROVE rpc.sel[Nth(acc, k)] = Recorded(k + 1)
    <3> DEFINE x == Nth(acc, k)
    <3>1. k \in 0 .. n - 1
      BY <2>3
    <3>2. x \in rpc.inputs /\ tree.node[x].pos = k
      BY <2>3, <3>1
    <3> HIDE DEF x
    <3>3. rpc.req[x].pos = k
      BY <2>2, <3>2, Requested
    <3> QED
      BY <2>1, <3>2, <3>3 DEF Recited, x
  <2>8. ASSUME NEW s \in 0 .. (n + 1) - 1 PROVE tree'.node[s].tok = Recorded(s)
    <3>1. CASE s = n
      <4>1. n - 1 \in c - 1 .. n - 1 /\ (n - 1) + 1 = n
        BY <2>3
      <4> QED
        BY <2>1, <2>3, <2>5, <2>7, <3>1, <4>1
    <3>2. CASE s < c
      <4>1. s \in 0 .. c - 1 /\ s \in 0 .. n - 1
        BY <2>3, <3>2
      <4> QED
        BY <2>1, <2>3, <2>6, <4>1
    <3>3. CASE s # n /\ s >= c
      <4>1. s \in c .. n - 1 /\ s \in 0 .. n - 1 /\ s - 1 \in c - 1 .. n - 1 /\ (s - 1) + 1 = s
        BY <2>3, <3>3
      <4>2. rpc.sel[Nth(acc, s - 1)] = Recorded(s)
        BY <2>7, <4>1
      <4> QED
        BY <2>1, <2>3, <4>1, <4>2
    <3> QED
      BY <2>3, <3>1, <3>2, <3>3
  <2> QED
    BY <2>4, <2>8 DEF Recited, Recorded
<1> QED
  BY <1>0, <1>2, <1>3, <1>4, <1>5, <1>6

\* A replay commits its recording, then the past-end token, at every
\* configuration of the client that replays it.
THEOREM ReplayRecites == Spec => []ReplaySpellsReference
<1>1. Init /\ Reference # <<>> => Recited
  BY RecitedInit
<1>2. IInv /\ (Reference # <<>> => Recited) /\ [Next]_vars => (Reference # <<>> => Recited')
  BY RecitedStep
<1> DEFINE R == Reference # <<>> => Recited
<1>3. Init => R
  BY <1>1
<1>4. IInv /\ R /\ [Next]_vars => R'
  BY <1>2
<1>5. IInv /\ R => ReplaySpellsReference
  <2> SUFFICES ASSUME IInv, Recited, Reference # <<>>, NEW k \in DOMAIN Output
               PROVE  Output[k] = IF k <= Len(Reference) THEN Reference[k] ELSE PastEnd
    BY DEF ReplaySpellsReference
  <2> DEFINE s == k - 1
  <2>1. CommittedLen \in Nat
    BY Bounds
  <2>2. k \in 1 .. CommittedLen /\ Output[k] = tree.node[s].tok
    BY DEF Output
  <2>3. s \in 0 .. CommittedLen - 1 /\ s + 1 = k /\ s \in Int /\ k \in Int
    BY <2>1, <2>2
  <2> HIDE DEF s
  <2>4. Output[k] = Recorded(s)
    BY <2>2, <2>3 DEF Recited
  <2>5. Len(Reference) \in Nat
    BY SpecExecAssumption
  <2>6. s < Len(Reference) <=> k <= Len(Reference)
    BY <2>3, <2>5
  <2> QED
    BY <2>3, <2>4, <2>6 DEF Recorded
<1> HIDE DEF R
<1> QED
  BY <1>3, <1>4, <1>5, AlwaysIInv, PTL DEF Spec

\* A row agrees with an answer when the rows it extends do.
LEMMA AgreesAbove ==
  ASSUME IInv, rpc.st # "idle", NEW sel, NEW i \in rpc.inputs, Agrees(sel, i), NEW a \in tree.mask[i]
  PROVE  Agrees(sel, a)
<1>1. Shaped(tree, CommittedLen, Extent) /\ i \in 0 .. Extent - 1
  BY Requested DEF Grown
<1>2. tree.mask[a] \subseteq tree.mask[i]
  BY <1>1, RowsNest
<1> QED
  BY <1>2 DEF Agrees

\* A sequence given token by token, and one more token.
LEMMA OneMore ==
  ASSUME NEW f, NEW n \in Nat, DOMAIN f = 1 .. n, f = [k \in 1 .. n |-> f[k]], NEW x
  PROVE  /\ Len(Append(f, x)) = n + 1 /\ Append(f, x)[n + 1] = x
         /\ \A k \in 1 .. n : Append(f, x)[k] = f[k]
<1> DEFINE S == {f[k] : k \in 1 .. n} \cup {x}
<1>1. Len(f) = n
  <2>1. 0 \in 0 .. n
    OBVIOUS
  <2> QED
    BY <2>1, FirstTokens
<1>2. f \in [1 .. n -> S] /\ x \in S
  OBVIOUS
<1> HIDE DEF S
<1>3. f \in Seq(S)
  BY <1>2
<1> QED
  BY <1>1, <1>2, <1>3

\* What an oracle that knows the round's outcome answers: along the accepted path
\* the token that follows on it, and at its end the bonus token.
LEMMA OracleFollowsPath ==
  ASSUME IInv, rpc.st # "idle", bet.st # "drafting", NEW sel, NEW next, NEW ref,
         LET acc == Accepted(sel)
             n == Cardinality(acc)
         IN /\ Len(ref) = n + 1 /\ ref[n + 1] = sel[LastSlot(acc)]
            /\ \A k \in 1 .. n : ref[k] = tree.node[Nth(acc, k - 1)].tok
  PROVE  LET acc == Accepted(sel)
             again == OracleSelection(ref, next)
         IN again[LastSlot(acc)] = sel[LastSlot(acc)] /\ Agrees(again, LastSlot(acc))
<1> DEFINE acc == Accepted(sel)
           n == Cardinality(acc)
           again == OracleSelection(ref, next)
           c == CommittedLen
           e == Extent
           b == LastSlot(acc)
<1>1. /\ c \in Nat /\ n \in Nat /\ 1 <= c /\ c <= n
      /\ \A k \in 0 .. n - 1 : Nth(acc, k) \in acc /\ tree.node[Nth(acc, k)].pos = k
      /\ Nth(acc, n - 1) = b
  BY AcceptedChain
<1>2. /\ Shaped(tree, c, e) /\ e \in Nat
      /\ \A i \in rpc.inputs : i \in 0 .. e - 1 /\ rpc.req[i].pos = tree.node[i].pos
  BY Requested DEF Grown
<1>3. b \in rpc.inputs /\ acc = tree.mask[b]
  BY BestSlotFacts DEF AcceptedRow
<1>4. tree.node[b].pos = n - 1
  <2>1. n - 1 \in 0 .. n - 1
    BY <1>1
  <2> QED
    BY <1>1, <2>1
<1>5. /\ Len(ref) = n + 1 /\ ref[n + 1] = sel[b]
      /\ \A k \in 1 .. n : ref[k] = tree.node[Nth(acc, k - 1)].tok
  OBVIOUS
<1> HIDE DEF acc, n, again, b, c, e
<1>7. ASSUME NEW i \in rpc.inputs, tree.node[i].pos + 1 <= n, tree.node[i].pos \in Nat
      PROVE  again[i] = ref[(tree.node[i].pos + 1) + 1]
  <2> DEFINE u == rpc.req[i].pos + 1
  <2>1. again[i] = IF u < Len(ref) THEN ref[u + 1] ELSE next
    BY DEF again, OracleSelection
  <2>2. u = tree.node[i].pos + 1 /\ u \in Nat /\ u <= n
    BY <1>2, <1>7
  <2> HIDE DEF u
  <2>3. u < Len(ref)
    BY <1>1, <1>5, <2>2
  <2> QED
    BY <2>1, <2>2, <2>3
<1>8. again[b] = sel[b]
  <2>1. tree.node[b].pos \in Nat /\ tree.node[b].pos + 1 = n
    BY <1>1, <1>4
  <2>2. again[b] = ref[(tree.node[b].pos + 1) + 1]
    BY <1>1, <1>3, <1>7, <2>1
  <2> QED
    BY <1>5, <2>1, <2>2
<1>9. ASSUME NEW a \in tree.mask[b], a >= c PROVE tree.node[a].tok = again[tree.node[a].par]
  <2> DEFINE p == tree.node[a].par
             v == tree.node[a].pos
  <2>1. b \in 0 .. e - 1 /\ tree.mask[b] \subseteq 0 .. b
    BY <1>2, <1>3, RowBounds
  <2>2. a \in 0 .. e - 1 /\ a \in Nat /\ a \in c .. e - 1 /\ a \in 1 .. e - 1
    <3>1. a \in 0 .. e - 1
      BY <1>2, <1>3, RowsNest
    <3> QED
      BY <1>1, <1>2, <1>9, <3>1
  <2>3. Hangs(tree, c, a)
    BY <1>2, <2>2 DEF Shaped
  <2>4. /\ v = tree.node[p].pos + 1 /\ p \in c - 1 .. a - 1
    <3>1. Grown(tree, c, RoundEnd, e)
      BY Requested DEF c, e
    <3>2. \A i \in c .. e - 1 : tree.node[i].par \in c - 1 .. i - 1
      BY <3>1, GrownNumbers
    <3> QED
      BY <2>2, <2>3, <3>2 DEF Hangs
  <2>5. Nth(acc, v) = a
    BY <1>2, <1>3, <2>1, RowByPos
  <2>6. Rank(acc, a) = v /\ IsFiniteSet(acc) /\ acc \subseteq Int /\ Cardinality(acc) = n
    <3>1. IsFiniteSet(acc)
      BY <1>2, <1>3, <2>1, PosIsDepth
    <3>2. Rank(acc, a) = v
      BY <1>2, <1>3, <2>1, RowByPos
    <3>3. acc \subseteq Int
      BY <1>3, <2>1
    <3> QED
      BY <3>1, <3>2, <3>3 DEF n
  <2>7. v \in 0 .. n - 1
    BY <1>3, <2>2, <2>6, RankRange
  <2>8. p \in rpc.inputs
    <3>1. rpc.inputs = c - 1 .. RoundEnd - 1 /\ RoundEnd \in Nat
      BY Requested DEF c
    <3>2. b \in c - 1 .. RoundEnd - 1 /\ a <= b
      BY <1>3, <2>1, <3>1
    <3> QED
      BY <1>1, <2>2, <2>4, <3>1, <3>2
  <2>9. tree.node[p].pos \in Nat
    <3>1. p \in 0 .. e - 1
      BY <1>2, <2>8
    <3> QED
      BY <1>2, <3>1, PosIsDepth
  <2> DEFINE w == tree.node[p].pos
  <2> HIDE DEF p, v
  <2>10. again[p] = ref[(w + 1) + 1]
    <3>1. w + 1 <= n
      BY <1>1, <2>4, <2>7, <2>9
    <3> QED
      BY <1>7, <2>8, <2>9, <3>1
  <2>11. v + 1 \in 1 .. n /\ (v + 1) - 1 = v /\ (w + 1) + 1 = v + 1
    <3>1. v = w + 1 /\ w \in Nat
      BY <2>4, <2>9
    <3> HIDE DEF w
    <3> QED
      BY <1>1, <2>7, <3>1
  <2>12. ref[v + 1] = tree.node[Nth(acc, (v + 1) - 1)].tok
    BY <1>5, <2>11
  <2> QED
    BY <2>5, <2>10, <2>11, <2>12 DEF p
<1> QED
  BY <1>8, <1>9 DEF Agrees, acc, again, b, c

\* The oracle leads the client down the path the target led it down.
LEMMA OracleRepeats ==
  ASSUME IInv, rpc.st # "idle", bet.st # "drafting", NEW sel, NEW again,
         again[LastSlot(Accepted(sel))] = sel[LastSlot(Accepted(sel))],
         Agrees(again, LastSlot(Accepted(sel)))
  PROVE  Accepted(again) = Accepted(sel)
<1> DEFINE c == CommittedLen
           e == Extent
           b == BestSlot(sel)
           d == BestSlot(again)
           acc == Accepted(again)
           n == tree.node[b].pos
           m == tree.node[d].pos
<1>1. /\ b \in rpc.inputs /\ Accepted(sel) = tree.mask[b] /\ LastSlot(Accepted(sel)) = b
      /\ tree.mask[b] \subseteq AcceptedSlots(sel)
      /\ \A j \in rpc.inputs : tree.mask[j] \subseteq AcceptedSlots(sel) =>
           Cardinality(tree.mask[j]) <= Cardinality(tree.mask[b])
  BY BestSlotFacts DEF AcceptedRow
<1>2. /\ d \in rpc.inputs /\ acc = tree.mask[d]
      /\ tree.mask[d] \subseteq AcceptedSlots(again)
      /\ \A j \in rpc.inputs : tree.mask[j] \subseteq AcceptedSlots(again) =>
           Cardinality(tree.mask[j]) <= Cardinality(tree.mask[d])
  BY BestSlotFacts DEF AcceptedRow
<1>3. /\ Shaped(tree, c, e) /\ c \in Nat /\ e \in Nat /\ 1 <= c
      /\ \A i \in rpc.inputs : i \in 0 .. e - 1 /\ i >= c - 1
  <2>1. /\ Shaped(tree, c, e) /\ c \in Nat /\ e \in Nat /\ 1 <= c /\ RoundEnd \in Nat
        /\ rpc.inputs = c - 1 .. RoundEnd - 1 /\ \A i \in rpc.inputs : i \in 0 .. e - 1
    BY Requested DEF Grown
  <2> QED
    BY <2>1
<1>4. Agrees(sel, b) /\ Agrees(again, b) /\ Agrees(again, d) /\ again[b] = sel[b]
  BY <1>1, <1>2, ClientAgrees
<1>5. /\ Cardinality(tree.mask[b]) = n + 1 /\ n \in Nat
      /\ Cardinality(tree.mask[d]) = m + 1 /\ m \in Nat
  <2>1. b \in 0 .. e - 1 /\ d \in 0 .. e - 1
    BY <1>1, <1>2, <1>3
  <2>2. /\ Cardinality(tree.mask[b]) = n + 1 /\ n \in 0 .. b
        /\ Cardinality(tree.mask[d]) = m + 1 /\ m \in 0 .. d
    BY <1>3, <2>1, PosIsDepth
  <2> HIDE DEF n, m, b, d
  <2> QED
    BY <1>3, <2>1, <2>2
<1>6. Cardinality(tree.mask[b]) <= Cardinality(tree.mask[d])
  <2>1. tree.mask[b] \subseteq AcceptedSlots(again)
    BY <1>1, <1>4, ClientAgrees
  <2> QED
    BY <1>1, <1>2, <2>1
<1>7. /\ \A k \in c - 1 .. m : Nth(acc, k) \in rpc.inputs
      /\ \A k \in 0 .. m : Nth(acc, k) \in acc /\ tree.node[Nth(acc, k)].pos = k
      /\ \A k \in c .. m : tree.node[Nth(acc, k)].tok = again[Nth(acc, k - 1)]
  <2> DEFINE N == Cardinality(acc)
  <2>1. /\ N \in Nat
        /\ \A k \in c - 1 .. N - 1 : Nth(acc, k) \in rpc.inputs
        /\ \A k \in 0 .. N - 1 : Nth(acc, k) \in acc /\ tree.node[Nth(acc, k)].pos = k
        /\ \A k \in c .. N - 1 : tree.node[Nth(acc, k)].tok = again[Nth(acc, k - 1)]
    BY AcceptedChain
  <2>2. N = m + 1
    BY <1>2, <1>5
  <2> HIDE DEF N, m, acc
  <2>3. N - 1 = m
    BY <1>5, <2>2
  <2> QED
    BY <2>1, <2>3
<1> HIDE DEF b, d, acc, n, m, c, e
<1>8. n <= m
  BY <1>5, <1>6
<1>9. n >= c - 1
  <2>1. CASE b < c
    <3>1. b \in 0 .. e - 1 /\ b = c - 1
      BY <1>1, <1>3, <2>1
    <3>2. n = b
      BY <1>3, <2>1, <3>1, RowOfChain DEF n
    <3> QED
      BY <1>3, <3>1, <3>2
  <2>2. CASE b >= c
    <3>1. b \in c .. e - 1
      BY <1>1, <1>3, <2>2
    <3>2. n >= c
      BY <1>3, <3>1, SeedAlone DEF n
    <3> QED
      BY <1>3, <1>5, <3>2
  <2> QED
    BY <1>1, <1>3, <2>1, <2>2
<1>10. Nth(acc, n) = b
  <2>1. n \in c - 1 .. m /\ n \in 0 .. m
    BY <1>3, <1>5, <1>8, <1>9
  <2> DEFINE x == Nth(acc, n)
  <2>2. x \in rpc.inputs /\ x \in acc /\ tree.node[x].pos = n
    BY <1>7, <2>1
  <2> HIDE DEF x
  <2>3. Agrees(again, x)
    BY <1>2, <1>4, <2>2, AgreesAbove
  <2>4. x = b
    BY <1>1, <1>4, <2>2, <2>3, OneAgreed DEF n
  <2> QED
    BY <2>4 DEF x
<1>11. ~(n < m)
  <2> SUFFICES ASSUME n < m PROVE FALSE
    OBVIOUS
  <2> DEFINE y == Nth(acc, n + 1)
  <2>1. n + 1 \in c .. m /\ n + 1 \in c - 1 .. m /\ n + 1 \in 0 .. m /\ (n + 1) - 1 = n
    BY <1>3, <1>5, <1>9
  <2>2. y \in rpc.inputs /\ y \in acc /\ tree.node[y].pos = n + 1 /\ tree.node[y].tok = sel[b]
    BY <1>4, <1>7, <1>10, <2>1
  <2> HIDE DEF y
  <2>3. y \in 0 .. e - 1 /\ d \in 0 .. e - 1
    BY <1>2, <1>3, <2>2
  <2>4. b \in acc /\ \A a \in acc : Nth(acc, tree.node[a].pos) = a
    <3>1. n \in 0 .. m
      BY <1>5, <1>8
    <3> QED
      BY <1>2, <1>3, <1>7, <1>10, <2>3, <3>1, RowByPos
  <2>5. y >= c
    <3> SUFFICES ASSUME y < c PROVE FALSE
      BY <1>3, <2>3
    <3>1. tree.node[y].pos = y
      BY <1>3, <2>3, RowOfChain
    <3> QED
      BY <1>3, <1>5, <1>9, <2>2, <2>3, <3>1
  <2>6. tree.node[y].par = b /\ tree.mask[y] = tree.mask[b] \cup {y}
    <3> DEFINE p == tree.node[y].par
    <3>1. y \in 1 .. e - 1 /\ y \in c .. e - 1
      BY <1>3, <2>3, <2>5
    <3>2. Hangs(tree, c, y)
      BY <1>3, <3>1 DEF Shaped
    <3>3. tree.mask[y] = tree.mask[p] \cup {y} /\ tree.node[y].pos = tree.node[p].pos + 1
      BY <3>2 DEF Hangs
    <3>4. p \in c - 1 .. y - 1
      <4>1. Grown(tree, c, RoundEnd, e)
        BY Requested DEF c, e
      <4>2. \A i \in c .. e - 1 : tree.node[i].par \in c - 1 .. i - 1
        BY <4>1, GrownNumbers
      <4> QED
        BY <3>1, <4>2
    <3> HIDE DEF p
    <3>5. p \in 0 .. e - 1
      BY <1>3, <3>1, <3>4
    <3>6. p \in tree.mask[p] /\ tree.node[p].pos \in Nat
      <4>1. p \in tree.mask[p] /\ tree.node[p].pos \in 0 .. p
        BY <1>3, <3>5, RowBounds, PosIsDepth
      <4> QED
        BY <3>5, <4>1
    <3>7. p \in acc
      <4>1. tree.mask[y] \subseteq tree.mask[d]
        BY <1>2, <1>3, <2>2, <2>3, RowsNest
      <4> QED
        BY <1>2, <3>3, <3>6, <4>1
    <3>8. tree.node[p].pos = n
      BY <1>5, <2>2, <3>3, <3>6
    <3>9. p = b
      BY <1>10, <2>4, <3>7, <3>8
    <3> QED
      BY <3>3, <3>9 DEF p
  <2>7. Agrees(sel, y)
    BY <1>4, <2>2, <2>6 DEF Agrees
  <2>8. Cardinality(tree.mask[y]) <= Cardinality(tree.mask[b])
    BY <1>1, <2>2, <2>7, ClientAgrees
  <2>9. Cardinality(tree.mask[y]) = (n + 1) + 1
    BY <1>3, <2>2, <2>3, PosIsDepth
  <2> QED
    BY <1>5, <2>8, <2>9
<1>12. m = n
  BY <1>5, <1>8, <1>11
<1>13. d = b
  BY <1>1, <1>2, <1>4, <1>12, OneAgreed DEF n, m
<1> QED
  BY <1>1, <1>2, <1>13 DEF acc

\* Replaying a round reproduces it, whatever the tree: an oracle that looks the
\* round's outcome up by position leads to the same path and bonus token.
THEOREM OracleIsFaithful == Spec => []OracleReproducesRound
<1>1. IInv => OracleReproducesRound
  <2> SUFFICES ASSUME IInv, rpc.st = "answered", ~Drafting
               PROVE  LET acc   == Accepted(rpc.sel)
                          n     == Cardinality(acc)
                          kept  == [k \in 1 .. n |-> tree.node[Nth(acc, k - 1)].tok]
                          ref   == Append(kept, Bonus(acc))
                      IN \A next \in Tok :
                           LET again == OracleSelection(ref, next)
                           IN /\ Accepted(again) = acc
                              /\ again[LastSlot(acc)] = Bonus(acc)
    BY DEF OracleReproducesRound
  <2> DEFINE acc  == Accepted(rpc.sel)
             n    == Cardinality(acc)
             kept == [k \in 1 .. n |-> tree.node[Nth(acc, k - 1)].tok]
             ref  == Append(kept, Bonus(acc))
  <2>1. rpc.st # "idle" /\ bet.st # "drafting"
    BY DEF Drafting
  <2>2. n \in Nat
    BY <2>1, AcceptedChain
  <2>3. Bonus(acc) = rpc.sel[LastSlot(acc)]
    BY DEF Bonus
  <2>4. DOMAIN kept = 1 .. n /\ kept = [k \in 1 .. n |-> kept[k]]
        /\ \A k \in 1 .. n : kept[k] = tree.node[Nth(acc, k - 1)].tok
    OBVIOUS
  <2> HIDE DEF kept, n, acc
  <2>5. /\ Len(ref) = n + 1 /\ ref[n + 1] = Bonus(acc)
        /\ \A k \in 1 .. n : ref[k] = kept[k]
    BY <2>2, <2>4, OneMore
  <2> HIDE DEF ref
  <2>6. ASSUME NEW next \in Tok
        PROVE  /\ Accepted(OracleSelection(ref, next)) = acc
               /\ OracleSelection(ref, next)[LastSlot(acc)] = Bonus(acc)
    <3> DEFINE again == OracleSelection(ref, next)
    <3>1. /\ Len(ref) = n + 1 /\ ref[n + 1] = rpc.sel[LastSlot(acc)]
          /\ \A k \in 1 .. n : ref[k] = tree.node[Nth(acc, k - 1)].tok
      BY <2>3, <2>4, <2>5
    <3>2. acc = Accepted(rpc.sel) /\ n = Cardinality(acc)
      BY DEF acc, n
    <3>3. again = OracleSelection(ref, next)
      OBVIOUS
    <3> HIDE DEF again
    <3>4. again[LastSlot(acc)] = rpc.sel[LastSlot(acc)] /\ Agrees(again, LastSlot(acc))
      BY <2>1, <3>1, <3>2, <3>3, OracleFollowsPath
    <3>5. Accepted(again) = acc
      BY <2>1, <3>2, <3>4, OracleRepeats
    <3> QED
      BY <2>3, <3>3, <3>4, <3>5
  <2> QED
    BY <2>6 DEF acc, n, kept, ref
<1> QED
  BY <1>1, AlwaysIInv, PTL

=============================================================================
