------------------------------ MODULE DraftTree ------------------------------
(***************************************************************************)
(* The token tree of the edge client (src/src/tree.h, src/src/tree.cpp).   *)
(*                                                                         *)
(* A tree is a record of fixed-size arrays: the slots [0, prefix) hold the *)
(* committed tokens as a chain, [prefix, end) the drafted nodes, and what  *)
(* lies at or past `end' is scratch.  Every mutator of the class is an     *)
(* operator from a tree to a tree; the operators whose name ends in Ok are *)
(* the conditions under which the code does not throw.                     *)
(*                                                                         *)
(* One piece of data is dropped: the code leaves the score of a slot alone *)
(* when reorder_by_sequence commits it.  Nothing reads the score of a      *)
(* committed slot, so the model sets it to 0.                              *)
(***************************************************************************)
EXTENDS Integers, FiniteSetsExt, Sequences, Ranks

CONSTANT MaxLen     \* capacity of the tree, Tree::max_len_

ASSUME MaxLenAssumption == MaxLen \in Nat \ {0}

Slots == 0 .. MaxLen - 1

\* Node statuses; the code compares them with < and >=, so the order counts.
kPrompt        == 0
kGenerated     == 5
kProcessed     == 10
kCandidate     == 15
kPostCandidate == 20
kPostProcessed == 25
Status == {kPrompt, kGenerated, kProcessed, kCandidate,
           kPostCandidate, kPostProcessed}

BlankNode == [tok |-> 0, pos |-> 0, par |-> 0, st |-> kPrompt,
              lp |-> 0, seq |-> 0]

\* A causal (lower triangular) mask over the first n slots: the row of a slot
\* is the set of the columns it attends to.
CausalMask(n) == [r \in Slots |-> IF r < n THEN 0 .. r ELSE {}]

Live(t)    == 0 .. t.end - 1
Drafted(t) == t.prefix .. t.end - 1

\* The constructor.  The last prompt token is the first candidate.
NewTreeOk(prompt) == Len(prompt) \in 1 .. MaxLen

NewTree(prompt) ==
  LET n == Len(prompt)
  IN [node   |-> [s \in Slots |->
                    IF s < n
                    THEN [tok |-> prompt[s + 1],
                          pos |-> s,
                          par |-> IF s = 0 THEN 0 ELSE s - 1,
                          st  |-> IF s = n - 1 THEN kCandidate ELSE kPrompt,
                          lp  |-> 0,
                          seq |-> 0]
                    ELSE BlankNode],
      mask   |-> CausalMask(n),
      prefix |-> n,
      end    |-> n]

SetStatus(t, S, status) ==
  [t EXCEPT !.node = [s \in Slots |-> IF s \in S THEN [@[s] EXCEPT !.st = status] ELSE @[s]]]

SetPrefixLenOk(t, n) == n \in 1 .. t.end
SetPrefixLen(t, n)   == [t EXCEPT !.prefix = n]

SetEndOk(t, n) == n \in t.prefix .. MaxLen
SetEnd(t, n)   == [t EXCEPT !.end = n]

-----------------------------------------------------------------------------
\* add: the sequence `kids' of nodes goes to the slots from `end' on.  Parents
\* must exist already, so new nodes never parent each other.
AddOk(t, kids) ==
  /\ Len(kids) <= MaxLen - t.end
  /\ \A k \in DOMAIN kids : kids[k].par \in Live(t)

Add(t, kids) ==
  LET new    == t.end .. t.end + Len(kids) - 1
      kid(s) == kids[s - t.end + 1]
  IN [t EXCEPT
        !.node = [s \in Slots |-> IF s \in new THEN kid(s) ELSE @[s]],
        !.mask = [s \in Slots |-> IF s \in new THEN @[kid(s).par] \cup {s} ELSE @[s]],
        !.end  = t.end + Len(kids)]

\* gather: moves the nodes at the slots src to the slots dest (sequences of
\* the same length, each without repetition), every source read before any
\* destination is written; the mask's rows are permuted first, its columns
\* after.
GatherOk(t, src, dest) ==
  /\ src # <<>>
  /\ Len(src) = Len(dest)
  /\ \A k \in DOMAIN src : src[k] \in Live(t) /\ dest[k] \in Slots

\* A row of the mask with its columns moved: column d is what stood at the slot
\* moved to d, any other column stays.
ColumnsInPlace(row, src, dest) == row    \* mutant: rows move, columns do not

GatherColumns(row, src, dest) ==
  LET into(c) == \E k \in DOMAIN src : dest[k] = c
      from(c) == src[CHOOSE k \in DOMAIN src : dest[k] = c]
  IN {c \in Slots : (IF into(c) THEN from(c) ELSE c) \in row}

Gather(t, src, dest) ==
  LET moves     == DOMAIN src
      source(s) == \E k \in moves : src[k] = s
      into(d)   == \E k \in moves : dest[k] = d
      from(d)   == src[CHOOSE k \in moves : dest[k] = d]
      interim(s) == IF source(s) THEN dest[CHOOSE k \in moves : src[k] = s]
                                 ELSE s
      relinked  == [s \in Slots |->
                      IF source(s)
                      THEN [t.node[s] EXCEPT !.par = interim(@)]
                      ELSE t.node[s]]
      rows == [r \in Slots |-> IF into(r) THEN t.mask[from(r)] ELSE t.mask[r]]
      last == 1 + CHOOSE d \in {dest[k] : k \in moves} :
                    \A k \in moves : dest[k] <= d
  IN [node   |-> [s \in Slots |-> IF into(s) THEN relinked[from(s)]
                                             ELSE relinked[s]],
      mask   |-> [r \in Slots |-> IF r < last
                                  THEN {c \in GatherColumns(rows[r], src, dest) : c < last}
                                  ELSE {}],
      prefix |-> t.prefix,
      end    |-> last]

-----------------------------------------------------------------------------
\* reorder_by_sequence: the accepted slots S (a mask row, so it covers the
\* prefix) are compacted to the front, and become the committed chain.
ReorderOk(t, S) == 0 .. t.prefix - 1 \subseteq S /\ S \subseteq Live(t)

\* What slot i < Cardinality(S) holds afterwards.  The code leaves position and
\* parent of the old prefix alone, where they already are i and i - 1.
CommittedNode(t, S, i, seq) ==
  [tok |-> t.node[Nth(S, i)].tok,
   pos |-> i,
   par |-> IF i = 0 THEN 0 ELSE i - 1,
   st  |-> kPrompt,
   lp  |-> 0,
   seq |-> seq]

ReorderBySequence(t, S) ==
  LET n == Cardinality(S)
  IN [node   |-> [i \in Slots |-> IF i < n THEN CommittedNode(t, S, i, 0)
                                           ELSE BlankNode],
      mask   |-> CausalMask(n),
      prefix |-> n,
      end    |-> n]

\* reorder_by_sequence_proactive: as above, and the speculated subtree at
\* [b, e) is moved in behind the accepted path; its root is the bonus token,
\* which is committed too.
NewSlot(S, b, i) == IF i >= b THEN Cardinality(S) + (i - b) ELSE Rank(S, i)

ReorderProactiveOk(t, S, b, e) ==
  /\ ReorderOk(t, S)
  /\ t.end <= b /\ b < e /\ e <= MaxLen
  /\ Cardinality(S) + (e - b) <= MaxLen
  /\ t.node[b].par \in S
  /\ NewSlot(S, b, t.node[b].par) = Cardinality(S) - 1
  /\ t.node[b].pos = Cardinality(S)
  /\ \A s \in b .. e - 1 : t.node[s].par \in S \cup (b .. s - 1)

\* kPost* marked "belongs to the next round"; that is now.
Promoted(status) == CASE status = kPostCandidate -> kCandidate
                      [] status = kPostProcessed -> kProcessed
                      [] OTHER                   -> status

\* The mask rebuilt from the parents: a row is the parent's row plus itself.
MaskFromParents(node, n) ==
  LET row[i \in 0 .. n - 1] ==
        IF i = 0 THEN {0} ELSE row[node[i].par] \cup {i}
  IN [r \in Slots |-> IF r < n THEN row[r] ELSE {}]

ReorderProactive(t, S, b, e, prefixSeq) ==
  LET n    == Cardinality(S)
      last == n + (e - b)
      node == [i \in Slots |->
                 IF i < n THEN CommittedNode(t, S, i, prefixSeq)
                 ELSE IF i < last
                 THEN [t.node[b + (i - n)] EXCEPT
                         !.par = NewSlot(S, b, @),
                         !.st  = IF i = n THEN kProcessed ELSE Promoted(@),
                         !.seq = IF i = n THEN prefixSeq ELSE @]
                 ELSE BlankNode]
  IN [node   |-> node,
      mask   |-> MaskFromParents(node, last),
      prefix |-> n + 1,
      end    |-> last]
=============================================================================
