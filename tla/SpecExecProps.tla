---------------------------- MODULE SpecExecProps ----------------------------
(***************************************************************************)
(* What makes a request of the edge client correct.                        *)
(***************************************************************************)
EXTENDS SpecExec

\* The bounds of this round's tree, which ProactiveDraft rebases while it
\* works in the scratch slots.
Drafting     == bet.st = "drafting"
CommittedLen == IF Drafting THEN bet.prefix ELSE tree.prefix
RoundEnd     == IF Drafting THEN bet.end ELSE tree.end

\* The tokens committed so far, and what the target answered to the call in
\* flight, by the context it really saw.
Output  == [k \in 1 .. CommittedLen |-> tree.node[k - 1].tok]
Answers ==
  IF rpc.st # "answered" THEN <<>>
  ELSE [c \in {rpc.ctx[i] : i \in rpc.inputs} |->
          rpc.sel[CHOOSE i \in rpc.inputs : rpc.ctx[i] = c]]

Target == INSTANCE TargetDecoding WITH out <- Output, answers <- Answers

\* Every variable stays within its type: slots, statuses and sequence ids in
\* range, the phases of ValidateTree and Draft as the code has them.
NodeType == [tok : Tok \cup {0}, pos : 0 .. MaxLen, par : Slots, st : Status,
             lp : Int, seq : Seqs]

TypeOK ==
  /\ tree.node \in [Slots -> NodeType]
  /\ tree.mask \in [Slots -> SUBSET Slots]
  /\ tree.prefix \in 1 .. MaxLen /\ tree.end \in tree.prefix .. MaxLen
  /\ kv \in [Seqs \cup {CommittedSeq} -> SUBSET ((0 .. MaxLen) \X Tok)]
  /\ pool \in Pool
  /\ pc \in {"grow", "validate", "bet", "join", "done", "fatal"}
  /\ level \in 0 .. BeamLen + ProLen
  /\ prevHit \in BOOLEAN
  /\ rpc.st \in {"idle", "sent", "answered", "failed"}
  /\ rpc.inputs \subseteq Slots
  /\ bet.st \in {"none", "drafting", "placed"}
  /\ bet.seqs \subseteq Seqs
  /\ gen \in [orig : 1 .. MaxLen, first : BOOLEAN, warm : Nat, eog : BOOLEAN]
  /\ srv \in [Slots -> Tok \cup {0}]
  /\ cause \in {"none", "decode", "seqs", "max_len", "no_targets", "splice", "rpc"}

\* Speculative decoding is lossless: what ValidateTree commits, on the hit path
\* and on the miss path, is what the target answered to exactly the tokens
\* committed before it, and a committed token never changes.
Lossless == Target!Spec

\* The tree stays a tree under add, TrimByBudget's gather and both reorders:
\* parents precede children, a node's mask row is its parent's plus itself (so
\* a trim never strands a node whose parent it dropped), positions follow the
\* parent's, and the committed part is one chain.
TreeShape ==
  /\ tree.mask[0] = {0}
  /\ \A i \in 1 .. tree.end - 1 :
       LET p == tree.node[i].par
       IN /\ p < i
          /\ tree.mask[i] = tree.mask[p] \cup {i}
          /\ tree.node[i].pos = tree.node[p].pos + 1
          /\ i < CommittedLen => p = i - 1

\* The seed, the drafted nodes and a placed bet's subtree.
Branches == (CommittedLen - 1 .. tree.end - 1)
              \cup (IF bet.st = "placed" THEN bet.begin .. bet.stop - 1 ELSE {})

\* Slot -> sequence bookkeeping: up to a node's position, its sequence tags
\* exactly the cells of the node's own root path, plus its own cell once it is
\* marked decoded -- across forks, trims, bets, splices and collapses.
BranchesInCache ==
  ~(gen.first /\ level = 0 /\ pc = "grow") /\ pc # "fatal" =>
    \A i \in Branches :
      LET n   == tree.node[i]
          own == IF n.st \in {kProcessed, kPostProcessed}
                 THEN {Cell(n.pos, n.tok)} ELSE {}
      IN /\ {c \in kv[n.seq] : c[1] < n.pos} = PathTo(tree, i)
         /\ own # {} => {c \in kv[n.seq] : c[1] = n.pos} = own

\* A sequence id AllocSeq may hand out tags no cell, so that seq_cp never mixes
\* two branches.
FreeSeqsEmpty == \A s \in FreeSeqs(pool) : kv[s] = {}

\* Between rounds the server's cache holds the committed tokens but the seed,
\* at the client's slots: both sides walked the same acceptance path.
ServerInStep ==
  rpc.st = "idle" /\ ~gen.first =>
    \A s \in Slots : srv[s] = IF s < tree.prefix - 1 THEN tree.node[s].tok ELSE 0

\* The answer is read against the tree the request was built from: the rows are
\* the seed and every drafted node, and nothing the proactive draft does while
\* the call is in flight changes what a row stood for.
RequestStillDescribesTree ==
  rpc.st # "idle" =>
    /\ rpc.inputs = CommittedLen - 1 .. RoundEnd - 1
    /\ \A i \in rpc.inputs :
         rpc.req[i] = [tok |-> tree.node[i].tok, pos |-> tree.node[i].pos,
                       par |-> tree.node[i].par, mask |-> tree.mask[i]]

\* The request carries at most max_budget drafted nodes, also when a won bet's
\* subtree was carried into the round.
WithinBudget == rpc.st # "idle" => Cardinality(rpc.inputs) <= Budget + 1

\* With the max_seqs derived from the configuration, a request only ever dies
\* of the server or of a full tree: no decode outside the bet is rejected for its
\* positions (cells are not counted), the main draft always finds a sequence, each
\* round has something to validate, and a won bet can be spliced.
DiesOnlyOutside == cause \in {"none", "rpc", "max_len"}

\* The committed sequence of a recurrent model, which no branch can rebuild,
\* holds the committed tokens but the seed at all times, on hit and miss paths
\* alike.
CommittedSeqInStep ==
  Recurrent /\ ~(gen.first /\ level = 0 /\ pc = "grow") /\ pc # "fatal" =>
    kv[CommittedSeq] = PathTo(tree, CommittedLen - 1)

\* No round is started once a round after the warm-up committed an
\* end-of-generation token, wherever among its fresh tokens it stands.
EogStopsAfterWarmup ==
  pc = "grow" /\ ~gen.first =>
    \A i \in gen.orig + gen.warm .. tree.prefix - 1 : tree.node[i].tok \notin Eog

\* A replay commits the recording and, once it is used up, the past-end token:
\* run_replay's check for a diverged replay never fires.
ReplaySpellsReference ==
  Reference # <<>> =>
    \A k \in DOMAIN Output :
      Output[k] = IF k <= Len(Reference) THEN Reference[k] ELSE PastEnd

\* Replaying a round reproduces it: the oracle, which knows only what the round
\* committed and some continuation of it and looks answers up by position,
\* leads the client to the same accepted path and bonus token as the target
\* that judged every row in its own context.
OracleReproducesRound ==
  rpc.st = "answered" /\ ~Drafting /\ Reference = <<>> =>
    LET acc   == Accepted(rpc.sel)
        n     == Cardinality(acc)
        kept  == [k \in 1 .. n |-> tree.node[Nth(acc, k - 1)].tok]
        ref   == Append(kept, Bonus(acc))
    IN \A next \in Tok :
         LET again == OracleSelection(ref, next)
         IN /\ Accepted(again) = acc
            /\ again[LastSlot(acc)] = Bonus(acc)

\* Generate returns: every round commits at least one token.
Terminates == <>(pc \in {"done", "fatal"})

-----------------------------------------------------------------------------
(* What comments and documentation say, and the code does not do. *)

\* Generate: "up to max_new_tokens (or an end-of-generation token, whichever
\* comes first)": such a token ends the request in whichever round it comes, the
\* warm-up round included.
StopsAtEog ==
  pc = "grow" =>
    \A i \in gen.orig .. tree.prefix - 1 : tree.node[i].tok \notin Eog

\* derive_max_seqs, "Upper bound on llama.cpp sequences a round can fork", counts
\* "the bonus token's own fork off the leaf it bets on" and the branches that
\* "stay live into the next" round when a bet wins: with room in the tree and a
\* leaf to bet on, the bonus token finds a sequence, in a round after a won bet too.
BonusFindsSeq ==
  pc = "bet" /\ bet.st = "none" /\ MaxLen - tree.end >= 2 /\ FrontierLeaves(tree) # {}
    => FreeSeqs(pool) # {}

\* ProactiveDraft: "a later bet win still forks the winning branch from its
\* true history": the bonus token's sequence is the leaf's path and nothing
\* more.
BetForksTrueHistory ==
  Drafting /\ level = 0 =>
    kv[tree.node[tree.prefix].seq] = PathTo(tree, tree.prefix)
=============================================================================
