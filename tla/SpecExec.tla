------------------------------ MODULE SpecExec ------------------------------
(***************************************************************************)
(* One request of the edge client (src/src/spec_exec_client.cpp,           *)
(* src/src/proactive_draft.cpp): Generate runs rounds of RunCycle, each    *)
(* growing the draft tree level by level, shipping it to the target, and   *)
(* committing the accepted path and the bonus token.  While the Validate   *)
(* call is in flight on its own thread, the main thread may bet on the     *)
(* bonus token and grow the next round's tree in the scratch slots.        *)
(*                                                                         *)
(* The target server is external.  It is modelled from what the client     *)
(* sends and expects: it holds a cache of tokens by slot, writes the rows  *)
(* of the request into it, answers each row for the context its mask       *)
(* selects, and reorders its cache by its own acceptance walk.  In a replay*)
(* (src/src/oracle_validator.cpp) a recorded token sequence stands in for  *)
(* it, looked up by position.                                              *)
(***************************************************************************)
EXTENDS BeamSearch

CONSTANTS
  Beams, BeamLen, Budget,                     \* max_n_beams, max_beam_len, max_budget
  ProType,                                    \* proactive_type
  ProBeams, ProWidth, ProLen, ProBudget,      \* the proactive_ counterparts
  MaxNew,                                     \* max_new_tokens
  Eog,                                        \* the end-of-generation tokens
  Prompts,                                    \* the prompts a request may have
  RpcMayFail,                                 \* whether Validate may throw
  Reference,                                  \* a replay's reference_, <<>> in a live run
  PastEnd                                     \* past_end_token_

ASSUME SpecExecAssumption ==
  /\ {Beams, BeamLen, Budget, ProBeams, ProLen, ProBudget} \subseteq Nat \ {0}
  /\ ProType \in {"disabled", "excluded", "included"}
  /\ ProWidth \in 1 .. Width
  /\ ProType = "included" => ProLen < BeamLen
  /\ MaxNew \in Nat
  /\ Eog \subseteq Tok
  /\ Prompts \subseteq Seq(Tok) /\ \A p \in Prompts : NewTreeOk(p)
  /\ RpcMayFail \in BOOLEAN
  /\ Reference \in Seq(Tok) /\ PastEnd \in Tok
  /\ Reference # <<>> =>
       \A p \in Prompts : Len(p) < Len(Reference) /\ SubSeq(Reference, 1, Len(p)) = p

VARIABLES
  tree,      \* SpecExecClient::tree_
  kv,        \* the draft engine's cache
  pool,      \* seq_in_use_ and seq_cursor_
  pc,        \* where the main thread is
  level,     \* the level counter of the drafting loop the main thread is in
  prevHit,   \* prev_proactive_hit_
  rpc,       \* the Validate call: request, status, answer
  bet,       \* ProactiveDraft's locals and result
  gen,       \* Generate's locals
  srv,       \* external: the server's cache of this request, token by slot
  cause      \* why the request died, if it did

vars == <<tree, kv, pool, pc, level, prevHit, rpc, bet, gen, srv, cause>>

\* derive_max_seqs of script/client.cpp: the engine's max_seqs.
DeriveMaxSeqs ==
  LET forks == 1 + BeamLen * Beams * (Width - 1)
      more  == IF ProType = "disabled" THEN 0
               ELSE 1 + ProLen * ProBeams * (ProWidth - 1)
  IN IF forks + more < 2 THEN 2
     ELSE IF forks + more > 256 THEN 256 ELSE forks + more

NoRpc == [st |-> "idle", inputs |-> {}, req |-> <<>>, ctx |-> <<>>, sel |-> <<>>]
NoBet == [st |-> "none", leaf |-> 0, tok |-> 0, prefix |-> 0, end |-> 0,
          begin |-> 0, stop |-> 0, seqs |-> {}]

Init ==
  /\ \E p \in Prompts :
       /\ tree = NewTree(p)
       /\ gen = [orig |-> Len(p), first |-> TRUE, warm |-> 0, eog |-> FALSE]
  /\ kv = EmptyCache
  /\ pool = PoolOf(tree)
  /\ pc = "grow"
  /\ level = 0
  /\ prevHit = FALSE
  /\ rpc = NoRpc
  /\ bet = NoBet
  /\ srv = [s \in Slots |-> 0]
  /\ cause = "none"

\* An exception that leaves the client: main() catches it and the run ends.
Die(why) ==
  /\ pc' = "fatal"
  /\ cause' = why
  /\ UNCHANGED <<tree, kv, pool, level, prevHit, rpc, bet, gen, srv>>

-----------------------------------------------------------------------------
(* GrowTree *)

\* `included' mode pays for a spliced subtree out of the round's depth.
BeamLimit ==
  IF ProType = "included" /\ prevHit
  THEN IF BeamLen > ProLen THEN BeamLen - ProLen ELSE 0
  ELSE BeamLen

Candidates(t) == WithStatus(t, Live(t), kCandidate)

\* TrimByBudget: the best Budget drafted nodes, in slot order, are moved
\* together; the cache is left alone.
TrimOneOver(t) ==                        \* mutant: one node over is let through
  LET kept == TopBeams(t, Drafted(t), Budget)
  IN IF Cardinality(Drafted(t)) <= Budget + 1 THEN t
     ELSE Gather(t, [k \in 1 .. Budget |-> Nth(kept, k - 1)],
                    [k \in 1 .. Budget |-> t.prefix + k - 1])

TrimByBudget(t) ==
  LET kept == TopBeams(t, Drafted(t), Budget)
  IN IF Cardinality(Drafted(t)) <= Budget THEN t
     ELSE Gather(t, [k \in 1 .. Budget |-> Nth(kept, k - 1)],
                    [k \in 1 .. Budget |-> t.prefix + k - 1])

\* The children of this level that stay: all of them, or, when the joint list
\* outgrows the budget or the tree, those among its best Budget.
JointSize(t, C) == Cardinality(Drafted(t)) + Cardinality(Flats(C, Width))

Squeezed(t, C) ==
  \/ JointSize(t, C) > Budget
  \/ JointSize(t, C) + Cardinality(Drafted(t)) > MaxLen

GrowKeep(t, C, top) ==
  IF Squeezed(t, C)
  THEN InBudget(t, C, Width, top,
                IF Budget < JointSize(t, C) THEN Budget ELSE JointSize(t, C))
  ELSE Flats(C, Width)

\* CheckNewTokenInBudget
NewTokenInBudget(t, C, top, keep) ==
  \E f \in keep :
    Cardinality({i \in Drafted(t) :
                   t.node[i].lp > FlatScore(t, C, Width, top, f)}) < Budget

\* The engine as the first level finds it: prefilled with everything before
\* the seed on the first round.
EngineFor(C) ==
  LET seed == Nth(C, 0)
  IN IF gen.first /\ level = 0
     THEN Prefill(kv, [k \in 1 .. seed |->
                         Cell(tree.node[k - 1].pos, tree.node[k - 1].tok)])
     ELSE kv

\* One level: decode the best candidates, keep the children within budget,
\* fork and add them; the loop ends early when nothing is kept.
GrowLevel ==
  /\ pc = "grow"
  /\ level < BeamLimit
  /\ Candidates(tree) # {}
  /\ \E C \in {TopBeams(tree, Candidates(tree), Beams)} :
     LET kv0  == EngineFor(C)
         rows == RowsOf(tree, C)
     IN IF ~DecodeOk(kv0, rows) THEN Die("decode")
        ELSE \E top \in [C -> TopKRows] :
          LET t1      == SetStatus(tree, C, kProcessed)
              kv1     == Decode(kv0, rows)
              drafted == Cardinality(Drafted(tree))
              keep    == GrowKeep(t1, C, top)
              forks   == Forks(C, Width, keep)
              kids    == Children(t1, pool, C, Width, top, keep, kCandidate)
          IN IF Squeezed(t1, C) /\ Cardinality(keep) + tree.end > MaxLen
             THEN Die("max_len")
             ELSE IF \/ keep = {}
                     \/ drafted >= Budget /\ ~NewTokenInBudget(t1, C, top, keep)
             THEN /\ tree' = TrimByBudget(t1)
                  /\ kv' = kv1
                  /\ pc' = "validate"
                  /\ UNCHANGED <<pool, level, prevHit, rpc, bet, gen, srv, cause>>
             ELSE IF Cardinality(forks) > Cardinality(FreeSeqs(pool))
             THEN Die("seqs")
             ELSE IF ~AddOk(t1, kids) THEN Die("max_len")
             ELSE /\ tree' = Add(t1, kids)
                  /\ kv' = ForkCache(kv1, t1, pool, C, Width, keep)
                  /\ pool' = AfterAlloc(pool, Cardinality(forks))
                  /\ level' = level + 1
                  /\ UNCHANGED <<pc, prevHit, rpc, bet, gen, srv, cause>>

GrowDone ==
  /\ pc = "grow"
  /\ level >= BeamLimit \/ Candidates(tree) = {}
  /\ tree' = TrimByBudget(tree)
  /\ pc' = "validate"
  /\ UNCHANGED <<kv, pool, level, prevHit, rpc, bet, gen, srv, cause>>

-----------------------------------------------------------------------------
(* ValidateTree, up to the call *)

Targets(t) == {i \in Drafted(t) : t.node[i].st >= kProcessed
                                  /\ t.node[i].st < kPostCandidate}
Inputs(t)  == Targets(t) \cup {t.node[i].par : i \in Targets(t)}

\* The request carries copies, which the worker thread reads while the main
\* thread goes on to change the tree.
StartValidate ==
  /\ pc = "validate"
  /\ IF Targets(tree) = {} THEN Die("no_targets")
     ELSE /\ rpc' = [NoRpc EXCEPT
                       !.st = "sent",
                       !.inputs = Inputs(tree),
                       !.req = [i \in Inputs(tree) |->
                                  [tok  |-> tree.node[i].tok,
                                   pos  |-> tree.node[i].pos,
                                   par  |-> tree.node[i].par,
                                   mask |-> tree.mask[i]]]]
          /\ pc' = IF ProType = "disabled" THEN "join" ELSE "bet"
          /\ UNCHANGED <<tree, kv, pool, level, prevHit, bet, gen, srv, cause>>

-----------------------------------------------------------------------------
(* The target: a server (external), or a recording *)

\* The cache the rows are computed against: the prompt but its last token on
\* the first call, then the rows of the request at their slots.
ServerCache ==
  [s \in Slots |->
     IF s \in rpc.inputs THEN rpc.req[s].tok
     ELSE IF gen.first /\ s < gen.orig - 1 THEN tree.node[s].tok
     ELSE srv[s]]

ContextOf(cache, row) ==
  [k \in 1 .. Cardinality(row) |-> cache[Nth(row, k - 1)]]

\* The server's walk: the rows all of whose drafted ancestors were chosen at
\* their parent, and the slots of the deepest one.
ServerAccepts(sel, i) ==
  LET rows == rpc.inputs
      seed == Nth(rows, 0)
  IN \A a \in rpc.req[i].mask : a > seed => rpc.req[a].tok = sel[rpc.req[a].par]

ServerPath(sel) ==
  LET ok == {i \in rpc.inputs : ServerAccepts(sel, i)}
      i  == CHOOSE i \in ok : \A j \in ok :
              Cardinality(rpc.req[j].mask) <= Cardinality(rpc.req[i].mask)
  IN rpc.req[i].mask

ServerAnswer ==
  /\ Reference = <<>>
  /\ rpc.st = "sent"
  /\ \E sel \in [rpc.inputs -> Tok] :
       LET path == ServerPath(sel)
       IN /\ rpc' = [rpc EXCEPT
                       !.st = "answered",
                       !.sel = sel,
                       !.ctx = [i \in rpc.inputs |->
                                  ContextOf(ServerCache, rpc.req[i].mask)]]
          /\ srv' = [s \in Slots |-> IF s < Cardinality(path)
                                     THEN ServerCache[Nth(path, s)] ELSE 0]
  /\ UNCHANGED <<tree, kv, pool, pc, level, prevHit, bet, gen, cause>>

\* OracleValidator::Validate: a row at position p is answered with the token the
\* recording has at p + 1, whatever the row's context.
OracleSamePosition(ref, past) ==         \* mutant: looks up the row's own position
  [i \in rpc.inputs |-> LET next == rpc.req[i].pos
                        IN IF next < Len(ref) THEN ref[next + 1] ELSE past]

OracleSelection(ref, past) ==
  [i \in rpc.inputs |-> LET next == rpc.req[i].pos + 1
                        IN IF next < Len(ref) THEN ref[next + 1] ELSE past]

OracleAnswer ==
  /\ Reference # <<>>
  /\ rpc.st = "sent"
  /\ rpc' = [rpc EXCEPT !.st = "answered", !.sel = OracleSelection(Reference, PastEnd)]
  /\ UNCHANGED <<tree, kv, pool, pc, level, prevHit, bet, gen, srv, cause>>

\* The call fails: the exception waits in the future until rpc.get().
ServerFail ==
  /\ RpcMayFail
  /\ rpc.st = "sent"
  /\ rpc' = [rpc EXCEPT !.st = "failed"]
  /\ UNCHANGED <<tree, kv, pool, pc, level, prevHit, bet, gen, srv, cause>>

-----------------------------------------------------------------------------
(* ProactiveDraft, while the call is in flight *)

\* Childless drafted nodes; a recurrent model cannot re-score a decoded one.
FrontierLeaves(t) ==
  LET parents == {t.node[j].par : j \in Live(t)}
      leaves  == {i \in Drafted(t) \ parents :
                   ~(Recurrent /\ t.node[i].st = kProcessed)}
  IN TopBeams(t, leaves, ProBeams)

\* The decoded leaves are scored again on scratch sequences, copies of the
\* parent's cut back to the leaf's position.
Rescored(t, leaves) == WithStatus(t, leaves, kProcessed)

ScratchSeq(t, leaves, l) == AllocNth(pool, Rank(Rescored(t, leaves), l))

ScratchCache(t, leaves, served) ==
  [s \in DOMAIN kv |->
     LET l == CHOOSE l \in served : ScratchSeq(t, leaves, l) = s
     IN IF \E m \in served : ScratchSeq(t, leaves, m) = s
        THEN SeqRm(SeqCp(kv, t.node[t.node[l].par].seq, s), s, t.node[l].pos)[s]
        ELSE kv[s]]

LeafRows(t, leaves) ==
  LET seqOf(l) == IF l \in Rescored(t, leaves) THEN ScratchSeq(t, leaves, l)
                  ELSE t.node[l].seq
  IN [s \in {seqOf(l) : l \in leaves} |->
        LET l == CHOOSE m \in leaves : seqOf(m) = s
        IN Cell(t.node[l].pos, t.node[l].tok)]

\* The argmax over the leaves of score plus best child, first one wins.
BestLeaf(t, leaves, top) ==
  LET sc(l) == t.node[l].lp - top[l][1].cost
  IN CHOOSE l \in leaves : \A m \in leaves : sc(m) < sc(l) \/ (sc(m) = sc(l) /\ l <= m)

NoBetPlaced(t, kvp, poolp) ==
  /\ tree' = t
  /\ kv' = kvp
  /\ pool' = poolp
  /\ pc' = "join"
  /\ bet' = NoBet
  /\ UNCHANGED <<level, prevHit, rpc, gen, srv, cause>>

\* Draft up to its loop: score the frontier, rebase the prefix, and hang the
\* guessed bonus token off the best leaf on a sequence of its own.
ChooseBet ==
  /\ pc = "bet"
  /\ bet.st = "none"
  /\ \E leaves \in {FrontierLeaves(tree)} :
     LET again  == Rescored(tree, leaves)
         free   == Cardinality(FreeSeqs(pool))
         served == {l \in again : Rank(again, l) < free}
         kv1    == ScratchCache(tree, leaves, served)
         pool1  == AfterAlloc(pool, Cardinality(served))
         rows   == LeafRows(tree, leaves)
     IN IF MaxLen - tree.end < 2 \/ leaves = {}
        THEN NoBetPlaced(tree, kv, pool)
        ELSE IF Cardinality(again) > free \/ ~DecodeOk(kv1, rows)
        THEN NoBetPlaced(tree, kv1, pool1)
        ELSE \E top \in [leaves -> TopKRows] :
          LET kv2  == Decode(kv1, rows)
              t1   == SetStatus(tree, leaves, kProcessed)
              leaf == BestLeaf(tree, leaves, top)
              root == AllocNth(pool1, 0)
              kid  == [tok |-> top[leaf][1].tok,
                       pos |-> tree.node[leaf].pos + 1,
                       par |-> leaf,
                       st  |-> kPostCandidate,
                       lp  |-> 0,
                       seq |-> root]
          IN IF FreeSeqs(pool1) = {} THEN NoBetPlaced(t1, kv2, pool1)
             ELSE /\ tree' = Add(SetPrefixLen(t1, tree.end), <<kid>>)
                  /\ kv' = SeqCp(kv2, tree.node[leaf].seq, root)
                  /\ pool' = AfterAlloc(pool1, 1)
                  /\ bet' = [NoBet EXCEPT !.st = "drafting",
                               !.leaf = leaf, !.tok = kid.tok,
                               !.prefix = tree.prefix, !.end = tree.end]
                  /\ level' = 0
                  /\ UNCHANGED <<pc, prevHit, rpc, gen, srv, cause>>

\* BoundsGuard: however Draft leaves, the tree's bounds are put back.
RestoredPrefixOnly(t) == SetPrefixLen(t, bet.prefix)   \* mutant: end is forgotten
Restored(t) == SetPrefixLen(SetEnd(t, bet.end), bet.prefix)

\* The children that stay: those within the proactive budget, cut to the room
\* the tree has left.
DraftKeep(t, C, top) ==
  LET joint == Cardinality(Drafted(t)) + Cardinality(Flats(C, ProWidth))
      room  == MaxLen - t.end
      keep  == IF joint > ProBudget
               THEN InBudget(t, C, ProWidth, top, ProBudget)
               ELSE Flats(C, ProWidth)
  IN IF Cardinality(keep) > room
     THEN BestFlats(t, C, ProWidth, top, keep, room)
     ELSE keep

\* Running out of sequences keeps the children up to the first fork that finds
\* none.
Affordable(C, keep) ==
  LET forks == Forks(C, ProWidth, keep)
  IN {f \in keep : \A g \in forks :
        g <= f => Rank(forks, g) < Cardinality(FreeSeqs(pool))}

\* The end of Draft: a root with nothing under it is no bet.
EndDraft(t, kvp, poolp) ==
  IF t.end <= t.prefix + 1 \/ t.node[t.prefix].st # kPostProcessed
  THEN NoBetPlaced(Restored(t), kvp, poolp)
  ELSE /\ tree' = Restored(t)
       /\ kv' = kvp
       /\ pool' = poolp
       /\ pc' = "join"
       /\ bet' = [bet EXCEPT !.st = "placed", !.begin = t.prefix, !.stop = t.end,
                    !.seqs = {t.node[i].seq : i \in Drafted(t)}]
       /\ UNCHANGED <<level, prevHit, rpc, gen, srv, cause>>

DraftLevel ==
  /\ pc = "bet"
  /\ bet.st = "drafting"
  /\ \E C \in {TopBeams(tree, WithStatus(tree, Drafted(tree), kPostCandidate),
                       ProBeams)} :
     LET rows == RowsOf(tree, C)
     IN IF ~DecodeOk(kv, rows) THEN NoBetPlaced(Restored(tree), kv, pool)
        ELSE \E top \in [C -> TopKRows] :
          LET t1   == SetStatus(tree, C, kPostProcessed)
              kv1  == Decode(kv, rows)
              want == DraftKeep(t1, C, top)
              keep == Affordable(C, want)
              kids == Children(t1, pool, C, ProWidth, top, keep, kPostCandidate)
              t2   == IF keep = {} THEN t1 ELSE Add(t1, kids)
              kv2  == ForkCache(kv1, t1, pool, C, ProWidth, keep)
              pool2 == AfterAlloc(pool, Cardinality(Forks(C, ProWidth, keep)))
          IN IF keep # want \/ keep = {} \/ level + 1 = ProLen
             THEN EndDraft(t2, kv2, pool2)
             ELSE /\ tree' = t2
                  /\ kv' = kv2
                  /\ pool' = pool2
                  /\ level' = level + 1
                  /\ UNCHANGED <<pc, prevHit, rpc, bet, gen, srv, cause>>

-----------------------------------------------------------------------------
(* ValidateTree, from the answer on *)

AcceptedSlots(sel) ==
  0 .. tree.prefix - 1
    \cup {i \in Targets(tree) : tree.node[i].tok = sel[tree.node[i].par]}

\* The deepest row all of whose visible slots are accepted, the first of them.
FirstRow(i, ok) ==                       \* mutant: depth unread
  IF tree.mask[i] \cap Live(tree) \subseteq ok THEN 1 ELSE 0

RowValue(i, ok) ==
  LET row == tree.mask[i] \cap Live(tree)
  IN IF row \subseteq ok THEN Cardinality(row) ELSE 0

BestSlot(sel) ==
  LET ok   == AcceptedSlots(sel)
      best == Max({RowValue(i, ok) : i \in rpc.inputs})
  IN Min({i \in rpc.inputs : RowValue(i, ok) = best})

\* The accepted slots, below as acc: the last of them, the bonus token that
\* follows it, and whether the bet was on both.
Accepted(sel) == tree.mask[BestSlot(sel)] \cap Live(tree)
LastSlot(acc) == Max(acc)
Bonus(acc)    == rpc.sel[LastSlot(acc)]

BetWonAtLeaf(acc) ==                     \* mutant: token unread
  bet.st = "placed" /\ bet.leaf = LastSlot(acc)
BetWon(acc) ==
  bet.st = "placed" /\ bet.leaf = LastSlot(acc) /\ bet.tok = Bonus(acc)

\* Seed through tip, as cells to decode.
PathWithoutSeed(acc) ==                  \* mutant: starts one slot late
  LET path == {i \in acc : i >= tree.prefix}
  IN [k \in 1 .. Cardinality(path) |->
        LET i == Nth(path, k - 1) IN Cell(tree.node[i].pos, tree.node[i].tok)]

AcceptedPath(acc) ==
  LET path == {i \in acc : i >= tree.prefix - 1}
  IN [k \in 1 .. Cardinality(path) |->
        LET i == Nth(path, k - 1) IN Cell(tree.node[i].pos, tree.node[i].tok)]

\* RunCycle returns the fresh tokens to Generate, which decides on another
\* round.  The warm-up round is not searched for an end-of-generation token.
ReturnBonusUnread(t) ==                  \* mutant: the last fresh token is not searched
  LET fresh == {t.node[i].tok : i \in tree.prefix .. t.prefix - 2}
      warm  == IF gen.first THEN t.prefix - tree.prefix ELSE gen.warm
      eog   == ~gen.first /\ fresh \cap Eog # {}
  IN /\ gen' = [gen EXCEPT !.first = FALSE, !.warm = warm, !.eog = eog]
     /\ pc' = IF t.prefix - gen.orig < MaxNew + warm /\ ~eog
              THEN "grow" ELSE "done"

Return(t) ==
  LET fresh == {t.node[i].tok : i \in tree.prefix .. t.prefix - 1}
      warm  == IF gen.first THEN t.prefix - tree.prefix ELSE gen.warm
      eog   == ~gen.first /\ fresh \cap Eog # {}
  IN /\ gen' = [gen EXCEPT !.first = FALSE, !.warm = warm, !.eog = eog]
     /\ pc' = IF t.prefix - gen.orig < MaxNew + warm /\ ~eog
              THEN "grow" ELSE "done"

Commit(t, kvp, hit) ==
  /\ tree' = t
  /\ kv' = kvp
  /\ pool' = PoolOf(t)
  /\ level' = 0
  /\ prevHit' = hit
  /\ rpc' = NoRpc
  /\ bet' = NoBet
  /\ Return(t)
  /\ UNCHANGED <<srv, cause>>

\* The bet won: the subtree's sequences are kept and the subtree is spliced in.
AcceptHit ==
  /\ pc = "join"
  /\ rpc.st = "answered"
  /\ \E acc \in {Accepted(rpc.sel)} :
     LET path == AcceptedPath(acc)
         kv1  == IF Recurrent THEN AdvanceCommitted(kv, path) ELSE kv
     IN /\ BetWon(acc)
        /\ IF Recurrent /\ ~AdvanceCommittedOk(kv, path) THEN Die("decode")
           ELSE IF ~ReorderProactiveOk(tree, acc, bet.begin, bet.stop)
           THEN Die("splice")
           ELSE Commit(ReorderProactive(tree, acc, bet.begin, bet.stop,
                                        tree.node[bet.begin].seq),
                       CollapseToSeqs(kv1, bet.seqs),
                       TRUE)

\* No bet, or a lost one: the accepted path is collapsed onto seq 0 and the
\* bonus token becomes the seed of the next round.
AcceptMiss ==
  /\ pc = "join"
  /\ rpc.st = "answered"
  /\ \E acc \in {Accepted(rpc.sel)} :
     LET path == AcceptedPath(acc)
         keep == tree.node[LastSlot(acc)].seq
         t1   == ReorderBySequence(tree, acc)
         seed == [tok |-> Bonus(acc), pos |-> t1.node[t1.end - 1].pos + 1,
                  par |-> t1.end - 1, st |-> kCandidate, lp |-> 0, seq |-> 0]
         t2   == Add(t1, <<seed>>)
     IN /\ ~BetWon(acc)
        /\ IF ~AcceptPathOk(kv, keep, path) THEN Die("decode")
           ELSE IF ~AddOk(t1, <<seed>>) THEN Die("max_len")
           ELSE Commit(SetStatus(SetPrefixLen(t2, t2.end), 0 .. t2.end - 2, kPrompt),
                       AcceptPath(kv, keep, path),
                       FALSE)

\* rpc.get() rethrows.
JoinRetries ==                           \* mutant: the call is sent again, for ever
  /\ pc = "join"
  /\ rpc.st = "failed"
  /\ pc' = "validate"
  /\ rpc' = NoRpc
  /\ bet' = NoBet
  /\ UNCHANGED <<tree, kv, pool, level, prevHit, gen, srv, cause>>

JoinFailed ==
  /\ pc = "join"
  /\ rpc.st = "failed"
  /\ Die("rpc")

Finished ==
  /\ pc \in {"done", "fatal"}
  /\ UNCHANGED vars

Next ==
  \/ GrowLevel \/ GrowDone \/ StartValidate
  \/ ServerAnswer \/ ServerFail \/ OracleAnswer
  \/ ChooseBet \/ DraftLevel
  \/ AcceptHit \/ AcceptMiss \/ JoinFailed
  \/ Finished

Spec == Init /\ [][Next]_vars

\* Fairness.  The main thread runs whenever it is not blocked in rpc.get(), and
\* a call is answered or fails in the end.  This is weak fairness of the main
\* thread's actions and of the server's, written out with the predicates that
\* enable them; only a step of the main thread changes mainVars.
MainReady == \/ pc \in {"grow", "validate", "bet"}
             \/ pc = "join" /\ rpc.st \in {"answered", "failed"}
mainVars  == <<tree, kv, pool, pc, level, prevHit, bet, gen, cause>>

MainRuns      == []<>~MainReady \/ []<><<TRUE>>_mainVars
ServerReplies == []<>(rpc.st # "sent")

FairSpec == Spec /\ MainRuns /\ ServerReplies
=============================================================================
