# A TLA+ model of mobile-specedge

mobile-specedge is the edge client of tree-based speculative decoding. A small
draft model on the device proposes a tree of continuations; a large target
model on a server says, for every node of the tree, which token it would have
chosen next; the client commits the deepest path the target agrees with plus
one token of the target's own (the *bonus* token). While the server computes,
the client may *bet* on the bonus token and draft the next round's tree in
advance.

This directory holds TLA+ modules translated from the C++ sources under
`src/src/`, the TLC configurations that check them on small instances, and
machine-checked proofs. `PROJECT.json` maps every definition to source lines.

## 1. The system

| component | source | state | operations |
|---|---|---|---|
| Draft tree | `tree.{h,cpp}` | token, position, parent, status, score and sequence id per slot; ancestor mask; `prefix_len`, `end` | `add`, `gather`, `set_status`, `set_prefix_len`, `set_end`, `reorder_by_sequence`, `reorder_by_sequence_proactive` |
| Speculative round | `spec_exec_client.{h,cpp}` | the tree, the pool of llama.cpp sequence ids, `prev_proactive_hit_` | `Generate` → `RunCycle` → `GrowTree`, `ValidateTree` |
| Proactive draft | `proactive_draft.{h,cpp}` | none across rounds; uses the tree's scratch slots | `FrontierLeaves`, `ChooseBet`, `Draft` |
| Draft engine, tree mode | `graph_engine.{h,cpp}` | llama.cpp's unified KV cache: cells tagged with sequence ids | `prefill`, `forward_batch_topk`, `seq_cp`, `seq_rm`, `accept_path`, `advance_committed`, `collapse_to_seq(s)` |
| Draft engine, construction | `graph_engine.{h,cpp}` | model, context, samplers or thread pool, batch | constructor, `load_model`, `close` |
| Draft engine, linear mode | `graph_engine.{h,cpp}` | one sequence, its length, the remembered prediction | `prefill`, `forward`, `backfill`, `gather`, `reset` |
| Host top-k | `host_topk.{h,cpp}` | a job, a generation counter, a count of busy workers; a heap per chunk | `Run`, `WorkerLoop`, `Work`, destructor |
| Backend top-k | `topk_sampler.{h,cpp}` | none | `BackendApply`, `SamplerApply` |
| Validator | `validator.h`, `grpc_client.*`, `oracle_validator.*` | a channel, or a recorded sequence | `Validate`, `Sync`, `Done` |
| Driver | `script/client.cpp` | the configuration, the request list, the trace files | `load_config`, `derive_max_seqs`, the request loops of `main` and `run_replay`, `TraceWriter` |

The main thread owns the tree and the engine. `ValidateTree` copies what the
request needs and starts the call with `std::async`; until `rpc.get()` the main
thread runs the proactive draft on the same tree. Inside the engine, the host
top-k pool scans each row's logits with persistent worker threads. The server
keeps its own cache of the request and reorders it by its own walk over the
same acceptance rule.

What is hard:

* **the tree changes while its request is in flight**, and the answer is then
  read against it; the draft may also leave by exception half-way;
* **two acceptance walks** (client and server) must agree for ever;
* **slots, sequence ids and cells are three address spaces**: trimming moves
  slots and leaves cells, forking copies tags, a hit keeps several sequences,
  a miss collapses to one, ids are recycled, and a recurrent model cannot be
  rewound at all;
* **limits**: `max_len`, `max_budget`, `max_seqs` and their interaction with a
  won bet that carries nodes and sequences into the next round;
* **the thread pool's** unlocked reads and writes between two condition
  variables;
* **three ways to score a row** (host chunks, backend graph, fallback) that
  must agree, empty chunks, ties and infinities included;
* **an engine that cannot rewind**: in linear mode the last drafted token has
  no cell yet when it is accepted;
* **construction in stages**, each of which may throw, with pointers borrowed
  between what is built, and limits (256 sequences) that interact;
* **files that outlive the process**: three logs written at different moments
  by runs that fail, are killed, or replay one another.

`PROJECT.json` lists these as hazards, at their lines, with the properties that
cover them.

## 2. Modules

| module | models | checked by |
|---|---|---|
| `DraftTree` | `Tree`: each mutator is an operator on a record `[node, mask, prefix, end]`; operators ending in `Ok` are the conditions under which the code does not throw | through `SpecExec` |
| `KvCache` | tree-mode `LlamaCppEngine`: a cache maps a sequence id to the set of `<<position, token>>` cells it tags | through `SpecExec` |
| `BeamSearch` | what one drafting level consists of, shared by `GrowTree` and `Draft`: beams, scores, budget cut, sequence allocation, forks | through `SpecExec` |
| `SpecExec` | one request as a state machine | `MCSpecExec` |
| `SpecExecProps` | the properties of `SpecExec` and its refinement mapping | `MCSpecExec` |
| `TargetDecoding` | what speculative decoding promises | as property `Lossless` |
| `LinearEngine` | linear-mode `LlamaCppEngine` and its caller's chain | `MCLinearEngine` |
| `Startup` | from a configuration file to a running client, and `close` | `MCStartup` |
| `Session` | the driver: successive runs, live or replaying, and the files they leave | `MCSession` |
| `TopKSelect` | the scoring of one row on its three paths | `MCTopKSelect` |
| `HostTopK` | the thread pool | `MCHostTopK` |
| `Ranks` | the ascending numbering of a finite set of integers, shared by `DraftTree` and `Session` | through its users |
| `HostTopKProofs`, `TopKSelectProofs`, `LinearEngineProofs`, `StartupProofs`, `SessionProofs` | proofs about the module each is named after | tlapm |
| `RankTheorems` | lemmas about `Ranks`, and induction over sets of numbers | tlapm |
| `SpecExecProofs` | proofs about `DraftTree`, of the properties of the request and its budget, and of `Lossless`, the server's step and replays | tlapm |
| `CacheProofs` | proofs of the properties of the draft engine's cache and of the pool of sequence ids | tlapm |

**SpecExec.** `pc` is where the main thread is; `rpc` the call (request copies,
status, answer); `bet` the locals and the result of `Draft`; `gen` the locals
of `Generate`; `srv` the server's cache; `cause` why a request died. Actions:

| action | code |
|---|---|
| `GrowLevel` | one iteration of the loop of `GrowTree`, with the prefill of the first round, and the trim when the iteration ends the loop |
| `GrowDone` | leaving the loop at its limit or for want of candidates, with the trim |
| `StartValidate` | building the request and starting the call |
| `ServerAnswer`, `ServerFail` | the call on its thread: external server, or an error |
| `ChooseBet` | `Draft` up to its loop: room check, frontier, scratch sequences, scoring, root |
| `DraftLevel` | one iteration of the loop of `Draft`, and its end with `BoundsGuard` |
| `AcceptHit`, `AcceptMiss` | the rest of `ValidateTree`, the return through `RunCycle` and the loop test of `Generate` |
| `JoinFailed` | `rpc.get()` rethrows (an answer with too few rows ends the same way) |

Data is abstracted as follows. Scores are integers: a child loses a positive
cost against its parent (decay and log-probability are both negative). What the
draft model returns for a row is any descending list of distinct tokens with
costs from `Costs` and tokens from `DraftTok`; what the target answers for a row is any token. An
exception that ends the request is the state `fatal`, with its cause.

The server is external and modelled from what the client sends and expects:
it stores the rows at their slots, computes each row's choice for the context
its mask selects, and keeps the cells of the deepest accepted row.

With a non-empty `Reference` the server is replaced by the oracle validator
(`OracleAnswer`): it looks its answers up by position in the recorded sequence
and answers `PastEnd` beyond it. `LiveTarget` (the empty sequence) selects the
server.

**Session.** `proc` is the client process (where it is, its mode, what it has
left to visit, the records it keeps, `Generate`'s counters), `disk` the files of
each output directory, `srv` the run the server was last told of. One action per
step that another actor or a kill can fall between: `Sync`, `SkipRequest`,
`AdmitRequest`, `Round`, `GenerateReturns`, `FinishRequest`, `AllVisited`,
`CloseTrace`, `WriteTxt`, `NotifyDone`; `RoundThrows` and a failed `Sync` unwind
through `TraceWriter`'s destructor, `Kill` does not, and tears the record that
`Add` is writing (`Adding`), of a finished request or of a skipped one. Here decoding is reduced to
token counts: `SpecExec` has the rest.

**Startup.** `cfg` is a `ClientConfig`, `engine` the engine's scalar members,
`live` and `samplers` what is allocated. The steps are `load_config`, the
engine's constructor (checks, model, sequences, samplers one by one or the host
pool, context), the first admitted request's `SpecExecClient`, and `close()`
one resource at a time. An exception inside the engine's constructor runs no
destructor of the engine (state `dead`).

**LinearEngine.** `cells`, `seqLen` and `predicted` are the engine's; `chain`
and `verified` the caller's, who drafts by the argmax, verifies whenever it
likes and adds the target's bonus token. Each operation either follows the chain
or throws and changes nothing.

**TopKSelect.** One row and one job per behaviour. The host path scans chunk by
chunk, one or four logits at a time as the NEON loop does; the backend path
selects, folds and sums and is read back sorted. Logits are small integers or
minus infinity and the exponential has base two, which makes every sum exact:
what is checked is which tokens and which terms are counted, not rounding.

**HostTopK.** A block that holds `mu_` is one step; a condition wait is: test
under the lock, sleep, test again after a notification or spuriously. `Work`
reads `rows_` and writes `partials_` in separate steps outside the lock. A job
is known by its generation number.

Definitions marked *mutant* are small plausible bugs; `PROJECT.json` names the
property that catches each one.

## 3. Properties and runs

Properties of `SpecExec`:

* `Lossless`: the committed tokens implement `TargetDecoding`: every token is
  the target's answer to exactly the tokens before it, and none is taken back.
  The mapping takes `out` from the committed slots and `answers` from the
  contexts the server really saw.
* `TreeShape`: the tree stays a tree across adds, trims and both reorders.
* `BranchesInCache`: up to its position, a node's sequence tags exactly the
  cells of its root path. `FreeSeqsEmpty`: an id that may be handed out tags
  nothing. `CommittedSeqInStep`: the same for the hidden sequence of a
  recurrent model.
* `ServerInStep`: after every round the server's cache is the client's
  committed prefix.
* `RequestStillDescribesTree`: nothing the bet does changes what a row of the
  request in flight stands for.
* `WithinBudget`, `DiesOnlyOutside`: the request respects `max_budget`; only
  the server or a full tree can end a request, never a rejected decode, an
  exhausted sequence pool, an empty tree or a failed splice. A decode is
  rejected here for its positions; cells running out is not modelled (section 5).
* `EogStopsAfterWarmup`, `Terminates`: `Generate` stops.

* `ReplaySpellsReference`: a replay commits the recording and nothing else, so
  `run_replay`'s divergence check never fires. `OracleReproducesRound`: for any
  round against the real target, an oracle that knows only what was committed
  leads to the same accepted path and bonus token.

Properties of the other modules:

* `LinearEngine`: `CellsSpellChain` (the cells are a prefix of the caller's
  chain, the token rebuilt from memory included), `AcceptanceFits` (an
  acceptance the caller may legally ask for is never refused on an
  attention-only model).
* `Startup`: `RunningIsSound` (whatever passes the checks satisfies what
  `SpecExec` assumes of its constants, within llama.cpp's cap),
  `SamplerOnEverySequence`, `DerivedIsAccepted`, and for `close`
  `BorrowedOutliveContext`.
* `Session`: `TraceIsVisitingPrefix`, `TxtMatchesTrace`,
  `RoundsAccountForTrace` relate the files to each other and to the last run;
  `ReplayFollowsRecording` the order and content of what is replayed;
  `ServerFollowsRun` and `DoneMeansOnDisk` the server to the files; `RunEnds`.
* `TopKSelect`: `HeapHoldsBest` (in every step of a scan), `HostIsExact`,
  `PrefixesAreBest`, `FullVocabularyScores`.

Properties of `HostTopK`: `MergeIsComplete`, `RowsAlive`, `NobodyWorks`,
`PendingCountsOwing`, and the liveness of `Run` and of the destructor.

| run | instance | distinct states |
|---|---|---|
| `bet` | two beams, three levels, budget 2 (below the size of a level), bets on two leaves, failing server | 59 000 |
| `recurrent` | recurrent model, `included` bets, an end-of-generation token, failing server, fairness | 33 000 |
| `replay` | the oracle in the server's place, no bets, a prompt of one token, past the end of the recording | 30 000 |
| `pool` | three threads, three jobs, destructor | 660 |
| `topk` | all rows of six logits over three values, k up to 2, 1, 2 or 4 threads, two folding limits | 114 000 |
| `linear` | two tokens, five cells, both kinds of model | 1 300 |
| `startup` | 960 shapes and 20 unusual configurations, cap 7 | 42 000 |
| `session` | three requests of which one may be too long, two directories, two runs | 516 000 |

Bounds. The draft model proposes two tokens (`DraftTok`), which is enough for
accepted and rejected children, right and wrong bonus guesses, and ties between
siblings. In `recurrent` the target has a third token that the draft model never
proposes, so that it may reject every child of the seed; in `replay` the draft
model also proposes the past-end token, so that drafts beyond the recording are
accepted. Two costs give every order of two scores and ties between them; with
costs 1 and 3 (`bet`) a child may also outrank its parent's sibling, so that a
trim drops a node from the middle. `MaxLen` leaves room for at least two rounds
plus the scratch tree; in `bet` deep runs fill the tree and the request dies of
`max_len`, in the others it never stands in the way. `MaxNew` forces one or more
rounds after the warm-up, so that a hit follows a hit and a miss follows a hit.
`MaxSeqs` is what `derive_max_seqs` computes, so the pool is as tight as in the
program. Three threads are the smallest pool in which one worker may be late while
another reports. In `topk` six tokens cut by four threads leave one chunk empty
and chunks shorter than k, six is folded by two rows and by no power of two
within the tighter limit, and a chunk may be all minus infinity. In `startup`
the cap 7 stands for 256: the shapes derive values below, at and above it, and
configured values sit on both sides. In `session` the slice of the dataset has an offset and a stride, the order is a
shuffled one, a round commits one token and a request two or three rounds, so
that a replay may run past a shorter recording; the second run may replay the
first into the same or another directory. No symmetry is used: tokens are ordered by ties.

Fairness. The main thread runs unless it is blocked in `rpc.get()`, and a call
is answered or fails (the client sets no deadline; gRPC reports a broken
channel). Both are weak fairness; `SpecExec` writes it out with the enabling
predicates. In `HostTopK` every thread that can run does, and nobody relies on
spurious wake-ups. In `Session` the process is scheduled and `Sync` and `Done`
return or fail; nobody is obliged to start another run, so deadlock is not
checked there.

Where the repository says something the code does not do, a run that is
expected to fail shows it:

| run | claim | what happens |
|---|---|---|
| `doc_eog` | "or an end-of-generation token, whichever comes first" (`spec_exec_client.h:94`) | the warm-up round is not searched |
| `doc_seqs` | "Upper bound on llama.cpp sequences a round can fork", a won bet's branches included (`script/client.cpp:306`) | a won bet's branches and the next bet draw on the one proactive share: after a hit the next bonus token finds no sequence and its bet is dropped |
| `doc_history` | "forks the winning branch from its true history" (`proactive_draft.cpp:167`) | after a trim the leaf's sequence still tags a trimmed child; the bet is dropped |
| `doc_trace` | "an interrupted run still leaves a usable trace" (`script/client.cpp:368`) | a kill inside `Add` tears the last line and the loader throws |

None of the first three costs losslessness: `Lossless` is proved for every value
of the constants (section 4), theirs included.

Smaller disagreements met while modelling, which need no run to be seen:

* "Between rounds `prefix_len() == end()`" (`spec_exec_client.cpp:232`): a won
  bet's subtree is in between; the loop only reads `prefix_len`.
* "up to max_new_tokens" (`spec_exec_client.h:94`): the warm-up round does not
  count and the last round may overshoot.
* proactive drafting "is refused" (`README.md:292`) or "unavailable"
  (`graph_engine.h:293`) for recurrent models: it is supported, and is what
  `recurrent` checks.
* "No stub.Sync() handshake" (`script/client.cpp:17`): `main` calls `Sync` and
  `Done`.
* Without a named directory everything goes to `./log` (`script/client.cpp:140`):
  `graph-engine.log` goes to `.`, or where an inherited environment says.
* "both paths agree exactly" (`graph_engine.cpp:659`): which of several tokens
  tied at the k-th place are returned is `ggml_top_k`'s choice on the backend.

## 4. Proofs

TLC checks the instances of section 3; the theorems below hold for every value
of the constants that satisfies the named assumptions of the modules (which TLC
evaluates on every run). Each safety theorem has the same form: an inductive
invariant `IInv`, one lemma per action (or per group of actions that treat the
invariant alike), and the property as a consequence of `IInv`.

**HostTopKProofs** proves, for any number of threads and calls, `Spec => []P` for
`P` each of `TypeOK`, `PendingCountsOwing`, `MergeIsComplete`, `RowsAlive` and
`NobodyWorks`, from `PoolAssumption` (at least one thread). None is inductive
alone: a partial result is fresh at the merge because its worker reported; that
it reported follows from `pending_ = 0` only if `pending_` counts exactly the
workers that owe the current job; and that in turn needs to know which job each
worker is on. `IInv` is the conjunction of these facts. There is one lemma per
group of actions that treats the debts alike: publishing makes every worker
owe, reporting removes one, everything else leaves the set alone.

**LinearEngineProofs** proves `CellsSpellChain` and `AcceptanceFits` for any
vocabulary and `max_len`. When a whole chain is accepted, `gather` appends a
token that was never decoded, from the remembered prediction; the invariant says
what that prediction is worth: nothing, and then no drafted token is
outstanding, or the one token of the chain without a cell.

**StartupProofs** proves `RunningIsSound`, `SamplerOnEverySequence`,
`BorrowedOutliveContext` and `DerivedIsAccepted` for any configuration and any
cap above 2. What a running client relies on was checked several constructors
earlier: the invariant carries each fact from the step that establishes it to
the phase that needs it, one conjunct per origin. The first of these theorems
discharges, for every client that gets to run, what `SpecExec` assumes of the
beam and proactive parameters, the sequences and the prompt's length.

**SessionProofs** proves `TraceIsVisitingPrefix`, `TxtMatchesTrace`,
`RoundsAccountForTrace`, `ServerFollowsRun`, `ReplayFollowsRecording` and the
action property `DoneMeansOnDisk`, for any dataset, slice, visiting order,
number of runs and directories, whichever runs fail or are killed. The
properties speak of files, the reasons lie in the process: what a run has yet to
visit continues its trace to its plan, what it keeps in memory is its trace, and
the rounds of the request in hand add up to what `Generate` has committed.

**RankTheorems** is what the other proofs keep needing. The code numbers the
elements of a mask, of an index vector or of a filtered list in ascending order;
`Rank` and `Nth` (module `Ranks`) say so without recursion, and `RankTheorems`
shows that they are each other's inverse on a finite set of integers. The prover
has no induction over data, but it has natural numbers: `LeastNat`,
`SetInduction` (and `SlotInduction` for the slots of a tree) state induction for
a set of numbers instead of a predicate.

**SpecExecProofs**, first part, shows that a row of the mask is the chain of
parents (`RowOfChain`), that a position is a depth (`PosIsDepth`), and that the
constructor, `add`, `gather`, `reorder_by_sequence` and
`reorder_by_sequence_proactive` each yield a tree of the same shape.

Its second part proves `TypeOK`, `TreeShape`, `RequestStillDescribesTree`,
`WithinBudget` and `EogStopsAfterWarmup` for every tree size, budget, beam
width, vocabulary, prompt and proactive mode, against any target, live or
recorded. `TreeShape` alone is not inductive. That `gather` closes up the slots
of a *tree* when it trims to the best `max_budget` nodes needs to know that a
child never scores as well as its parent (`Grown`), that the status of a node
tells what may be trimmed, and that ties are broken by slot; that a won bet can
be spliced needs what the bet's root and slots are (`Bets`); that the answer is
read against the right nodes needs that nothing behind the request's rows moves
while it is in flight (`Request`). Each lemma about an action concludes both
`IInv'` and what kind of step it was: one that leaves the committed tokens alone
(`Quiet`) or one that commits the accepted path and a bonus token (`Commits`).

Its third part proves the refinement. `DecodingIsLossless` is
`Spec => Lossless` for a live run (`Reference = <<>>`), that is, the client
with its bets implements `TargetDecoding`. The argument:

1. Siblings differ in their token (`Apart`, part of `IInv`), so no two nodes
   stand for the same continuation (`NoTwins`) and an answer agrees with at most
   one row of each depth (`OneAgreed`).
2. So the client's walk, which takes the deepest agreed row, and the server's own
   walk end at the same row (`WalksAgree`): after each round the server's cache
   is the committed prefix (`ServerStaysInStep`). This needs `Served`, which also
   says what the server holds while its answer is under way.
3. Every row of a request therefore has the context the client means, and
   distinct rows have distinct contexts (`ContextsDiffer`), so "the target's
   answer to these tokens" is well defined.
4. A `Quiet` step is a step `Answer` of `TargetDecoding` or a stutter
   (`QuietAnswers`); a `Commits` step is a step `Emit`: each token of the accepted
   path, and the bonus, is the answer to exactly the tokens before it
   (`AcceptedChain`, `CommitEmits`).

`ReplayRecites` proves `ReplaySpellsReference`: with the oracle in the server's
place the committed tokens are a prefix of the recording followed by past-end
tokens. `OracleIsFaithful` proves `OracleReproducesRound`: an oracle that knows
only what a round committed accepts the same path; that it accepts no more is
the maximality of the path (`OracleRepeats`).

**CacheProofs** proves what the engine's cache has to do with the tree:
`BranchesInCache`, `FreeSeqsEmpty`, `CommittedSeqInStep` and `DiesOnlyOutside`.
`BranchesInCache` speaks of the rows that are decoded next; its invariant has to
speak of every node, because any of them may become a bet's root or the end of
the accepted path. `CInv` is `IInv` and `Cached`, whose heart is `Backed`:

* a node's sequence tags, below its position, exactly the cells of its root
  path, and its own cell at its position once it is marked decoded (`Holds`);
* an undecoded node has nothing at or behind its position (`Fresh`), so that
  decoding it meets no stale cell;
* two nodes have the same sequence only when one is on the other's root path;
* every sequence in use is known to the pool and the free ones tag nothing.

The root of a bet is the one undecoded node that is not `Fresh`, when its leaf's
sequence still tags a trimmed child; the run `doc_history` shows the code
dropping the bet there. The lemmas follow the cells through each
operation: `BackedDecode` and `BackedFork` for a level, `BackedTrim` for the trim,
`BackedRoot` for the start of a bet, `CommitCached` and `BackedSplice` for the
collapse of the cache after a round and after a won bet, with or without a
recurrent state to rebuild from.

`DiesOnlyOutside` needs more, `LInv`: how many sequences a round and its bet can
have forked by each level (`SeqBudget`), and that a round has something to
validate (`SomethingDrafted`). The theorem assumes `MaxSeqs >= DeriveMaxSeqs` and
`DeriveMaxSeqs < 256`, that is, an engine given at least what the driver derives,
where the derivation is not cut by its clamp; a shape that needs more than the
clamp allows may run out of sequences, and so may a configuration that sets a
smaller `max_seqs`. With them every decode is one the engine accepts, because the
rows of a batch are `Fresh` and have their parents' cells; that a free cell is found
is outside the model (section 5).

**TopKSelectProofs** proves `HeapHoldsBest`, `HostIsExact` and `PrefixesAreBest`
for every row, `k`, vocabulary and number of threads. `HeapLess` is a strict total
order, so a token has a place in every set: the number of tokens before it
(`Places`). A heap of the best of what has been seen stays one when the next id is
stepped (`StepHolds`), four ids are stepped or, when none beats the front, skipped
(`LanesSkipped`): ids ascend within a chunk, so a tie goes to the one already
there. The chunks cover the row (`ChunksCover`), and a token among the first `k`
of the row is among the first `k` of its chunk (`NoneLost`), so merging the heaps
and taking the first `k` gives those of the row (`MergedBest`).

Only model-checked:

* liveness (`Terminates`, `RunEnds`, and the liveness of `Run` and of the pool's
  destructor), which is out of the prover's reach;
* `FullVocabularyScores`: a sum over a row, cut into chunks or folded into rows,
  is a fold, and that two foldings of the same row agree is an induction over
  data;
* the four claims of the repository that the model refutes.

## 5. Not modelled, and what is left

Not modelled: the metric scripts (offline analysis), the generated gRPC stubs,
`config.h` (environment variables, unused by the driver), the test programs,
YAML and argument parsing, datasets, tokenising and chat templates (input and
text), the byte encodings of the request in `grpc_client.cpp` (the mask's
element type is agreed outside both programs), timing statistics, the contents
of log records, floating-point rounding, and the contents of the target and
draft models. The physical cells of the cache are not counted: the model keeps
which positions a sequence tags, not how many cells stand behind equal tags.
`DecodeOk` and `DecodePathOk` therefore leave out `llama_decode`'s "no free cell"
(`n_ctx = max_len`, `graph_engine.cpp:517`), a hazard without a property. It
qualifies `DiesOnlyOutside` and its theorem for hybrid models: there
`advance_committed` decodes the accepted path once more after a hit, so the same
token at the same position may hold two cells, and a request may run out of them
before its tree is full. `Session` has one client process at a time; the
barrier among several clients inside `Sync` is the server's.

Every safety invariant that a passing run checks is proved, except
`FullVocabularyScores`. What would extend the project further:

1. a proof of `FullVocabularyScores`, once the prover can reason about folds;
2. two clients sharing a directory, and the barrier of `Sync` among them, with a
   model of the server as a process of its own;
3. the number of physical cells behind the tags, for the `n_ctx` hazard.
