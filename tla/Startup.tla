------------------------------ MODULE Startup ------------------------------
(***************************************************************************)
(* From a configuration file to a running client and back                  *)
(* (src/src/script/client.cpp, src/src/graph_engine.cpp,                   *)
(* src/src/spec_exec_client.cpp).  load_config checks the fields, the      *)
(* engine's constructor checks what it is given, loads the model, sizes the*)
(* llama.cpp sequences, prepares the scoring of the draft and creates the  *)
(* context, and the first admitted request builds a SpecExecClient.  Any of*)
(* these may throw.  An exception in the engine's constructor runs no      *)
(* destructor of the engine; a later one, or the end of the run, closes it.*)
(*                                                                         *)
(* A configuration is a record with the fields of ClientConfig that a check*)
(* reads; names and paths are reduced to what the code asks of them.       *)
(***************************************************************************)
EXTENDS Integers, Sequences, FiniteSets

CONSTANTS
  Configs,      \* the configurations a run may be given
  Cap,          \* llama.cpp's LLAMA_MAX_SEQ, 256 in the code
  Vocabs,       \* the vocabulary sizes a model may have
  PromptLens    \* the lengths of the prompts of the dataset

ASSUME StartupAssumption ==
  /\ Cap \in Nat /\ Cap > 2
  /\ Vocabs \subseteq Nat \ {0}
  /\ PromptLens \subseteq Nat \ {0}

\* The counts and lengths of ClientConfig are 32-bit integers of either sign.
ASSUME ConfigAssumption ==
  \A c \in Configs :
    {c.max_len, c.max_new_tokens, c.max_seqs, c.max_n_beams, c.max_beam_len,
     c.max_branch_width, c.max_budget, c.pro_max_n_beams, c.pro_max_beam_len,
     c.pro_max_branch_width, c.pro_max_budget} \subseteq Int

VARIABLES
  pc,        \* what is built next
  cfg,       \* ClientConfig
  env,       \* SPECEDGE_RESULT_PATH and SPECEDGE_EXP_NAME: "unset", "stale" or "run"
  engine,    \* the engine's scalar members
  live,      \* the resources allocated and not yet freed
  samplers,  \* the sequences with a live sampler of their own
  pool,      \* the sequence ids a SpecExecClient may hand out
  prompt,    \* the length of its prompt
  step       \* how far close() is

vars == <<pc, cfg, env, engine, live, samplers, pool, prompt, step>>

NoEngine == [maxSeqs |-> 0, treeMode |-> FALSE, recurrent |-> FALSE,
             committed |-> -1, nVocab |-> 0, topK |-> 0, log |-> "none"]

Init ==
  /\ pc = "config"
  /\ cfg \in Configs
  /\ env \in {"unset", "stale"}
  /\ engine = NoEngine
  /\ live = {}
  /\ samplers = {}
  /\ pool = {}
  /\ prompt = 0
  /\ step = 0

\* main() reports the exception and returns 1; nothing is freed by the engine.
Dead ==
  /\ pc' = "dead"
  /\ UNCHANGED <<cfg, env, engine, samplers, pool, prompt, step>>

-----------------------------------------------------------------------------
(* load_config *)

AllPositive(S) == \A n \in S : n >= 1

ProactiveFields(c) == {c.pro_max_n_beams, c.pro_max_beam_len,
                       c.pro_max_branch_width, c.pro_max_budget}

ConfigOk(c) ==
  /\ c.draft_scoring \in {"backend", "host"}
  /\ c.draft_model # ""
  /\ c.dtype \in {"fp32", "fp16", "bf16"}
  /\ AllPositive({c.max_n_beams, c.max_beam_len, c.max_branch_width, c.max_budget})
  /\ c.proactive_type \in {"disabled", "excluded", "included"}
  /\ c.proactive_type # "disabled" =>
       /\ AllPositive(ProactiveFields(c))
       /\ c.pro_max_branch_width <= c.max_branch_width
  /\ c.sample_req_cnt >= 1
  /\ c.max_request_num >= -1

\* load_config, then the output directory is handed to the engine through the
\* environment, but only when the configuration names one.
LoadConfig ==
  /\ pc = "config"
  /\ IF ConfigOk(cfg)
     THEN /\ pc' = "engine"
          /\ env' = IF cfg.named THEN "run" ELSE env
          /\ UNCHANGED <<cfg, engine, live, samplers, pool, prompt, step>>
     ELSE Dead /\ UNCHANGED live

\* resolve_log_dir: where the client writes its results and its traces.
LogDir == IF cfg.named THEN "run" ELSE "./log"

-----------------------------------------------------------------------------
(* LlamaCppEngine *)

Clamp(n, low, high) == IF n < low THEN low ELSE IF n > high THEN high ELSE n

Forks(c) ==
  1 + c.max_beam_len * c.max_n_beams * (c.max_branch_width - 1)
    + IF c.proactive_type = "disabled" THEN 0
      ELSE 1 + c.pro_max_beam_len * c.pro_max_n_beams * (c.pro_max_branch_width - 1)

DeriveFromOne(c) == Clamp(Forks(c), 1, Cap)       \* mutant: the floor is one

derive_max_seqs(c) == Clamp(Forks(c), 2, Cap)

\* The engine's max_seqs: the configured one, or the derived one.
MaxSeqsOf(c) == IF c.max_seqs > 0 THEN c.max_seqs ELSE derive_max_seqs(c)

\* The constructor's own checks; main() sets draft_top_k to the branch width.
EngineOk(c) ==
  /\ MaxSeqsOf(c) > 1
  /\ MaxSeqsOf(c) <= Cap
  /\ c.max_branch_width > 0
  /\ c.max_n_beams >= 1

\* forward_log_path: the directory the environment names, or the current one.
ForwardLog == IF env = "unset" THEN "." ELSE env

BuildEngine ==
  /\ pc = "engine"
  /\ IF EngineOk(cfg)
     THEN /\ engine' = [engine EXCEPT !.maxSeqs = MaxSeqsOf(cfg),
                                      !.treeMode = MaxSeqsOf(cfg) > 1,
                                      !.topK = cfg.max_branch_width,
                                      !.log = IF cfg.forward_log THEN ForwardLog ELSE "none"]
          /\ pc' = "model"
          /\ UNCHANGED <<cfg, env, live, samplers, pool, prompt, step>>
     ELSE Dead /\ UNCHANGED live

\* A recurrent model in tree mode keeps one sequence for its committed state,
\* out of the draft's share at the cap.
KeepCapForCommitted(maxSeqs) == maxSeqs   \* mutant: no id is set aside at the cap

LowerForCommitted(maxSeqs) == IF maxSeqs = Cap THEN Cap - 1 ELSE maxSeqs

NSeqMax == IF engine.committed >= 0 THEN engine.maxSeqs + 1 ELSE engine.maxSeqs

\* The model is found on the device asked for and loaded, and the sequences are
\* sized for it.
LoadModel ==
  /\ pc = "model"
  /\ cfg.draft_model = "present"
  /\ cfg.device # "unknown"
  /\ \E recurrent \in BOOLEAN, nVocab \in Vocabs :
       LET maxSeqs == IF recurrent /\ engine.treeMode
                      THEN LowerForCommitted(engine.maxSeqs) ELSE engine.maxSeqs
       IN engine' = [engine EXCEPT
            !.nVocab = nVocab,
            !.recurrent = recurrent,
            !.maxSeqs = maxSeqs,
            !.committed = IF recurrent /\ engine.treeMode THEN maxSeqs ELSE -1]
  /\ live' = live \cup {"model"}
  /\ pc' = "scoring"
  /\ UNCHANGED <<cfg, env, samplers, pool, prompt, step>>

\* The path or the device does not exist, the file cannot be loaded, or the
\* model it holds has no vocabulary.
LoadModelFails ==
  /\ pc = "model"
  /\ \/ live' = live
     \/ /\ cfg.draft_model = "present" /\ cfg.device # "unknown"
        /\ live' = live \cup {"model"}
  /\ Dead

\* Scoring on the host starts the thread pool, which refuses more candidates
\* than there are tokens.
StartHostTopK ==
  /\ pc = "scoring"
  /\ cfg.draft_scoring = "host"
  /\ IF engine.topK <= engine.nVocab
     THEN /\ live' = live \cup {"host_topk"}
          /\ pc' = "context"
          /\ UNCHANGED <<cfg, env, engine, samplers, pool, prompt, step>>
     ELSE Dead /\ UNCHANGED live

\* Scoring on the backend makes one sampler per sequence, in order.
SampledSeqsOfDraft == 0 .. engine.maxSeqs - 1   \* mutant: not the committed one

SampledSeqs == 0 .. NSeqMax - 1

AttachSampler ==
  /\ pc = "scoring"
  /\ cfg.draft_scoring = "backend"
  /\ samplers # SampledSeqs
  /\ \/ /\ samplers' = samplers \cup {Cardinality(samplers)}
        /\ UNCHANGED <<pc, cfg, env, engine, live, pool, prompt, step>>
     \/ Dead /\ UNCHANGED live

SamplersAttached ==
  /\ pc = "scoring"
  /\ cfg.draft_scoring = "backend"
  /\ samplers = SampledSeqs
  /\ pc' = "context"
  /\ UNCHANGED <<cfg, env, engine, live, samplers, pool, prompt, step>>

CreateContext ==
  /\ pc = "context"
  /\ live' = live \cup {"ctx", "batch"}
  /\ pc' = "client"
  /\ UNCHANGED <<cfg, env, engine, samplers, pool, prompt, step>>

\* No context, a context without a memory, or fewer cells than max_len.  The
\* members already constructed are destroyed: that is only the thread pool.
CreateContextFails ==
  /\ pc = "context"
  /\ \E got \in {{}, {"ctx"}} : live' = (live \cup got) \ {"host_topk"}
  /\ Dead

-----------------------------------------------------------------------------
(* SpecExecClient *)

Admitted(len) == len + cfg.max_new_tokens <= cfg.max_len

ClientOk(len) ==
  /\ len \in 1 .. cfg.max_len
  /\ engine.treeMode
  /\ AllPositive({cfg.max_n_beams, cfg.max_beam_len, cfg.max_branch_width, cfg.max_budget})
  /\ cfg.proactive_type = "included" => cfg.pro_max_beam_len < cfg.max_beam_len

\* The first admitted request builds a client, which forgets whatever the cache
\* held; an exception unwinds to main() and closes the engine.
BuildClient ==
  /\ pc = "client"
  /\ \E len \in PromptLens :
       /\ Admitted(len)
       /\ IF ClientOk(len)
          THEN pc' = "running" /\ prompt' = len /\ pool' = 0 .. engine.maxSeqs - 1
          ELSE pc' = "closing" /\ UNCHANGED <<prompt, pool>>
  /\ UNCHANGED <<cfg, env, engine, live, samplers, step>>

\* The run ends, with or without having admitted a request.
EndRun ==
  /\ pc \in {"client", "running"}
  /\ pc' = "closing"
  /\ UNCHANGED <<cfg, env, engine, live, samplers, pool, prompt, step>>

\* close(): the order in which the engine's resources are freed.
CloseSamplersFirst == <<"batch", "samplers", "ctx", "host_topk", "model">>  \* mutant

CloseOrder == <<"batch", "ctx", "samplers", "host_topk", "model">>

Close ==
  /\ pc = "closing"
  /\ step < Len(CloseOrder)
  /\ step' = step + 1
  /\ IF CloseOrder[step + 1] = "samplers"
     THEN samplers' = {} /\ UNCHANGED live
     ELSE live' = live \ {CloseOrder[step + 1]} /\ UNCHANGED samplers
  /\ pc' = IF step' = Len(CloseOrder) THEN "closed" ELSE pc
  /\ UNCHANGED <<cfg, env, engine, pool, prompt>>

Done == pc \in {"dead", "closed"} /\ UNCHANGED vars

Next ==
  \/ LoadConfig \/ BuildEngine \/ LoadModel \/ LoadModelFails
  \/ StartHostTopK \/ AttachSampler \/ SamplersAttached
  \/ CreateContext \/ CreateContextFails
  \/ BuildClient \/ EndRun \/ Close \/ Done

Spec == Init /\ [][Next]_vars

-----------------------------------------------------------------------------
(* Properties *)

\* A client only ever runs with parameters the decoding round relies on (the
\* assumptions of SpecExec): rows wide enough for the proactive width, at least
\* one other sequence besides 0, no sequence beyond llama.cpp's cap, a committed
\* one that no draft can be handed, and a prompt that fits the tree; and a run
\* with a directory of its own logs into it, whatever environment it inherited.
RunningIsSound ==
  pc = "running" =>
    /\ AllPositive({cfg.max_n_beams, cfg.max_beam_len, cfg.max_branch_width,
                    cfg.max_budget, prompt})
    /\ cfg.proactive_type # "disabled" =>
         /\ AllPositive(ProactiveFields(cfg))
         /\ cfg.pro_max_branch_width <= engine.topK
    /\ cfg.proactive_type = "included" => cfg.pro_max_beam_len < cfg.max_beam_len
    /\ prompt <= cfg.max_len
    /\ {0, 1} \subseteq pool
    /\ engine.recurrent => engine.committed \in Nat \ pool
    /\ NSeqMax <= Cap /\ engine.committed < NSeqMax
    /\ cfg.named => engine.log \in {"none", LogDir}

\* With scoring on the backend, once a context exists every sequence a token
\* can be decoded on has a sampler: one without would make llama.cpp copy every
\* row's logits to the host.
SamplerOnEverySequence ==
  cfg.draft_scoring = "backend" /\ pc \in {"client", "running"} =>
    /\ 0 .. engine.maxSeqs - 1 \subseteq samplers
    /\ engine.recurrent => engine.committed \in samplers

\* The context borrows the model and the samplers: neither is freed while it is
\* alive, not even half-way through close().
BorrowedOutliveContext ==
  "ctx" \in live =>
    /\ "model" \in live
    /\ cfg.draft_scoring = "backend" => samplers # {}

\* A configuration that leaves max_seqs to be derived is never refused for it,
\* however narrow or wide the draft.
DerivedIsAccepted == ConfigOk(cfg) /\ cfg.max_seqs <= 0 => EngineOk(cfg)
=============================================================================
