--------------------------- MODULE StartupProofs ---------------------------
(***************************************************************************)
(* Start-up and shutdown for any configuration, any cap on the sequences   *)
(* and any model.                                                          *)
(*                                                                         *)
(* What a running client relies on was established several constructors    *)
(* earlier, and what close() must not free too early was allocated there:  *)
(* IInv carries each fact from the step that establishes it to the phase   *)
(* that needs it, one conjunct per origin.                                 *)
(***************************************************************************)
EXTENDS Startup, FiniteSetTheorems, TLAPS

\* The phases after each of the steps of start-up.
PastConfig  == {"engine", "model", "scoring", "context", "client", "running", "closing", "closed"}
PastEngine  == PastConfig \ {"engine"}
PastModel   == PastEngine \ {"model"}
PastScoring == PastModel \ {"scoring"}
PastContext == PastScoring \ {"context"}

Phases ==
  /\ pc \in PastConfig \cup {"config", "dead"}
  /\ cfg \in Configs
  /\ env \in {"unset", "stale", "run"}
  /\ pc \notin {"closing", "closed"} => step = 0
  /\ step \in 0 .. 5
  /\ pc = "closed" => step = 5

\* What load_config checked, and the directory it put into the environment.
ConfigChecked ==
  pc \in PastConfig => ConfigOk(cfg) /\ (cfg.named => env = "run")

\* What the engine's constructor checked, before the model was read.
EngineChecked ==
  pc \in PastEngine =>
    /\ engine.treeMode
    /\ engine.topK = cfg.max_branch_width
    /\ engine.maxSeqs \in 2 .. Cap
    /\ cfg.named => engine.log \in {"none", "run"}

EngineType == [maxSeqs : Int, treeMode : BOOLEAN, recurrent : BOOLEAN, committed : Int,
               nVocab : Nat, topK : Int, log : {"none", ".", "stale", "run"}]

\* A recurrent model has a sequence of its own, within the cap.
SequencesSized ==
  /\ engine \in EngineType
  /\ pc \in PastModel =>
       /\ engine.committed = IF engine.recurrent THEN engine.maxSeqs ELSE -1
       /\ NSeqMax <= Cap

\* The samplers are made in order, all of them before the context, and are freed
\* after it; a host top-k has none.
SamplersInOrder ==
  /\ pc \in {"config", "engine", "model"} => samplers = {}
  /\ pc = "scoring" => \E k \in 0 .. NSeqMax : samplers = 0 .. k - 1
  /\ pc \in PastScoring /\ step < 3 /\ cfg.draft_scoring = "backend" => samplers = SampledSeqs

\* The model outlives the context.
ContextInside ==
  /\ pc \in {"config", "engine", "model", "scoring", "context"} \/ step >= 2 => "ctx" \notin live
  /\ pc \in PastModel /\ step < 5 => "model" \in live
  /\ pc = "dead" /\ "ctx" \in live =>
       /\ "model" \in live
       /\ cfg.draft_scoring = "backend" => samplers # {}

\* What the SpecExecClient checked.
ClientChecked ==
  pc = "running" =>
    /\ prompt \in PromptLens /\ ClientOk(prompt)
    /\ pool = 0 .. engine.maxSeqs - 1

IInv == /\ Phases /\ ConfigChecked /\ EngineChecked /\ SequencesSized
        /\ SamplersInOrder /\ ContextInside /\ ClientChecked

-----------------------------------------------------------------------------
\* The integer fields of a configuration, one by one.
LEMMA FieldsAreInt ==
  ASSUME NEW c \in Configs
  PROVE  /\ c.max_len \in Int /\ c.max_new_tokens \in Int /\ c.max_seqs \in Int
         /\ c.max_n_beams \in Int /\ c.max_beam_len \in Int
         /\ c.max_branch_width \in Int /\ c.max_budget \in Int
         /\ c.pro_max_n_beams \in Int /\ c.pro_max_beam_len \in Int
         /\ c.pro_max_branch_width \in Int /\ c.pro_max_budget \in Int
BY ConfigAssumption

\* derive_max_seqs lands between two and the cap, whatever it is given.
LEMMA DerivedInRange ==
  ASSUME NEW c \in Configs
  PROVE  derive_max_seqs(c) \in 2 .. Cap
<1>1. Forks(c) \in Int
  <2> DEFINE a == c.max_beam_len * c.max_n_beams
             b == c.pro_max_beam_len * c.pro_max_n_beams
             x == a * (c.max_branch_width - 1)
             y == b * (c.pro_max_branch_width - 1)
  <2>1. a \in Int /\ b \in Int
    BY FieldsAreInt
  <2>2. x \in Int /\ y \in Int
    <3> HIDE DEF a, b
    <3> QED
      BY <2>1, FieldsAreInt
  <2>3. Forks(c) = 1 + x + IF c.proactive_type = "disabled" THEN 0 ELSE 1 + y
    BY DEF Forks
  <2> HIDE DEF x, y
  <2> QED
    BY <2>2, <2>3
<1> HIDE DEF Forks
<1> QED
  BY <1>1, StartupAssumption DEF derive_max_seqs, Clamp

\* A configuration that names no max_seqs passes the constructor's checks.
LEMMA DerivedFits ==
  ASSUME NEW c \in Configs, ConfigOk(c), c.max_seqs <= 0
  PROVE  EngineOk(c)
<1>1. MaxSeqsOf(c) = derive_max_seqs(c)
  BY FieldsAreInt DEF MaxSeqsOf
<1>2. MaxSeqsOf(c) \in 2 .. Cap
  BY <1>1, DerivedInRange
<1>3. c.max_branch_width >= 1 /\ c.max_n_beams >= 1
  BY DEF ConfigOk, AllPositive
<1>4. c.max_branch_width \in Int
  BY FieldsAreInt
<1> QED
  BY <1>2, <1>3, <1>4, StartupAssumption DEF EngineOk

\* The number of sequences with a sampler, when they were made in order.
LEMMA CountOfFirst ==
  ASSUME NEW k \in Nat
  PROVE  Cardinality(0 .. k - 1) = k
BY FS_Interval

\* The invariant holds before the configuration is read.
LEMMA InitIInv == Init => IInv
<1> SUFFICES ASSUME Init PROVE IInv
  OBVIOUS
<1>1. SequencesSized
  BY DEF Init, SequencesSized, EngineType, NoEngine, PastModel, PastEngine, PastConfig
<1> QED
  BY <1>1 DEF Init, IInv, Phases, ConfigChecked, EngineChecked, SamplersInOrder,
     ContextInside, ClientChecked, PastScoring, PastModel, PastEngine, PastConfig

\* Dying keeps the invariant when no context is left behind, or one whose model
\* and samplers are.
LEMMA DeadIInv ==
  ASSUME IInv, Dead, pc \notin {"closing", "closed"},
         "ctx" \in live' => "model" \in live' /\ (cfg.draft_scoring = "backend" => samplers # {})
  PROVE  IInv'
<1>1. SequencesSized'
  BY DEF IInv, SequencesSized, Dead, PastModel, PastEngine, PastConfig
<1>2. ContextInside'
  BY DEF IInv, Phases, ContextInside, Dead, PastModel, PastEngine, PastConfig
<1> QED
  BY <1>1, <1>2 DEF Dead, IInv, Phases, ConfigChecked, EngineChecked, SamplersInOrder,
     ClientChecked, PastScoring, PastModel, PastEngine, PastConfig

\* Accepting or refusing a configuration keeps the invariant.
LEMMA LoadConfigIInv == IInv /\ LoadConfig => IInv'
<1> SUFFICES ASSUME IInv, LoadConfig PROVE IInv'
  OBVIOUS
<1>1. CASE ~ConfigOk(cfg)
  BY <1>1, DeadIInv DEF LoadConfig, IInv, ContextInside
<1>2. CASE ConfigOk(cfg)
  <2>1. /\ pc = "config" /\ pc' = "engine" /\ env' = IF cfg.named THEN "run" ELSE env
        /\ UNCHANGED <<cfg, engine, live, samplers, pool, prompt, step>>
    BY <1>2 DEF LoadConfig
  <2>2. SequencesSized'
    BY <2>1 DEF IInv, SequencesSized, PastModel, PastEngine, PastConfig
  <2>3. ConfigChecked'
    BY <2>1, <1>2 DEF ConfigChecked, ConfigOk, ProactiveFields, AllPositive
  <2> QED
    BY <2>1, <2>2, <2>3 DEF IInv, Phases, EngineChecked, SamplersInOrder,
       ContextInside, ClientChecked, PastScoring, PastModel, PastEngine, PastConfig
<1> QED
  BY <1>1, <1>2

\* The checks at the head of the engine's constructor keep the invariant.
LEMMA BuildEngineIInv == IInv /\ BuildEngine => IInv'
<1> SUFFICES ASSUME IInv, BuildEngine PROVE IInv'
  OBVIOUS
<1>1. CASE ~EngineOk(cfg)
  BY <1>1, DeadIInv DEF BuildEngine, IInv, ContextInside
<1>2. CASE EngineOk(cfg)
  <2>1. /\ pc = "engine" /\ pc' = "model"
        /\ engine' = [engine EXCEPT !.maxSeqs = MaxSeqsOf(cfg),
                                    !.treeMode = MaxSeqsOf(cfg) > 1,
                                    !.topK = cfg.max_branch_width,
                                    !.log = IF cfg.forward_log THEN ForwardLog ELSE "none"]
        /\ UNCHANGED <<cfg, env, live, samplers, pool, prompt, step>>
    BY <1>2 DEF BuildEngine
  <2>2. MaxSeqsOf(cfg) \in 2 .. Cap
    BY <1>2, DerivedInRange, FieldsAreInt, StartupAssumption DEF EngineOk, MaxSeqsOf, IInv, Phases
  <2>a. (MaxSeqsOf(cfg) > 1) = TRUE /\ MaxSeqsOf(cfg) \in Int
    BY <2>2, StartupAssumption
  <2>b. cfg.max_branch_width \in Int
    BY FieldsAreInt DEF IInv, Phases
  <2>c. ForwardLog \in {".", "stale", "run"}
    BY DEF IInv, Phases, ForwardLog
  <2>d. engine' = [engine EXCEPT !.maxSeqs = MaxSeqsOf(cfg),
                                 !.treeMode = TRUE,
                                 !.topK = cfg.max_branch_width,
                                 !.log = IF cfg.forward_log THEN ForwardLog ELSE "none"]
    BY <2>1, <2>a
  <2>3. /\ engine' \in EngineType
        /\ engine'.treeMode = TRUE
        /\ engine'.topK = cfg.max_branch_width
        /\ engine'.maxSeqs = MaxSeqsOf(cfg)
        /\ engine'.log = IF cfg.forward_log THEN ForwardLog ELSE "none"
    BY <2>a, <2>b, <2>c, <2>d DEF IInv, SequencesSized, EngineType
  <2>4. cfg.named => engine'.log \in {"none", "run"}
    BY <2>1, <2>3 DEF IInv, ConfigChecked, ForwardLog, PastConfig
  <2>5. EngineChecked'
    BY <2>1, <2>2, <2>3, <2>4 DEF EngineChecked
  <2>6. SequencesSized'
    BY <2>1, <2>3 DEF IInv, SequencesSized, PastModel
  <2>7. ConfigChecked'
    BY <2>1 DEF IInv, ConfigChecked, PastConfig
  <2> QED
    BY <2>1, <2>5, <2>6, <2>7 DEF IInv, Phases, SamplersInOrder,
       ContextInside, ClientChecked, PastScoring, PastModel, PastEngine, PastConfig
<1> QED
  BY <1>1, <1>2

\* Loading the model and settling the sequence count keeps the invariant.
LEMMA LoadModelIInv == IInv /\ LoadModel => IInv'
<1> SUFFICES ASSUME IInv, LoadModel PROVE IInv'
  OBVIOUS
<1> USE DEF IInv
<1>1. pc = "model" /\ pc' = "scoring" /\ live' = live \cup {"model"}
      /\ UNCHANGED <<cfg, env, samplers, pool, prompt, step>>
  BY DEF LoadModel
<1>2. PICK rec \in BOOLEAN, nv \in Vocabs :
        LET maxSeqs == IF rec /\ engine.treeMode
                       THEN LowerForCommitted(engine.maxSeqs) ELSE engine.maxSeqs
        IN engine' = [engine EXCEPT
             !.nVocab = nv,
             !.recurrent = rec,
             !.maxSeqs = maxSeqs,
             !.committed = IF rec /\ engine.treeMode THEN maxSeqs ELSE -1]
  BY DEF LoadModel
<1>3. engine.treeMode /\ engine.maxSeqs \in 2 .. Cap
  BY <1>1 DEF EngineChecked, PastEngine, PastConfig
<1> DEFINE ms == IF rec THEN LowerForCommitted(engine.maxSeqs) ELSE engine.maxSeqs
           co == IF rec THEN ms ELSE -1
<1>4. engine' = [engine EXCEPT !.nVocab = nv, !.recurrent = rec,
                               !.maxSeqs = ms, !.committed = co]
  BY <1>2, <1>3
<1>5. ms \in 2 .. Cap /\ (rec => ms + 1 <= Cap) /\ co \in Int /\ (co >= 0 <=> rec)
  BY <1>3, StartupAssumption DEF LowerForCommitted
<1>6. nv \in Nat
  BY StartupAssumption
<1> HIDE DEF ms
<1>7. /\ engine' \in EngineType
      /\ engine'.treeMode = engine.treeMode /\ engine'.topK = engine.topK
      /\ engine'.log = engine.log
      /\ engine'.recurrent = rec /\ engine'.maxSeqs = ms /\ engine'.committed = co
  <2> HIDE DEF co
  <2>1. engine \in EngineType
    BY DEF SequencesSized
  <2>2. ms \in Int /\ co \in Int
    BY <1>5, StartupAssumption
  <2>3. engine' \in EngineType
    BY <1>4, <1>6, <2>1, <2>2 DEF EngineType
  <2>4. /\ engine'.treeMode = engine.treeMode /\ engine'.topK = engine.topK
        /\ engine'.log = engine.log
        /\ engine'.maxSeqs = ms /\ engine'.committed = co
    BY <1>4, <2>1 DEF EngineType
  <2>5. engine'.recurrent = rec
    BY <1>4, <2>1, Zenon DEF EngineType
  <2> QED
    BY <2>3, <2>4, <2>5
<1>8. EngineChecked'
  BY <1>1, <1>5, <1>7 DEF EngineChecked, PastEngine, PastConfig
<1>9. SequencesSized'
  <2>1. NSeqMax' = IF rec THEN ms + 1 ELSE ms
    BY <1>5, <1>7 DEF NSeqMax
  <2>2. NSeqMax' <= Cap
    BY <1>5, <2>1, StartupAssumption
  <2>3. engine'.committed = IF engine'.recurrent THEN engine'.maxSeqs ELSE -1
    BY <1>7
  <2> QED
    BY <2>2, <2>3, <1>7 DEF SequencesSized
<1>10. SamplersInOrder'
  <2>1. NSeqMax' \in Nat
    BY <1>5, <1>7, StartupAssumption DEF NSeqMax
  <2>2. samplers' = 0 .. 0 - 1
    BY <1>1 DEF SamplersInOrder
  <2> QED
    BY <1>1, <2>1, <2>2 DEF SamplersInOrder, PastScoring
<1>11. ContextInside'
  BY <1>1 DEF Phases, ContextInside
<1> QED
  BY <1>1, <1>8, <1>9, <1>10, <1>11
     DEF Phases, ConfigChecked, ClientChecked, PastConfig

\* A model that does not load keeps the invariant.
LEMMA LoadModelFailsIInv == IInv /\ LoadModelFails => IInv'
<1> SUFFICES ASSUME IInv, LoadModelFails PROVE IInv'
  OBVIOUS
<1>1. pc = "model" /\ Dead /\ "ctx" \notin live'
  BY DEF LoadModelFails, IInv, ContextInside
<1> QED
  BY <1>1, DeadIInv

\* Starting the host pool keeps the invariant.
LEMMA HostTopKIInv == IInv /\ StartHostTopK => IInv'
<1> SUFFICES ASSUME IInv, StartHostTopK PROVE IInv'
  OBVIOUS
<1>1. CASE ~(engine.topK <= engine.nVocab)
  BY <1>1, DeadIInv DEF StartHostTopK, IInv, ContextInside
<1>2. CASE engine.topK <= engine.nVocab
  <2>1. pc = "scoring" /\ pc' = "context" /\ live' = live \cup {"host_topk"}
        /\ cfg.draft_scoring = "host"
        /\ UNCHANGED <<cfg, env, engine, samplers, pool, prompt, step>>
    BY <1>2 DEF StartHostTopK
  <2>2. SequencesSized'
    BY <2>1 DEF IInv, SequencesSized, NSeqMax, PastModel, PastEngine, PastConfig
  <2>3. ConfigChecked' /\ EngineChecked' /\ ClientChecked'
    BY <2>1 DEF IInv, ConfigChecked, EngineChecked, ClientChecked, PastEngine, PastConfig
  <2>4. SamplersInOrder' /\ ContextInside' /\ Phases'
    BY <2>1 DEF IInv, Phases, SamplersInOrder, ContextInside, PastScoring, PastModel,
       PastEngine, PastConfig
  <2> QED
    BY <2>2, <2>3, <2>4 DEF IInv
<1> QED
  BY <1>1, <1>2

\* The next sampler goes to the next sequence.
LEMMA AttachSamplerIInv == IInv /\ AttachSampler => IInv'
<1> SUFFICES ASSUME IInv, AttachSampler PROVE IInv'
  OBVIOUS
<1>1. CASE Dead /\ UNCHANGED live
  BY <1>1, DeadIInv DEF AttachSampler, IInv, ContextInside
<1>2. CASE ~(Dead /\ UNCHANGED live)
  <2>1. /\ pc = "scoring" /\ samplers # SampledSeqs
        /\ samplers' = samplers \cup {Cardinality(samplers)}
        /\ UNCHANGED <<pc, cfg, env, engine, live, pool, prompt, step>>
    BY <1>2 DEF AttachSampler
  <2>2. NSeqMax \in Nat /\ NSeqMax' = NSeqMax
    BY <2>1, StartupAssumption DEF IInv, EngineChecked, SequencesSized, EngineType, NSeqMax, PastEngine, PastConfig
  <2>3. PICK k \in 0 .. NSeqMax : samplers = 0 .. k - 1
    BY <2>1 DEF IInv, SamplersInOrder
  <2>4. k # NSeqMax /\ Cardinality(samplers) = k
    BY <2>1, <2>2, <2>3, CountOfFirst DEF SampledSeqs
  <2>5. samplers' = 0 .. (k + 1) - 1 /\ k + 1 \in 0 .. NSeqMax
    BY <2>1, <2>2, <2>3, <2>4
  <2>6. SamplersInOrder'
    BY <2>1, <2>2, <2>5 DEF SamplersInOrder, PastScoring
  <2>7. SequencesSized'
    BY <2>1 DEF IInv, SequencesSized, NSeqMax
  <2> QED
    BY <2>1, <2>6, <2>7 DEF IInv, Phases, ConfigChecked, EngineChecked, ContextInside,
       ClientChecked, PastModel, PastEngine, PastConfig
<1> QED
  BY <1>1, <1>2

\* The last sampler attached keeps the invariant.
LEMMA SamplersAttachedIInv == IInv /\ SamplersAttached => IInv'
<1> SUFFICES ASSUME IInv, SamplersAttached PROVE IInv'
  OBVIOUS
<1>1. /\ pc = "scoring" /\ pc' = "context" /\ samplers = SampledSeqs
      /\ UNCHANGED <<cfg, env, engine, live, samplers, pool, prompt, step>>
  BY DEF SamplersAttached
<1>2. SequencesSized'
  BY <1>1 DEF IInv, SequencesSized, NSeqMax, PastModel, PastEngine, PastConfig
<1>3. SamplersInOrder'
  BY <1>1 DEF SamplersInOrder, SampledSeqs, NSeqMax
<1> QED
  BY <1>1, <1>2, <1>3 DEF IInv, Phases, ConfigChecked, EngineChecked, ContextInside,
     ClientChecked, PastModel, PastEngine, PastConfig

\* Once the samplers are made there is one of them at least.
LEMMA SomeSampler ==
  ASSUME IInv, pc \in PastScoring, step < 3, cfg.draft_scoring = "backend"
  PROVE  samplers # {}
<1>1. NSeqMax \in Nat /\ NSeqMax > 0
  BY StartupAssumption DEF IInv, EngineChecked, SequencesSized, EngineType, NSeqMax,
     PastScoring, PastModel
<1>2. 0 \in SampledSeqs
  BY <1>1 DEF SampledSeqs
<1> QED
  BY <1>2 DEF IInv, SamplersInOrder

\* Creating the context keeps the invariant.
LEMMA CreateContextIInv == IInv /\ CreateContext => IInv'
<1> SUFFICES ASSUME IInv, CreateContext PROVE IInv'
  OBVIOUS
<1>1. /\ pc = "context" /\ pc' = "client" /\ live' = live \cup {"ctx", "batch"}
      /\ UNCHANGED <<cfg, env, engine, samplers, pool, prompt, step>>
  BY DEF CreateContext
<1>2. SequencesSized'
  BY <1>1 DEF IInv, SequencesSized, NSeqMax, PastModel, PastEngine, PastConfig
<1>3. SamplersInOrder'
  BY <1>1 DEF IInv, SamplersInOrder, SampledSeqs, NSeqMax, PastScoring, PastModel,
     PastEngine, PastConfig
<1>4. ContextInside'
  BY <1>1 DEF IInv, Phases, ContextInside, PastModel, PastEngine, PastConfig
<1> QED
  BY <1>1, <1>2, <1>3, <1>4 DEF IInv, Phases, ConfigChecked, EngineChecked,
     ClientChecked, PastEngine, PastConfig

\* An exception after the context was created leaves the model and the samplers.
LEMMA CreateContextFailsIInv == IInv /\ CreateContextFails => IInv'
<1> SUFFICES ASSUME IInv, CreateContextFails PROVE IInv'
  OBVIOUS
<1>1. pc = "context" /\ Dead /\ step = 0
  BY DEF CreateContextFails, IInv, Phases
<1>2. "model" \in live'
  BY <1>1 DEF CreateContextFails, IInv, ContextInside, PastModel, PastEngine, PastConfig
<1>3. cfg.draft_scoring = "backend" => samplers # {}
  BY <1>1, SomeSampler DEF PastScoring, PastModel, PastEngine, PastConfig
<1> QED
  BY <1>1, <1>2, <1>3, DeadIInv

\* The first admitted request, refused or built.
LEMMA BuildClientIInv == IInv /\ BuildClient => IInv'
<1> SUFFICES ASSUME IInv, BuildClient PROVE IInv'
  OBVIOUS
<1>1. /\ pc = "client" /\ pc' \in {"running", "closing"}
      /\ UNCHANGED <<cfg, env, engine, live, samplers, step>>
  BY DEF BuildClient
<1>2. ClientChecked'
  <2> SUFFICES ASSUME pc' = "running" PROVE /\ prompt' \in PromptLens /\ ClientOk(prompt)'
                                            /\ pool' = 0 .. engine'.maxSeqs - 1
    BY DEF ClientChecked
  <2>1. PICK len \in PromptLens :
          ClientOk(len) /\ prompt' = len /\ pool' = 0 .. engine.maxSeqs - 1
    BY DEF BuildClient
  <2> QED
    BY <1>1, <2>1 DEF ClientOk, AllPositive
<1>3. SequencesSized'
  BY <1>1 DEF IInv, SequencesSized, NSeqMax, PastModel, PastEngine, PastConfig
<1>4. SamplersInOrder'
  BY <1>1 DEF IInv, SamplersInOrder, SampledSeqs, NSeqMax, PastScoring, PastModel,
     PastEngine, PastConfig
<1>5. ContextInside' /\ Phases'
  BY <1>1 DEF IInv, Phases, ContextInside, PastModel, PastEngine, PastConfig
<1>6. ConfigChecked' /\ EngineChecked'
  BY <1>1 DEF IInv, ConfigChecked, EngineChecked, PastEngine, PastConfig
<1> QED
  BY <1>2, <1>3, <1>4, <1>5, <1>6 DEF IInv

\* The end of a run, which begins to close the engine, keeps the invariant.
LEMMA EndRunIInv == IInv /\ EndRun => IInv'
<1> SUFFICES ASSUME IInv, EndRun PROVE IInv'
  OBVIOUS
<1>1. /\ pc \in {"client", "running"} /\ pc' = "closing"
      /\ UNCHANGED <<cfg, env, engine, live, samplers, pool, prompt, step>>
  BY DEF EndRun
<1>2. SequencesSized'
  BY <1>1 DEF IInv, SequencesSized, NSeqMax, PastModel, PastEngine, PastConfig
<1>3. SamplersInOrder'
  BY <1>1 DEF IInv, SamplersInOrder, SampledSeqs, NSeqMax, PastScoring, PastModel,
     PastEngine, PastConfig
<1> QED
  BY <1>1, <1>2, <1>3 DEF IInv, Phases, ContextInside, ConfigChecked, EngineChecked,
     ClientChecked, PastModel, PastEngine, PastConfig

\* close() frees the context before what it borrows.
LEMMA CloseIInv == IInv /\ Close => IInv'
<1> SUFFICES ASSUME IInv, Close PROVE IInv'
  OBVIOUS
<1>1. /\ pc = "closing" /\ step \in 0 .. 4 /\ step' = step + 1
      /\ pc' = IF step' = 5 THEN "closed" ELSE "closing"
      /\ UNCHANGED <<cfg, env, engine, pool, prompt>>
  BY DEF Close, CloseOrder, IInv, Phases
<1>2. /\ step = 0 => live' = live \ {"batch"} /\ samplers' = samplers
      /\ step = 1 => live' = live \ {"ctx"} /\ samplers' = samplers
      /\ step = 2 => live' = live /\ samplers' = {}
      /\ step = 3 => live' = live \ {"host_topk"} /\ samplers' = samplers
      /\ step = 4 => live' = live \ {"model"} /\ samplers' = samplers
  BY DEF Close, CloseOrder
<1>3. ContextInside'
  BY <1>1, <1>2 DEF IInv, Phases, ContextInside, PastModel, PastEngine, PastConfig
<1>4. SamplersInOrder'
  BY <1>1, <1>2 DEF IInv, SamplersInOrder, SampledSeqs, NSeqMax, PastScoring, PastModel,
     PastEngine, PastConfig
<1>5. SequencesSized'
  BY <1>1 DEF IInv, SequencesSized, NSeqMax, PastModel, PastEngine, PastConfig
<1> QED
  BY <1>1, <1>3, <1>4, <1>5 DEF IInv, Phases, ConfigChecked, EngineChecked,
     ClientChecked, PastEngine, PastConfig

\* IInv is inductive.
LEMMA NextIInv == IInv /\ [Next]_vars => IInv'
<1>1. IInv /\ UNCHANGED vars => IInv'
  <2> SUFFICES ASSUME IInv, UNCHANGED vars PROVE IInv'
    OBVIOUS
  <2>1. SequencesSized' /\ SamplersInOrder'
    BY DEF IInv, vars, SequencesSized, SamplersInOrder, SampledSeqs, NSeqMax
  <2> QED
    BY <2>1 DEF IInv, vars, Phases, ConfigChecked, EngineChecked, ContextInside,
       ClientChecked, ClientOk, AllPositive
<1> QED
  BY <1>1, LoadConfigIInv, BuildEngineIInv, LoadModelIInv, LoadModelFailsIInv, HostTopKIInv,
     AttachSamplerIInv, SamplersAttachedIInv, CreateContextIInv, CreateContextFailsIInv,
     BuildClientIInv, EndRunIInv, CloseIInv DEF Next, Done

\* The inductive invariant always holds.
LEMMA AlwaysIInv == Spec => []IInv
BY InitIInv, NextIInv, PTL DEF Spec

-----------------------------------------------------------------------------
\* Whatever configuration, environment and model it was given, a client that
\* runs has the parameters the decoding round relies on.
THEOREM RunsSoundly == Spec => []RunningIsSound
<1>1. IInv => RunningIsSound
  <2> SUFFICES ASSUME IInv, pc = "running" PROVE RunningIsSound
    BY DEF RunningIsSound
  <2> USE DEF IInv
  <2>1. /\ ConfigOk(cfg) /\ (cfg.named => env = "run")
        /\ engine.topK = cfg.max_branch_width
        /\ engine.maxSeqs \in 2 .. Cap
        /\ cfg.named => engine.log \in {"none", "run"}
    BY DEF ConfigChecked, EngineChecked, PastEngine, PastConfig
  <2>2. /\ engine.committed = IF engine.recurrent THEN engine.maxSeqs ELSE -1
        /\ NSeqMax <= Cap
    BY DEF SequencesSized, PastModel, PastEngine, PastConfig
  <2>3. prompt \in PromptLens /\ ClientOk(prompt) /\ pool = 0 .. engine.maxSeqs - 1
    BY DEF ClientChecked
  <2>4. AllPositive({cfg.max_n_beams, cfg.max_beam_len, cfg.max_branch_width,
                     cfg.max_budget, prompt})
    <3>1. AllPositive({cfg.max_n_beams, cfg.max_beam_len, cfg.max_branch_width, cfg.max_budget})
      BY <2>1 DEF ConfigOk
    <3>2. prompt >= 1
      BY <2>3, StartupAssumption
    <3> QED
      BY <3>1, <3>2 DEF AllPositive
  <2>5. {0, 1} \subseteq pool /\ (engine.recurrent => engine.committed \in Nat \ pool)
    BY <2>1, <2>2, <2>3, StartupAssumption
  <2>6. engine.committed < NSeqMax
    BY <2>1, <2>2, StartupAssumption DEF NSeqMax
  <2>7. prompt <= cfg.max_len
    BY <2>3, FieldsAreInt DEF ClientOk, Phases
  <2> QED
    BY <2>1, <2>2, <2>3, <2>4, <2>5, <2>6, <2>7
       DEF RunningIsSound, ConfigOk, ClientOk, LogDir
<1> QED
  BY <1>1, AlwaysIInv, PTL

\* With scoring on the backend no sequence a token can be decoded on is left
\* without a sampler, the committed one of a recurrent model included.
THEOREM EverySequenceSampled == Spec => []SamplerOnEverySequence
<1>1. IInv => SamplerOnEverySequence
  <2> SUFFICES ASSUME IInv, cfg.draft_scoring = "backend", pc \in {"client", "running"}
               PROVE  /\ 0 .. engine.maxSeqs - 1 \subseteq samplers
                      /\ engine.recurrent => engine.committed \in samplers
    BY DEF SamplerOnEverySequence
  <2>1. samplers = 0 .. NSeqMax - 1
    BY DEF IInv, Phases, SamplersInOrder, SampledSeqs, PastScoring, PastModel, PastEngine,
       PastConfig
  <2>2. /\ engine.maxSeqs \in 2 .. Cap
        /\ engine.committed = IF engine.recurrent THEN engine.maxSeqs ELSE -1
    BY DEF IInv, EngineChecked, SequencesSized, PastModel, PastEngine, PastConfig
  <2> QED
    BY <2>1, <2>2, StartupAssumption DEF NSeqMax
<1> QED
  BY <1>1, AlwaysIInv, PTL

\* The context never outlives the model or the samplers it borrows, wherever
\* start-up fails and however far close() has come.
THEOREM ContextNeverDangles == Spec => []BorrowedOutliveContext
<1>1. IInv => BorrowedOutliveContext
  <2> SUFFICES ASSUME IInv, "ctx" \in live
               PROVE  /\ "model" \in live
                      /\ cfg.draft_scoring = "backend" => samplers # {}
    BY DEF BorrowedOutliveContext
  <2>1. CASE pc = "dead"
    BY <2>1 DEF IInv, ContextInside
  <2>2. CASE pc # "dead"
    <3>1. pc \in PastContext /\ step \in 0 .. 1
      BY <2>2 DEF IInv, Phases, ContextInside, PastContext, PastScoring, PastModel,
         PastEngine, PastConfig
    <3> QED
      BY <3>1, SomeSampler DEF IInv, ContextInside, PastContext, PastScoring
  <2> QED
    BY <2>1, <2>2
<1> QED
  BY <1>1, AlwaysIInv, PTL

\* derive_max_seqs never produces a max_seqs that the engine refuses.
THEOREM DerivedNeverRefused == Spec => []DerivedIsAccepted
<1>1. IInv => DerivedIsAccepted
  BY DerivedFits DEF IInv, Phases, DerivedIsAccepted
<1> QED
  BY <1>1, AlwaysIInv, PTL
=============================================================================
