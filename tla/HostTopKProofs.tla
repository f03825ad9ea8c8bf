--------------------------- MODULE HostTopKProofs ---------------------------
(***************************************************************************)
(* Safety of HostTopK's thread pool for any number of threads and calls.   *)
(*                                                                         *)
(* The properties are not inductive: a partial result is fresh at the merge*)
(* because its worker reported, it reported because pending_ is 0, and     *)
(* pending_ counts the workers that owe the current job.  IInv ties the    *)
(* count, the job each thread works on and the caller's phase together.    *)
(***************************************************************************)
EXTENDS HostTopK, FiniteSetTheorems, TLAPS

\* A job is out from the moment it is published until the wait for the workers
\* is over.
JobOut == main \in {"notify", "scan", "store", "test", "asleep"}

RowsFollowMain ==
  /\ JobOut => rows = generation /\ generation # 0
  /\ ~JobOut => pending = 0 /\ rows = NoRows

\* A worker inside its loop body works on the current job, and its partial
\* result is fresh from the store until the next job is published.
WorkerHasJob ==
  /\ \A w \in Workers : wpc[w] \in {"scan", "store", "finish"} => seen[w] = generation
  /\ \A w \in Workers : wpc[w] = "store" => job[w] = generation
  /\ \A w \in Workers : wpc[w] = "finish" \/ w \notin Owing => partials[w] = generation

MainHasJob ==
  /\ main = "store" => job[0] = generation
  /\ main \in {"test", "asleep", "merge"} => partials[0] = generation

IInv == TypeOK /\ PendingCountsOwing /\ RowsFollowMain /\ WorkerHasJob /\ MainHasJob

-----------------------------------------------------------------------------
\* The workers are finitely many, NThreads - 1 of them, and so are those of
\* them that owe a job.
LEMMA WorkersFinite ==
  /\ IsFiniteSet(Workers)
  /\ Cardinality(Workers) = NThreads - 1
<1>1. NThreads - 1 \in Nat
  BY PoolAssumption
<1> QED
  BY <1>1, FS_Interval, PoolAssumption DEF Workers

\* Only finitely many workers can owe a result.
LEMMA OwingFinite == IsFiniteSet(Owing)
BY WorkersFinite, FS_Subset DEF Owing

\* Between jobs nobody owes anything.
LEMMA QuietOwesNothing ==
  ASSUME PendingCountsOwing, pending = 0
  PROVE  Owing = {}
BY OwingFinite, FS_EmptySet DEF PendingCountsOwing

\* The inductive invariant holds of a new pool.
LEMMA InitIInv == Init => IInv
<1> SUFFICES ASSUME Init PROVE IInv
  OBVIOUS
<1>1. Owing = {}
  BY DEF Init, Owing
<1>2. PendingCountsOwing
  BY <1>1, FS_EmptySet DEF Init, PendingCountsOwing
<1>3. TypeOK
  <2>1. 0 \in Chunks
    BY PoolAssumption DEF Chunks
  <2>2. stop \in BOOLEAN
    BY DEF Init
  <2> QED
    BY <2>1, <2>2 DEF Init, TypeOK, NoRows
<1>4. RowsFollowMain /\ WorkerHasJob /\ MainHasJob
  BY DEF Init, RowsFollowMain, JobOut, WorkerHasJob, MainHasJob, NoRows, Workers, Chunks
<1> QED
  BY <1>2, <1>3, <1>4 DEF IInv

-----------------------------------------------------------------------------
\* What a step of the calling thread other than RunPublish does to the debts:
\* nothing.
LEMMA OwingKept ==
  ASSUME UNCHANGED <<generation, seen>>,
         \A w \in Workers : wpc'[w] \in {"scan", "store", "finish"}
                           <=> wpc[w] \in {"scan", "store", "finish"}
  PROVE  Owing' = Owing
BY DEF Owing

\* Publishing a job puts every worker in debt.
LEMMA PublishIInv == IInv /\ RunPublish => IInv'
<1> SUFFICES ASSUME IInv, RunPublish PROVE IInv'
  OBVIOUS
<1> USE DEF IInv
<1>1. pending = 0 /\ Owing = {}
  BY QuietOwesNothing DEF RowsFollowMain, JobOut, RunPublish
<1>2. \A w \in Workers : seen[w] = generation /\ wpc[w] \notin {"scan", "store", "finish"}
  BY <1>1 DEF Owing
<1>3. Owing' = Workers
  BY <1>2 DEF Owing, RunPublish, TypeOK
<1>4. PendingCountsOwing'
  BY <1>3, WorkersFinite DEF RunPublish, PendingCountsOwing
<1>5. TypeOK'
  BY PoolAssumption DEF RunPublish, TypeOK, Chunks
<1>6. RowsFollowMain'
  BY DEF RunPublish, RowsFollowMain, JobOut, TypeOK
<1>7. WorkerHasJob'
  BY <1>2, <1>3 DEF RunPublish, WorkerHasJob
<1>8. MainHasJob'
  BY DEF RunPublish, MainHasJob
<1> QED
  BY <1>4, <1>5, <1>6, <1>7, <1>8

\* The other steps of Run() and the destructor.
LEMMA CallerIInv ==
  ASSUME IInv,
         \/ RunResize \/ RunNotify \/ RunScan \/ RunStore \/ RunTest
         \/ RunSpurious \/ RunMerge \/ Dtor
  PROVE  IInv'
<1> USE DEF IInv
<1>1. /\ UNCHANGED <<generation, pending, seen>>
      /\ \A w \in Workers : wpc'[w] = wpc[w] \/ (wpc[w] = "asleep" /\ wpc'[w] = "test")
  BY DEF RunResize, RunNotify, RunScan, RunStore, RunTest, RunSpurious, RunMerge,
         Dtor, DtorStop, DtorNotify, DtorJoin, WakeAll, TypeOK
<1>2. Owing' = Owing
  BY <1>1, OwingKept
<1>3. PendingCountsOwing'
  BY <1>1, <1>2 DEF PendingCountsOwing
<1>4. TypeOK'
  <2>0. 0 \in Chunks
    BY PoolAssumption DEF Chunks
  <2>1. CASE RunScan \/ RunStore
    BY <2>0, <2>1 DEF RunScan, RunStore, TypeOK
  <2>2. CASE RunNotify \/ DtorNotify
    BY <2>2 DEF RunNotify, DtorNotify, WakeAll, TypeOK
  <2>3. CASE RunResize \/ RunTest \/ RunSpurious \/ RunMerge \/ DtorJoin
    BY <2>3 DEF RunResize, RunTest, RunSpurious, RunMerge, DtorJoin, TypeOK, NoRows
  <2>4. CASE DtorStop
    <3>1. stop' \in BOOLEAN
      BY <2>4 DEF DtorStop
    <3> QED
      BY <2>4, <3>1 DEF DtorStop, TypeOK
  <2> QED
    BY <2>1, <2>2, <2>3, <2>4 DEF Dtor
<1>5. RowsFollowMain'
  BY DEF RunResize, RunNotify, RunScan, RunStore, RunTest, RunSpurious, RunMerge,
         Dtor, DtorStop, DtorNotify, DtorJoin, RowsFollowMain, JobOut
<1>6. WorkerHasJob'
  <2>1. \A w \in Workers : job'[w] = job[w] /\ partials'[w] = partials[w]
    <3>1. CASE RunScan \/ RunStore
      BY <3>1, \A w \in Workers : w \in Chunks /\ w # 0
         DEF RunScan, RunStore, TypeOK, Workers, Chunks
    <3>2. CASE ~(RunScan \/ RunStore)
      BY <3>2 DEF RunResize, RunNotify, RunTest, RunSpurious, RunMerge, Dtor, DtorStop,
                  DtorNotify, DtorJoin
    <3> QED
      BY <3>1, <3>2
  <2> QED
    BY <1>1, <1>2, <2>1 DEF WorkerHasJob
<1>7. MainHasJob'
  BY PoolAssumption DEF RunResize, RunNotify, RunScan, RunStore, RunTest, RunSpurious,
     RunMerge, Dtor, DtorStop, DtorNotify, DtorJoin, MainHasJob, RowsFollowMain,
     JobOut, TypeOK, Chunks
<1> QED
  BY <1>3, <1>4, <1>5, <1>6, <1>7

\* The steps of a worker before it reports leave the debts as they are.
LEMMA WorkerIInv ==
  ASSUME IInv, NEW w \in Workers,
         WorkerTest(w) \/ WorkerSpurious(w) \/ WorkerScan(w) \/ WorkerStore(w)
  PROVE  IInv'
<1> USE DEF IInv
<1>0. w \in Chunks /\ w # 0
  BY DEF Workers, Chunks
<1>1. UNCHANGED <<generation, pending, stop, rows, main>>
  BY DEF WorkerTest, WorkerSpurious, WorkerScan, WorkerStore
<1>2. TypeOK'
  BY <1>0 DEF WorkerTest, WorkerSpurious, WorkerScan, WorkerStore, Goto, TypeOK
<1>3. Owing' = Owing
  <2>1. \A v \in Workers \ {w} : wpc'[v] = wpc[v] /\ seen'[v] = seen[v]
    BY DEF WorkerTest, WorkerSpurious, WorkerScan, WorkerStore, Goto, TypeOK
  <2>2. w \in Owing' <=> w \in Owing
    <3>1. CASE WorkerTest(w)
      BY <3>1 DEF WorkerTest, Goto, TypeOK, Owing
    <3>2. CASE WorkerSpurious(w) \/ WorkerScan(w) \/ WorkerStore(w)
      BY <3>2 DEF WorkerSpurious, WorkerScan, WorkerStore, Goto, TypeOK, Owing
    <3> QED
      BY <3>1, <3>2
  <2> QED
    BY <1>1, <2>1, <2>2 DEF Owing
<1>4. (JobOut /\ rows = generation) \/ wpc[w] # "scan"
  <2>1. CASE pending = 0
    BY <2>1, QuietOwesNothing DEF Owing
  <2>2. CASE pending # 0
    BY <2>2 DEF RowsFollowMain
  <2> QED
    BY <2>1, <2>2
<1>5. WorkerHasJob'
  <2> DEFINE Fresh(v) ==
        /\ wpc[v] \in {"scan", "store", "finish"} => seen[v] = generation
        /\ wpc[v] = "store" => job[v] = generation
        /\ wpc[v] = "finish" \/ v \notin Owing => partials[v] = generation
  <2>1. \A v \in Workers : Fresh(v)
    BY DEF WorkerHasJob
  <2>2. ASSUME NEW v \in Workers, v # w PROVE Fresh(v)'
    <3>1. /\ wpc'[v] = wpc[v] /\ seen'[v] = seen[v]
          /\ job'[v] = job[v] /\ partials'[v] = partials[v]
      <4>1. v \in Chunks
        BY DEF Workers, Chunks
      <4>2. CASE WorkerTest(w) \/ WorkerSpurious(w)
        BY <4>2, <2>2 DEF WorkerTest, WorkerSpurious, Goto, TypeOK
      <4>3. CASE WorkerScan(w) \/ WorkerStore(w)
        BY <4>3, <1>0, <4>1, <2>2 DEF WorkerScan, WorkerStore, Goto, TypeOK
      <4> QED
        BY <4>2, <4>3
    <3> QED
      BY <1>1, <1>3, <2>1, <2>2, <3>1
  <2>3. Fresh(w)'
    <3> HIDE DEF Fresh
    <3>1. CASE WorkerTest(w)
      BY <3>1, <1>1, <1>3, <2>1 DEF WorkerTest, Goto, TypeOK, Fresh
    <3>2. CASE WorkerSpurious(w)
      BY <3>2, <1>1, <1>3, <2>1 DEF WorkerSpurious, Goto, TypeOK, Fresh
    <3>3. CASE WorkerScan(w)
      BY <3>3, <1>0, <1>1, <1>3, <1>4, <2>1 DEF WorkerScan, Goto, TypeOK, Fresh, Owing
    <3>4. CASE WorkerStore(w)
      BY <3>4, <1>0, <1>1, <1>3, <2>1 DEF WorkerStore, Goto, TypeOK, Fresh
    <3> QED
      BY <3>1, <3>2, <3>3, <3>4
  <2> QED
    BY <2>2, <2>3 DEF WorkerHasJob
<1>6. MainHasJob'
  BY <1>0, <1>1, PoolAssumption
     DEF WorkerTest, WorkerSpurious, WorkerScan, WorkerStore, TypeOK, MainHasJob, Chunks
<1>7. PendingCountsOwing' /\ RowsFollowMain'
  BY <1>1, <1>3 DEF PendingCountsOwing, RowsFollowMain, JobOut
<1> QED
  BY <1>2, <1>5, <1>6, <1>7

\* Reporting pays the debt of one worker.
LEMMA FinishIInv ==
  ASSUME IInv, NEW w \in Workers, WorkerFinish(w)
  PROVE  IInv'
<1> USE DEF IInv
<1>1. w \in Owing /\ seen[w] = generation
  BY DEF WorkerFinish, Owing, WorkerHasJob
<1>2. Owing' = Owing \ {w}
  BY <1>1 DEF WorkerFinish, Owing, Goto, TypeOK
<1>3. Cardinality(Owing') = Cardinality(Owing) - 1
  BY <1>1, <1>2, OwingFinite, FS_RemoveElement
<1>4. PendingCountsOwing'
  BY <1>3 DEF WorkerFinish, PendingCountsOwing
<1>5. pending # 0
  BY <1>1, QuietOwesNothing
<1>6. TypeOK'
  BY <1>5, PoolAssumption DEF WorkerFinish, Goto, TypeOK, Chunks
<1>7. RowsFollowMain'
  BY <1>5 DEF WorkerFinish, RowsFollowMain, JobOut
<1>8. WorkerHasJob'
  BY <1>1, <1>2 DEF WorkerFinish, WorkerHasJob, Goto, TypeOK
<1>9. MainHasJob'
  BY DEF WorkerFinish, MainHasJob
<1> QED
  BY <1>4, <1>6, <1>7, <1>8, <1>9

\* Every step of the pool keeps the inductive invariant.
LEMMA NextIInv == IInv /\ [Next]_vars => IInv'
<1> SUFFICES ASSUME IInv, [Next]_vars PROVE IInv'
  OBVIOUS
<1>1. CASE Run \/ Dtor
  BY <1>1, PublishIInv, CallerIInv DEF Run
<1>2. CASE \E w \in Workers : Worker(w)
  BY <1>2, WorkerIInv, FinishIInv DEF Worker
<1>3. CASE UNCHANGED vars
  BY <1>3 DEF vars, IInv, TypeOK, PendingCountsOwing, Owing, RowsFollowMain, JobOut,
              WorkerHasJob, MainHasJob
<1> QED
  BY <1>1, <1>2, <1>3 DEF Next, Destroyed

\* The inductive invariant always holds.
LEMMA SpecIInv == Spec => []IInv
BY InitIInv, NextIInv, PTL DEF Spec

-----------------------------------------------------------------------------
\* For any number of threads and calls the pool's variables keep their types;
\* in particular pending_ is never decremented below zero.
THEOREM TypeCorrect == Spec => []TypeOK
<1>1. IInv => TypeOK
  BY DEF IInv
<1> QED
  BY <1>1, SpecIInv, PTL

\* pending_ counts exactly the workers that have not reported the current job.
THEOREM PendingIsExact == Spec => []PendingCountsOwing
<1>1. IInv => PendingCountsOwing
  BY DEF IInv
<1> QED
  BY <1>1, SpecIInv, PTL

\* Run() merges only partial results of its own job, from every chunk.
THEOREM MergeCorrect == Spec => []MergeIsComplete
<1>1. ASSUME IInv, main = "merge", NEW c \in Chunks
      PROVE  partials[c] = generation
  <2>1. Owing = {}
    BY <1>1, QuietOwesNothing DEF IInv, RowsFollowMain, JobOut
  <2>2. CASE c = 0
    BY <1>1, <2>2 DEF IInv, MainHasJob
  <2>3. CASE c # 0
    <3>1. c \in Workers
      BY <2>3, PoolAssumption DEF Chunks, Workers
    <3> QED
      BY <1>1, <2>1, <3>1 DEF IInv, WorkerHasJob
  <2> QED
    BY <2>2, <2>3
<1>2. IInv => MergeIsComplete
  BY <1>1 DEF MergeIsComplete
<1> QED
  BY <1>2, SpecIInv, PTL

\* No thread dereferences rows_ after the call that published it went on.
THEOREM RowsStayAlive == Spec => []RowsAlive
<1>1. ASSUME IInv, NEW w \in Workers, wpc[w] = "scan"
      PROVE  rows = seen[w] /\ rows # NoRows
  <2>1. pending # 0
    BY <1>1, QuietOwesNothing DEF IInv, Owing
  <2> QED
    BY <1>1, <2>1 DEF IInv, RowsFollowMain, WorkerHasJob, NoRows
<1>2. ASSUME IInv, main = "scan"
      PROVE  rows # NoRows
  BY <1>2 DEF IInv, RowsFollowMain, JobOut, NoRows
<1>3. IInv => RowsAlive
  BY <1>1, <1>2 DEF RowsAlive
<1> QED
  BY <1>3, SpecIInv, PTL

\* No worker is inside Work() while partials_ is resized, merged or destroyed.
THEOREM NoWorkAtRest == Spec => []NobodyWorks
<1>1. ASSUME IInv, ~JobOut PROVE Owing = {}
  BY <1>1, QuietOwesNothing DEF IInv, RowsFollowMain
<1>2. IInv => NobodyWorks
  BY <1>1 DEF NobodyWorks, JobOut, Owing
<1> QED
  BY <1>2, SpecIInv, PTL
=============================================================================
