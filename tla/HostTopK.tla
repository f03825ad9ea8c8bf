------------------------------ MODULE HostTopK ------------------------------
(***************************************************************************)
(* The persistent thread pool that finds the k best logits of each row     *)
(* (src/src/host_topk.cpp).  The calling thread publishes a job under the  *)
(* mutex, wakes the workers, scans chunk 0 itself, and waits until the     *)
(* workers have done theirs; then it merges the chunks' partial results.   *)
(*                                                                         *)
(* A block of code that holds mu_ is one step.  Waiting on a condition     *)
(* variable is split the way the standard defines it: test the predicate   *)
(* under the lock, sleep if it is false, and test again after a            *)
(* notification or spuriously.  Work() reads rows_ and writes partials_    *)
(* without the lock, in separate steps.  A job is known by its generation. *)
(***************************************************************************)
EXTENDS Integers, FiniteSets

CONSTANTS NThreads,   \* n_threads_, the calling thread included
          MaxRuns     \* bound: how often Run() is called

ASSUME PoolAssumption == NThreads \in Nat \ {0} /\ MaxRuns \in Nat

Workers == 1 .. NThreads - 1
Chunks  == 0 .. NThreads - 1
NoRows  == 0

VARIABLES
  generation,   \* generation_
  pending,      \* pending_
  stop,         \* stop_
  rows,         \* rows_: the job it points at, NoRows for nullptr
  partials,     \* partials_: by chunk, the job it was last filled for
  main,         \* where the calling thread is
  wpc,          \* where each worker is
  seen,         \* each worker's local `seen'
  job           \* the job whose rows each thread is scanning, by chunk

vars == <<generation, pending, stop, rows, partials, main, wpc, seen, job>>

Init ==
  /\ generation = 0
  /\ pending = 0
  /\ stop = FALSE
  /\ rows = NoRows
  /\ partials = [c \in Chunks |-> 0]
  /\ main = "idle"
  /\ wpc = [w \in Workers |-> "test"]
  /\ seen = [w \in Workers |-> 0]
  /\ job = [c \in Chunks |-> 0]

Goto(w, label) == wpc' = [wpc EXCEPT ![w] = label]

-----------------------------------------------------------------------------
(* Run(), on the calling thread *)

\* partials_.resize: the vector may move, and nothing locks it.
RunResize ==
  /\ main = "idle"
  /\ generation < MaxRuns
  /\ main' = "publish"
  /\ UNCHANGED <<generation, pending, stop, rows, partials, wpc, seen, job>>

RunPublishOneShort ==                    \* mutant: pending_ counts one too few
  /\ main = "publish"
  /\ rows' = generation + 1
  /\ pending' = NThreads - 2
  /\ generation' = generation + 1
  /\ main' = "notify"
  /\ UNCHANGED <<stop, partials, wpc, seen, job>>

RunPublish ==
  /\ main = "publish"
  /\ rows' = generation + 1
  /\ pending' = NThreads - 1
  /\ generation' = generation + 1
  /\ main' = "notify"
  /\ UNCHANGED <<stop, partials, wpc, seen, job>>

\* cv_start_.notify_all(), outside the lock.
WakeAll == wpc' = [w \in Workers |-> IF wpc[w] = "asleep" THEN "test" ELSE wpc[w]]

RunNotify ==
  /\ main = "notify"
  /\ WakeAll
  /\ main' = "scan"
  /\ UNCHANGED <<generation, pending, stop, rows, partials, seen, job>>

\* Work(0)
RunScan ==
  /\ main = "scan"
  /\ job' = [job EXCEPT ![0] = rows]
  /\ main' = "store"
  /\ UNCHANGED <<generation, pending, stop, rows, partials, wpc, seen>>

RunStore ==
  /\ main = "store"
  /\ partials' = [partials EXCEPT ![0] = job[0]]
  /\ main' = "test"
  /\ UNCHANGED <<generation, pending, stop, rows, wpc, seen, job>>

\* cv_done_.wait: the predicate under the lock.
RunNoWait ==                             \* mutant: pending_ is not waited for
  /\ main = "test"
  /\ rows' = NoRows /\ main' = "merge"
  /\ UNCHANGED <<generation, pending, stop, partials, wpc, seen, job>>

RunTest ==
  /\ main = "test"
  /\ IF pending = 0
     THEN rows' = NoRows /\ main' = "merge"
     ELSE rows' = rows /\ main' = "asleep"
  /\ UNCHANGED <<generation, pending, stop, partials, wpc, seen, job>>

RunSpurious ==
  /\ main = "asleep"
  /\ main' = "test"
  /\ UNCHANGED <<generation, pending, stop, rows, partials, wpc, seen, job>>

\* The merge reads every chunk's partial result.
RunMerge ==
  /\ main = "merge"
  /\ main' = "idle"
  /\ UNCHANGED <<generation, pending, stop, rows, partials, wpc, seen, job>>

-----------------------------------------------------------------------------
(* ~HostTopK(), on the calling thread *)

DtorStop ==
  /\ main = "idle"
  /\ stop' = TRUE
  /\ main' = "stopping"
  /\ UNCHANGED <<generation, pending, rows, partials, wpc, seen, job>>

DtorSilent ==                            \* mutant: nobody is notified
  /\ main = "stopping"
  /\ main' = "join"
  /\ UNCHANGED <<generation, pending, stop, rows, partials, wpc, seen, job>>

DtorNotify ==
  /\ main = "stopping"
  /\ WakeAll
  /\ main' = "join"
  /\ UNCHANGED <<generation, pending, stop, rows, partials, seen, job>>

DtorJoin ==
  /\ main = "join"
  /\ \A w \in Workers : wpc[w] = "exited"
  /\ main' = "destroyed"
  /\ UNCHANGED <<generation, pending, stop, rows, partials, wpc, seen, job>>

-----------------------------------------------------------------------------
(* WorkerLoop() *)

\* cv_start_.wait: the predicate under the lock.
WorkerForgets(w) ==                      \* mutant: `seen' is not updated
  /\ wpc[w] = "test"
  /\ IF stop THEN Goto(w, "exited")
     ELSE IF generation # seen[w] THEN Goto(w, "scan") ELSE Goto(w, "asleep")
  /\ UNCHANGED <<generation, pending, stop, rows, partials, main, seen, job>>

WorkerTest(w) ==
  /\ wpc[w] = "test"
  /\ IF stop THEN Goto(w, "exited") /\ seen' = seen
     ELSE IF generation # seen[w]
     THEN Goto(w, "scan") /\ seen' = [seen EXCEPT ![w] = generation]
     ELSE Goto(w, "asleep") /\ seen' = seen
  /\ UNCHANGED <<generation, pending, stop, rows, partials, main, job>>

WorkerSpurious(w) ==
  /\ wpc[w] = "asleep"
  /\ Goto(w, "test")
  /\ UNCHANGED <<generation, pending, stop, rows, partials, main, seen, job>>

\* Work(t): rows_ is dereferenced, then the chunk's partial result is written.
WorkerScan(w) ==
  /\ wpc[w] = "scan"
  /\ job' = [job EXCEPT ![w] = rows]
  /\ Goto(w, "store")
  /\ UNCHANGED <<generation, pending, stop, rows, partials, main, seen>>

WorkerStore(w) ==
  /\ wpc[w] = "store"
  /\ partials' = [partials EXCEPT ![w] = job[w]]
  /\ Goto(w, "finish")
  /\ UNCHANGED <<generation, pending, stop, rows, main, seen, job>>

\* The last worker wakes the caller; cv_done_ is notified under the lock.
WorkerFinishSilent(w) ==                 \* mutant: the caller is not woken
  /\ wpc[w] = "finish"
  /\ pending' = pending - 1
  /\ Goto(w, "test")
  /\ UNCHANGED <<generation, stop, rows, partials, main, seen, job>>

WorkerFinish(w) ==
  /\ wpc[w] = "finish"
  /\ pending' = pending - 1
  /\ main' = IF pending' = 0 /\ main = "asleep" THEN "test" ELSE main
  /\ Goto(w, "test")
  /\ UNCHANGED <<generation, stop, rows, partials, seen, job>>

-----------------------------------------------------------------------------
Run  == RunResize \/ RunPublish \/ RunNotify \/ RunScan \/ RunStore
          \/ RunTest \/ RunSpurious \/ RunMerge
Dtor == DtorStop \/ DtorNotify \/ DtorJoin

Worker(w) == WorkerTest(w) \/ WorkerSpurious(w) \/ WorkerScan(w)
               \/ WorkerStore(w) \/ WorkerFinish(w)

Destroyed == main = "destroyed" /\ UNCHANGED vars

Next == Run \/ Dtor \/ (\E w \in Workers : Worker(w)) \/ Destroyed

Spec == Init /\ [][Next]_vars

\* Threads that can run do run; nobody has to wake up spuriously.
MainStep == RunPublish \/ RunNotify \/ RunScan \/ RunStore \/ RunTest
              \/ RunMerge \/ DtorNotify \/ DtorJoin
WorkerStep(w) == WorkerTest(w) \/ WorkerScan(w) \/ WorkerStore(w) \/ WorkerFinish(w)

FairSpec == Spec /\ WF_vars(MainStep) /\ \A w \in Workers : WF_vars(WorkerStep(w))

-----------------------------------------------------------------------------
(* Properties *)

\* The types; pending_ never goes below zero nor beyond the number of workers.
TypeOK ==
  /\ generation \in Nat
  /\ pending \in Chunks
  /\ stop \in BOOLEAN
  /\ rows \in Nat
  /\ partials \in [Chunks -> Nat]
  /\ main \in {"idle", "publish", "notify", "scan", "store", "test", "asleep",
               "merge", "stopping", "join", "destroyed"}
  /\ wpc \in [Workers -> {"test", "asleep", "scan", "store", "finish", "exited"}]
  /\ seen \in [Workers -> Nat]
  /\ job \in [Chunks -> Nat]

\* The merge of Run() reads, in every chunk, the result of this very job: no
\* worker is late, none skipped the job, and none answered an earlier one.
MergeIsComplete == main = "merge" => \A c \in Chunks : partials[c] = generation

\* A thread inside Work() dereferences rows_ only while it points at the job
\* the thread was woken for: Run() has neither returned nor started another.
RowsAlive ==
  /\ \A w \in Workers : wpc[w] = "scan" => rows = seen[w] /\ rows # NoRows
  /\ main = "scan" => rows # NoRows

\* While Run() resizes partials_ or merges it, and while the destructor joins,
\* no worker is inside Work().
NobodyWorks == main \in {"idle", "publish", "merge", "join", "destroyed"} =>
                 \A w \in Workers : wpc[w] \notin {"scan", "store"}

\* pending_ is, at every moment, the number of workers that have yet to report
\* the published job: each worker counts down once per job, and only after its
\* partial result is written.
Owing == {w \in Workers : seen[w] # generation
                          \/ wpc[w] \in {"scan", "store", "finish"}}

PendingCountsOwing == pending = Cardinality(Owing)

\* Run() returns: no wake-up is lost between the notifications and the waits.
RunReturns == main = "notify" ~> main = "idle"

\* The destructor returns: every worker leaves its loop.
DestructorReturns == main = "stopping" ~> main = "destroyed"
=============================================================================
