------------------------------ MODULE Session ------------------------------
(***************************************************************************)
(* The benchmark driver (src/src/script/client.cpp): successive runs of the*)
(* client process, live against a server or replaying an earlier trace,    *)
(* and the files they leave in their output directories:                   *)
(*                                                                         *)
(*   trace.jsonl     one record per request, as each finishes              *)
(*   trace.txt       the same records sorted, written when the trace closes*)
(*   client_<i>.jsonl  one record per round (LogCycle)                     *)
(*                                                                         *)
(* A run may fail at the handshake or in any round, which unwinds through  *)
(* the trace's destructor, or be killed at any moment, which does not.     *)
(* Decoding is reduced to token counts: a round commits one or more tokens *)
(* and may meet an end-of-generation token.                                *)
(***************************************************************************)
EXTENDS Integers, Sequences, SequencesExt, FiniteSets, Ranks

CONSTANTS
  DatasetLen, ReqOffset, MaxRequestNum, SampleReqCnt,  \* the slice of the dataset
  Orders,      \* external: what std::shuffle may make of it
  Long,        \* the requests whose prompts exceed a run's max_len, if it is small
  PromptLen,   \* the length of every prompt
  MaxNew,      \* max_new_tokens
  MaxRound,    \* the most tokens a round commits (bound)
  Dirs,        \* the output directories
  Limits,      \* the values of --replay-limit
  MaxRuns      \* the number of runs (bound)

Stop == IF MaxRequestNum = -1 \/ MaxRequestNum > DatasetLen THEN DatasetLen ELSE MaxRequestNum

Start == IF ReqOffset < 0 THEN 0 ELSE IF ReqOffset > DatasetLen THEN DatasetLen ELSE ReqOffset

\* The indices build_request_indices collects before it shuffles them.
RequestIndices == {i \in Start .. Stop - 1 : (i - Start) % SampleReqCnt = 0}

ASSUME SessionAssumption ==
  /\ DatasetLen \in Nat \ {0} /\ SampleReqCnt \in Nat \ {0} /\ ReqOffset \in Int
  /\ MaxRequestNum \in Nat \cup {-1}
  /\ Orders # {} /\ Orders \subseteq Seq(RequestIndices)
  /\ \A o \in Orders : Range(o) = RequestIndices /\ Len(o) = Cardinality(RequestIndices)
  /\ Long \subseteq RequestIndices
  /\ {PromptLen, MaxNew, MaxRound, MaxRuns} \subseteq Nat \ {0}
  /\ Limits \subseteq Int

VARIABLES
  order,   \* the visiting order, the same in every live run of this client
  disk,    \* the files of each directory
  proc,    \* the client process
  srv,     \* external: the run the server was told of, and whether it is done
  plan,    \* history: the requests the last run in each directory set out to visit
  ended,   \* history: how the last run in each directory ended
  runs     \* the number of runs started

vars == <<order, disk, proc, srv, plan, ended, runs>>

NoProc == [pc |-> "idle"]

\* Generate's locals: step_idx, the tokens committed, the warm-up round's, eog_flag.
NoGen == [step |-> 0, n |-> 0, warm |-> 0, eog |-> FALSE]

NoFiles == [trace |-> <<>>, torn |-> FALSE, txt |-> <<>>, rounds |-> <<>>]

Init ==
  /\ order \in Orders
  /\ disk = [d \in Dirs |-> NoFiles]
  /\ proc = NoProc
  /\ srv = [dir |-> "none", done |-> FALSE]
  /\ plan = [d \in Dirs |-> <<>>]
  /\ ended = [d \in Dirs |-> "never ran"]
  /\ runs = 0

-----------------------------------------------------------------------------
(* Starting *)

\* TraceWriter's constructor truncates trace.jsonl and leaves the rest.
OpenAppending(files) ==          \* mutant: the trace is opened for appending
  [files EXCEPT !.torn = FALSE]

OpenTrace(files) == [files EXCEPT !.trace = <<>>, !.torn = FALSE]

\* The process, once its trace is open.  A request is <<index, recorded tokens>>.
StartRun(mode, d, todo, pc) ==
  /\ proc.pc = "idle"
  /\ runs < MaxRuns
  /\ \E skips \in {{}, Long} :
       proc' = [pc |-> pc, mode |-> mode, dir |-> d, skips |-> skips,
                todo |-> todo, recs |-> <<>>, open |-> TRUE, opened |-> FALSE, gen |-> NoGen]
  /\ disk' = [disk EXCEPT ![d] = OpenTrace(@)]
  /\ plan' = [plan EXCEPT ![d] = todo]
  /\ ended' = [ended EXCEPT ![d] = "running"]
  /\ runs' = runs + 1
  /\ UNCHANGED <<order, srv>>

StartLive ==
  \E d \in Dirs : StartRun("live", d, [k \in DOMAIN order |-> <<order[k], 0>>], "sync")

\* load_replay_trace: the records that have a reference, in file order, then
\* every SampleReqCnt-th of them, then at most `limit'.
UsableOrSkipped(rec) == TRUE     \* mutant: a skipped request is replayed too

Usable(rec) == rec.stop # "skipped_max_len" /\ rec.n > 0

Recorded(trace) ==
  LET usable == {k \in DOMAIN trace : Usable(trace[k])}
  IN [k \in 1 .. Cardinality(usable) |-> trace[Nth(usable, k - 1)]]

Strided(s) ==
  [k \in 1 .. (Len(s) + SampleReqCnt - 1) \div SampleReqCnt |-> s[(k - 1) * SampleReqCnt + 1]]

ReplayRequests(trace, limit) ==
  LET s == Strided(Recorded(trace))
      n == IF limit >= 0 /\ Len(s) > limit THEN limit ELSE Len(s)
  IN [k \in 1 .. n |-> <<s[k].req, s[k].n>>]

\* A line that does not parse throws before anything is written, and so does a
\* trace with nothing to replay.
StartReplay ==
  \E from, d \in Dirs, limit \in Limits :
    /\ ~disk[from].torn
    /\ ReplayRequests(disk[from].trace, limit) # <<>>
    /\ StartRun("replay", d, ReplayRequests(disk[from].trace, limit), "next")

-----------------------------------------------------------------------------
(* Ending *)

\* An exception unwinds through TraceWriter's destructor, which closes the trace.
ThrowAbandons(p) == NoProc       \* mutant: the destructor does not close

ThrowHangs(p) ==                 \* mutant: the failed call's future is waited for, for ever
  [p EXCEPT !.pc = "hung"]

Throw(p) == [p EXCEPT !.pc = "close", !.mode = "failed", !.gen = NoGen]

SortedRecords(recs) ==
  LET reqs == SetToSortSeq(DOMAIN recs, <)
  IN [k \in DOMAIN reqs |-> recs[reqs[k]]]

\* Close(): trace.jsonl is closed and trace.txt truncated, then the records are
\* written to it in the order of their request.
CloseTrace ==
  /\ proc.pc = "close"
  /\ proc' = [proc EXCEPT !.pc = "write", !.open = FALSE]
  /\ disk' = [disk EXCEPT ![proc.dir].txt = <<>>]
  /\ UNCHANGED <<order, srv, plan, ended, runs>>

WriteTxt ==
  /\ proc.pc = "write"
  /\ disk' = [disk EXCEPT ![proc.dir].txt = SortedRecords(proc.recs)]
  /\ IF proc.mode = "live"
     THEN proc' = [proc EXCEPT !.pc = "notify"] /\ UNCHANGED ended
     ELSE /\ proc' = NoProc
          /\ ended' = [ended EXCEPT ![proc.dir] =
                         IF proc.mode = "failed" THEN "failed" ELSE "finished"]
  /\ UNCHANGED <<order, srv, plan, runs>>

\* Done, best effort: the run has finished whether or not the server hears of it.
\* The trace's destructor then closes it, unless it was closed already.
Destroyed(p) == IF p.open THEN [p EXCEPT !.pc = "close", !.mode = "notified"] ELSE NoProc

NotifyDone ==
  /\ proc.pc = "notify"
  /\ srv' \in {srv, [srv EXCEPT !.done = TRUE]}
  /\ proc' = Destroyed(proc)
  /\ ended' = [ended EXCEPT ![proc.dir] = IF proc.open THEN @ ELSE "finished"]
  /\ UNCHANGED <<order, disk, plan, runs>>

\* TraceWriter::Add comes next, for a finished request or a skipped one.
Adding ==
  \/ proc.pc = "add"
  \/ proc.pc = "next" /\ proc.todo # <<>> /\ Head(proc.todo)[1] \in proc.skips

\* The process is killed.  A record being written may be left torn.
Kill ==
  /\ proc.pc # "idle"
  /\ \E t \in {disk[proc.dir].torn, Adding} :
       disk' = [disk EXCEPT ![proc.dir].torn = t]
  /\ proc' = NoProc
  /\ ended' = [ended EXCEPT ![proc.dir] = "killed"]
  /\ UNCHANGED <<order, srv, plan, runs>>

-----------------------------------------------------------------------------
(* The request loop *)

SyncIgnored(p) == [p EXCEPT !.pc = "next"]   \* mutant: a failed Sync is not an error

SyncFailed(p) == Throw(p)

\* Sync names the run to the server.
Sync ==
  /\ proc.pc = "sync"
  /\ \/ /\ srv' = [dir |-> proc.dir, done |-> FALSE]
        /\ proc' = [proc EXCEPT !.pc = "next"]
     \/ /\ proc' = SyncFailed(proc)
        /\ UNCHANGED srv
  /\ UNCHANGED <<order, disk, plan, ended, runs>>

\* TraceWriter::Add keeps the record for Close() and streams it to trace.jsonl.
AddRecord(p, rec) ==
  [p EXCEPT !.recs = [r \in DOMAIN @ \cup {rec.req} |-> IF r = rec.req THEN rec ELSE @[r]]]

\* A request that may not fit is recorded and passed over.
Passed(p) == [p EXCEPT !.todo = Tail(@)]

SkipRequest ==
  /\ proc.pc = "next"
  /\ proc.todo # <<>> /\ Head(proc.todo)[1] \in proc.skips
  /\ \E rec \in {[req |-> Head(proc.todo)[1], stop |-> "skipped_max_len", n |-> 0]} :
       /\ disk' = [disk EXCEPT ![proc.dir].trace = Append(@, rec)]
       /\ proc' = AddRecord(Passed(proc), rec)
  /\ UNCHANGED <<order, srv, plan, ended, runs>>

\* GetResultLog: the first client of the process truncates the round log.
OpenRoundsAlways(files, opened) == [files EXCEPT !.rounds = <<>>]   \* mutant

OpenRounds(files, opened) == IF opened THEN files ELSE [files EXCEPT !.rounds = <<>>]

\* A client is built for an admitted request and Generate starts.
AdmitRequest ==
  /\ proc.pc = "next"
  /\ proc.todo # <<>> /\ Head(proc.todo)[1] \notin proc.skips
  /\ disk' = [disk EXCEPT ![proc.dir] = OpenRounds(@, proc.opened)]
  /\ proc' = [proc EXCEPT !.pc = "round", !.opened = TRUE]
  /\ UNCHANGED <<order, srv, plan, ended, runs>>

\* Generate's loop: the warm-up round, then rounds until max_new_tokens more
\* have been committed or an end-of-generation token is met.
MoreRounds(g) == g.step = 0 \/ (g.n < MaxNew + g.warm /\ ~g.eog)

\* RunCycle.  The oracle of a replay answers with an end-of-generation token
\* past the reference; the warm-up round's tokens are not searched for one.
Round ==
  /\ proc.pc = "round"
  /\ MoreRounds(proc.gen)
  /\ \E acc \in 1 .. MaxRound, met \in BOOLEAN :
       /\ proc.mode = "replay" /\ proc.gen.n + acc > Head(proc.todo)[2] => met
       /\ disk' = [disk EXCEPT ![proc.dir].rounds =
                     Append(@, [req |-> Head(proc.todo)[1], step |-> proc.gen.step,
                                ctx |-> PromptLen + proc.gen.n, acc |-> acc])]
       /\ proc' = [proc EXCEPT !.gen =
                     [step |-> @.step + 1, n |-> @.n + acc,
                      warm |-> IF @.step = 0 THEN acc ELSE @.warm,
                      eog  |-> met /\ @.step > 0]]
  /\ UNCHANGED <<order, srv, plan, ended, runs>>

\* A round throws: a failed Validate, a full tree or cache.  A replay may also
\* throw after its last round, when it finds that it left its reference.
RoundThrows ==
  /\ proc.pc = "round"
  /\ MoreRounds(proc.gen) \/ proc.mode = "replay"
  /\ proc' = Throw(proc)
  /\ UNCHANGED <<order, disk, srv, plan, ended, runs>>

GenerateReturns ==
  /\ proc.pc = "round"
  /\ ~MoreRounds(proc.gen)
  /\ proc' = [proc EXCEPT !.pc = "add"]
  /\ UNCHANGED <<order, disk, srv, plan, ended, runs>>

StopReason(p) ==
  IF p.mode = "replay" /\ p.gen.n > Head(p.todo)[2] THEN "reference_end"
  ELSE IF p.gen.eog THEN "eos" ELSE "max_new_tokens"

FinishRequest ==
  /\ proc.pc = "add"
  /\ \E rec \in {[req |-> Head(proc.todo)[1], stop |-> StopReason(proc), n |-> proc.gen.n]} :
       /\ disk' = [disk EXCEPT ![proc.dir].trace = Append(@, rec)]
       /\ proc' = [AddRecord(Passed(proc), rec) EXCEPT !.pc = "next", !.gen = NoGen]
  /\ UNCHANGED <<order, srv, plan, ended, runs>>

\* The loop is over.
AfterLoopNotify(p) ==            \* mutant: the server is told before the trace is closed
  [p EXCEPT !.pc = IF p.mode = "live" THEN "notify" ELSE "close"]

AfterLoop(p) == [p EXCEPT !.pc = "close"]

AllVisited ==
  /\ proc.pc = "next"
  /\ proc.todo = <<>>
  /\ proc' = AfterLoop(proc)
  /\ UNCHANGED <<order, disk, srv, plan, ended, runs>>

\* A step of the process of its own accord.
Advance ==
  \/ Sync \/ SkipRequest \/ AdmitRequest \/ Round \/ RoundThrows \/ GenerateReturns
  \/ FinishRequest \/ AllVisited \/ CloseTrace \/ WriteTxt \/ NotifyDone

Next == StartLive \/ StartReplay \/ Advance \/ Kill

\* The process is scheduled, and Sync and Done return or fail.
Spec == Init /\ [][Next]_vars /\ WF_vars(Advance)

-----------------------------------------------------------------------------
(* Properties *)

Visited(d) == [k \in DOMAIN disk[d].trace |-> disk[d].trace[k].req]

Planned(d) == [k \in DOMAIN plan[d] |-> plan[d][k][1]]

RecordsOf(trace) == [r \in {trace[k].req : k \in DOMAIN trace} |->
                       trace[CHOOSE k \in DOMAIN trace : trace[k].req = r]]

\* trace.jsonl holds the records of the last run in its directory and of no
\* other, in the order the run set out to visit them, wherever it stopped; that
\* order is what a replay of it will follow.
TraceIsVisitingPrefix == \A d \in Dirs : IsPrefix(Visited(d), Planned(d))

\* Unless it was killed, a run leaves the same records in trace.txt, sorted, as
\* in trace.jsonl: also after a failed handshake or a round that throws.
TxtMatchesTrace ==
  \A d \in Dirs :
    ended[d] \notin {"never ran", "killed"} /\ (proc.pc = "idle" \/ proc.dir # d) =>
      /\ disk[d].txt = SortedRecords(RecordsOf(disk[d].trace))
      /\ ~disk[d].torn

RoundsOf(rounds, req) ==
  LET mine == {k \in DOMAIN rounds : rounds[k].req = req}
  IN [k \in 1 .. Cardinality(mine) |-> rounds[Nth(mine, k - 1)]]

\* Every completed request of the trace is accounted for, round by round, in
\* the round log beside it: its rounds are numbered from 0, each starts where
\* the one before it ended, and the last ends at the recorded length.
RoundsAccountForTrace ==
  \A d \in Dirs : \A k \in DOMAIN disk[d].trace :
    LET rec == disk[d].trace[k]
        log == RoundsOf(disk[d].rounds, rec.req)
    IN rec.stop # "skipped_max_len" =>
         /\ log # <<>>
         /\ log[1].ctx = PromptLen
         /\ \A i \in DOMAIN log :
              /\ log[i].step = i - 1
              /\ log[i].ctx + log[i].acc =
                   IF i = Len(log) THEN PromptLen + rec.n ELSE log[i + 1].ctx

\* While a live run decodes, the server writes into the same directory.
ServerFollowsRun == proc.pc = "round" /\ proc.mode = "live" => srv.dir = proc.dir

\* A replay visits requests of the recorded run, in that run's order, each with
\* a recorded completion to be judged by, also when the recorded run skipped
\* requests, failed or was killed before its end.
ReplayFollowsRecording ==
  proc.pc # "idle" /\ proc.mode = "replay" =>
    /\ \A k \in DOMAIN plan[proc.dir] : plan[proc.dir][k][2] > 0
    /\ \A i, j \in DOMAIN Planned(proc.dir) : i < j =>
         \E a, b \in DOMAIN order :
           a < b /\ order[a] = Planned(proc.dir)[i] /\ order[b] = Planned(proc.dir)[j]

\* "every result is already on disk by now" (script/client.cpp): when the
\* server is told that a run is done, its trace is complete in both files.
DoneMeansOnDisk ==
  [][srv'.done /\ ~srv.done =>
       LET files == disk'[proc.dir]
       IN Len(files.trace) = Len(plan[proc.dir])
          /\ files.txt = SortedRecords(RecordsOf(files.trace))]_vars

\* A run that is started comes to an end.
RunEnds == proc.pc # "idle" ~> proc.pc = "idle"

\* "streamed as each finishes, so an interrupted run still leaves a usable
\* trace" (script/client.cpp): what a killed run recorded can be loaded.
InterruptedTraceUsable ==
  \A d \in Dirs :
    ended[d] = "killed" /\ (\E k \in DOMAIN disk[d].trace : Usable(disk[d].trace[k]))
      => ~disk[d].torn
=============================================================================
