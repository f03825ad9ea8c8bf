---------------------------- MODULE SessionProofs ----------------------------
(***************************************************************************)
(* What runs of the driver leave on disk, for any dataset, visiting order, *)
(* number of runs and output directories, whichever of them fail or are    *)
(* killed.                                                                 *)
(*                                                                         *)
(* The properties speak of files; that they hold depends on what the       *)
(* process still has to do.  IInv relates the two: what the run has yet to *)
(* visit continues its trace to its plan (RunContinuesTrace), what it keeps*)
(* in memory is its trace (RecordsAreTrace), and the rounds of the request *)
(* it decodes add up to what Generate has committed (CurrentRounds).       *)
(***************************************************************************)
EXTENDS Session, RankTheorems, SequenceTheorems

Active == proc.pc # "idle"

Stops == {"skipped_max_len", "reference_end", "eos", "max_new_tokens"}
Rec == [req : RequestIndices, stop : Stops, n : Nat]
RoundRec == [req : RequestIndices, step : Nat, ctx : Nat, acc : Nat]
RecFuns == UNION {[D -> Rec] : D \in SUBSET RequestIndices}
Request == RequestIndices \X Nat
Txt == {<<>>} \cup {SortedRecords(r) : r \in RecFuns}
Files == [trace : Seq(Rec), torn : BOOLEAN, txt : Txt, rounds : Seq(RoundRec)]
GenType == [step : Nat, n : Nat, warm : Nat, eog : BOOLEAN]
ProcType ==
  [pc : {"sync", "next", "round", "add", "close", "write", "notify"},
   mode : {"live", "replay", "failed"}, dir : Dirs, skips : SUBSET RequestIndices,
   todo : Seq(Request), recs : RecFuns, open : BOOLEAN, opened : BOOLEAN, gen : GenType]

SessionTypes ==
  /\ order \in Orders
  /\ disk \in [Dirs -> Files]
  /\ proc = NoProc \/ proc \in ProcType
  /\ srv \in [dir : Dirs \cup {"none"}, done : BOOLEAN]
  /\ plan \in [Dirs -> Seq(Request)]
  /\ ended \in [Dirs -> {"never ran", "running", "killed", "failed", "finished"}]
  /\ runs \in Nat

\* A list of requests follows the visiting order.
InOrder(s) ==
  \A i, j \in DOMAIN s : i < j =>
    \E a, b \in DOMAIN order : a < b /\ order[a] = s[i][1] /\ order[b] = s[j][1]

PlansInOrder == \A d \in Dirs : InOrder(plan[d])

TraceFollowsPlan ==
  \A d \in Dirs :
    /\ Len(disk[d].trace) <= Len(plan[d])
    /\ \A k \in 1 .. Len(disk[d].trace) : disk[d].trace[k].req = plan[d][k][1]

RunContinuesTrace ==
  Active =>
    /\ Len(disk[proc.dir].trace) + Len(proc.todo) = Len(plan[proc.dir])
    /\ \A k \in 1 .. Len(proc.todo) :
         proc.todo[k] = plan[proc.dir][Len(disk[proc.dir].trace) + k]

RecordsAreTrace ==
  Active =>
    /\ DOMAIN proc.recs = {disk[proc.dir].trace[k].req : k \in 1 .. Len(disk[proc.dir].trace)}
    /\ \A k \in 1 .. Len(disk[proc.dir].trace) :
         proc.recs[disk[proc.dir].trace[k].req] = disk[proc.dir].trace[k]

\* trace.txt has been written from the trace.
TxtWritten(d) == disk[d].txt = SortedRecords(RecordsOf(disk[d].trace))

RunPhases ==
  Active =>
    /\ ended[proc.dir] = "running"
    /\ ~disk[proc.dir].torn
    /\ proc.pc \in {"write", "notify"} => ~proc.open
    /\ proc.pc \in {"round", "add"} => proc.todo # <<>>
    /\ proc.pc \in {"close", "write", "notify"} /\ proc.mode # "failed" => proc.todo = <<>>
    /\ proc.pc = "notify" => proc.mode = "live" /\ TxtWritten(proc.dir)
    /\ proc.mode = "live" /\ proc.pc # "sync" => srv.dir = proc.dir
    /\ proc.mode = "replay" => \A k \in DOMAIN plan[proc.dir] : plan[proc.dir][k][2] > 0

AtRest ==
  \A d \in Dirs : ~Active \/ proc.dir # d =>
    /\ ended[d] # "running"
    /\ ended[d] \in {"failed", "finished"} => ~disk[d].torn /\ TxtWritten(d)

\* A round log that adds up to n tokens.
AddsUp(log, n) ==
  /\ log # <<>> => log[1].ctx = PromptLen
  /\ \A i \in DOMAIN log :
       /\ log[i].step = i - 1
       /\ log[i].ctx + log[i].acc = IF i = Len(log) THEN PromptLen + n ELSE log[i + 1].ctx

CompletedRounds ==
  \A d \in Dirs : \A k \in 1 .. Len(disk[d].trace) :
    disk[d].trace[k].stop # "skipped_max_len" =>
      LET log == RoundsOf(disk[d].rounds, disk[d].trace[k].req)
      IN log # <<>> /\ AddsUp(log, disk[d].trace[k].n)

\* The round log is this run's once it has been opened: nothing is in it for
\* the requests to come, and the current one's rounds add up.
CurrentRounds ==
  Active =>
    /\ proc.pc \in {"round", "add"} =>
         LET log == RoundsOf(disk[proc.dir].rounds, Head(proc.todo)[1])
         IN /\ proc.opened
            /\ AddsUp(log, proc.gen.n)
            /\ Len(log) = proc.gen.step
            /\ proc.gen.step = 0 => proc.gen.n = 0
            /\ proc.pc = "add" => proc.gen.step # 0
    /\ proc.pc \in {"sync", "next"} => proc.gen = NoGen
    /\ proc.opened =>
         \A k \in 1 .. Len(proc.todo) : k > 1 \/ proc.pc \in {"sync", "next"} =>
           \A i \in 1 .. Len(disk[proc.dir].rounds) :
             disk[proc.dir].rounds[i].req # proc.todo[k][1]
    /\ ~proc.opened => \A k \in 1 .. Len(disk[proc.dir].trace) :
                         disk[proc.dir].trace[k].stop = "skipped_max_len"

IInv == /\ SessionTypes /\ PlansInOrder /\ TraceFollowsPlan /\ RunContinuesTrace
        /\ RecordsAreTrace /\ RunPhases /\ AtRest /\ CompletedRounds /\ CurrentRounds

-----------------------------------------------------------------------------
(* The visiting order *)

\* A visiting order has each request once.
LEMMA OrderOnce ==
  ASSUME NEW o \in Orders
  PROVE  /\ o \in [1 .. Len(o) -> RequestIndices]
         /\ Len(o) \in Nat
         /\ \A a, b \in 1 .. Len(o) : o[a] = o[b] => a = b
<1>1. o \in Seq(RequestIndices) /\ Range(o) = RequestIndices /\ Len(o) = Cardinality(RequestIndices)
  BY SessionAssumption
<1>2. Len(o) \in Nat /\ o \in [1 .. Len(o) -> RequestIndices]
  BY <1>1, LenProperties
<1>3. IsFiniteSet(1 .. Len(o)) /\ Cardinality(1 .. Len(o)) = Len(o)
  BY <1>2, FS_Interval
<1>4. \A r \in RequestIndices : \E a \in 1 .. Len(o) : o[a] = r
  BY <1>1, <1>2 DEF Range
<1>5. o \in Surjection(1 .. Len(o), RequestIndices)
  BY <1>2, <1>4, Fun_IsSurj
<1>6. o \in Injection(1 .. Len(o), RequestIndices)
  BY <1>1, <1>3, <1>5, FS_Surjection
<1>7. \A a, b \in 1 .. Len(o) : o[a] = o[b] => a = b
  BY <1>6, Fun_InjectionProperties
<1> QED
  BY <1>2, <1>7

\* A list in the visiting order has each request at most once.
LEMMA OnceInOrder ==
  ASSUME order \in Orders, NEW s \in Seq(Request), InOrder(s)
  PROVE  \A i, j \in 1 .. Len(s) : i # j => s[i][1] # s[j][1]
<1>1. SUFFICES ASSUME NEW i \in 1 .. Len(s), NEW j \in 1 .. Len(s), i < j
               PROVE  s[i][1] # s[j][1]
  <2>1. Len(s) \in Nat /\ 1 .. Len(s) \subseteq Int
    OBVIOUS
  <2>2. \A i, j \in Int : i # j => i < j \/ j < i
    OBVIOUS
  <2> QED
    BY <1>1, <2>1, <2>2, Zenon
<1>2. DOMAIN order = 1 .. Len(order) /\ Len(order) \in Nat /\ DOMAIN s = 1 .. Len(s)
  BY OrderOnce, LenProperties
<1>d. i \in DOMAIN s /\ j \in DOMAIN s /\ i < j
  BY <1>1, <1>2
<1>3. PICK a \in DOMAIN order : \E b \in DOMAIN order : a < b /\ order[a] = s[i][1] /\ order[b] = s[j][1]
  BY <1>d, Zenon DEF InOrder
<1>4. PICK b \in DOMAIN order : a < b /\ order[a] = s[i][1] /\ order[b] = s[j][1]
  BY <1>3
<1>5. order[a] # order[b]
  BY <1>2, <1>4, OrderOnce
<1> QED
  BY <1>4, <1>5

-----------------------------------------------------------------------------
(* The round log *)

\* The places of a request in a round log.
Mine(rounds, req) == {k \in DOMAIN rounds : rounds[k].req = req}

\* The rounds of one request are finitely many lines of the log.
LEMMA MineFinite ==
  ASSUME NEW rounds \in Seq(RoundRec), NEW req
  PROVE  /\ Mine(rounds, req) \subseteq 1 .. Len(rounds)
         /\ Mine(rounds, req) \subseteq Int
         /\ IsFiniteSet(Mine(rounds, req))
         /\ Cardinality(Mine(rounds, req)) \in Nat
<1>1. Len(rounds) \in Nat /\ DOMAIN rounds = 1 .. Len(rounds)
  BY LenProperties
<1>2. Mine(rounds, req) \subseteq 1 .. Len(rounds)
  BY <1>1 DEF Mine
<1>3. IsFiniteSet(1 .. Len(rounds))
  BY <1>1, FS_Interval
<1>4. IsFiniteSet(Mine(rounds, req))
  BY <1>2, <1>3, FS_Subset
<1>5. 1 .. Len(rounds) \subseteq Int
  BY <1>1
<1> QED
  BY <1>2, <1>4, <1>5, FS_CardinalityType

\* Filtering the log by request gives a log of that many lines.
LEMMA RoundsShape ==
  ASSUME NEW rounds \in Seq(RoundRec), NEW req
  PROVE  /\ RoundsOf(rounds, req) \in Seq(RoundRec)
         /\ Len(RoundsOf(rounds, req)) = Cardinality(Mine(rounds, req))
<1> DEFINE M == Mine(rounds, req)
           c == Cardinality(M)
<1>1. /\ M \subseteq 1 .. Len(rounds) /\ M \subseteq Int /\ IsFiniteSet(M) /\ c \in Nat
  BY MineFinite
<1>2. RoundsOf(rounds, req) = [k \in 1 .. c |-> rounds[Nth(M, k - 1)]]
  BY DEF RoundsOf, Mine
<1> HIDE DEF M
<1>3. ASSUME NEW k \in 1 .. c PROVE rounds[Nth(M, k - 1)] \in RoundRec
  <2>1. k - 1 \in 0 .. Cardinality(M) - 1
    BY <1>1, <1>3
  <2>2. Nth(M, k - 1) \in M
    BY <1>1, <2>1, NthWorks
  <2>3. Nth(M, k - 1) \in 1 .. Len(rounds)
    BY <1>1, <2>2
  <2> QED
    BY <2>3, ElementOfSeq
<1> HIDE DEF c
<1>4. RoundsOf(rounds, req) \in Seq(RoundRec)
  BY <1>1, <1>2, <1>3, IsASeq
<1>5. DOMAIN RoundsOf(rounds, req) = 1 .. c
  BY <1>2
<1>6. Len(RoundsOf(rounds, req)) = c
  BY <1>1, <1>4, <1>5, LenProperties
<1> QED
  BY <1>4, <1>6 DEF c, M

\* A record of another request is not seen.
LEMMA RoundsOther ==
  ASSUME NEW rounds \in Seq(RoundRec), NEW req, NEW e \in RoundRec, e.req # req
  PROVE  RoundsOf(Append(rounds, e), req) = RoundsOf(rounds, req)
<1> DEFINE R == Append(rounds, e)
           M == Mine(rounds, req)
           n == Len(rounds)
<1>1. /\ R \in Seq(RoundRec) /\ Len(R) = n + 1 /\ R[n + 1] = e /\ n \in Nat
      /\ \A k \in 1 .. n : R[k] = rounds[k]
  BY AppendProperties, LenProperties
<1>2. DOMAIN R = 1 .. n + 1 /\ DOMAIN rounds = 1 .. n
  BY <1>1, LenProperties
<1> HIDE DEF R
<1>3. Mine(R, req) = M
  <2>1. \A k \in 1 .. n + 1 : k \in 1 .. n \/ k = n + 1
    BY <1>1
  <2>2. 1 .. n \subseteq 1 .. n + 1
    BY <1>1
  <2> QED
    BY <1>1, <1>2, <2>1, <2>2 DEF Mine
<1>4. /\ M \subseteq 1 .. n /\ M \subseteq Int /\ IsFiniteSet(M) /\ Cardinality(M) \in Nat
  BY MineFinite
<1>5. RoundsOf(R, req) = [k \in 1 .. Cardinality(M) |-> R[Nth(M, k - 1)]]
  BY <1>3 DEF RoundsOf, Mine
<1>6. RoundsOf(rounds, req) = [k \in 1 .. Cardinality(M) |-> rounds[Nth(M, k - 1)]]
  BY DEF RoundsOf, Mine
<1> HIDE DEF M, n
<1>7. ASSUME NEW k \in 1 .. Cardinality(M) PROVE R[Nth(M, k - 1)] = rounds[Nth(M, k - 1)]
  <2>1. k - 1 \in 0 .. Cardinality(M) - 1
    BY <1>4, <1>7
  <2>2. Nth(M, k - 1) \in M
    BY <1>4, <2>1, NthWorks
  <2> QED
    BY <1>1, <1>4, <2>2
<1> QED
  BY <1>5, <1>6, <1>7 DEF R

\* A record of the request itself comes last.
LEMMA RoundsOwn ==
  ASSUME NEW rounds \in Seq(RoundRec), NEW e \in RoundRec
  PROVE  /\ Len(RoundsOf(Append(rounds, e), e.req)) = Len(RoundsOf(rounds, e.req)) + 1
         /\ \A k \in 1 .. Len(RoundsOf(rounds, e.req)) :
              RoundsOf(Append(rounds, e), e.req)[k] = RoundsOf(rounds, e.req)[k]
         /\ RoundsOf(Append(rounds, e), e.req)[Len(RoundsOf(rounds, e.req)) + 1] = e
<1> DEFINE R == Append(rounds, e)
           M == Mine(rounds, e.req)
           N == Mine(R, e.req)
           n == Len(rounds)
           c == Cardinality(M)
<1>1. /\ R \in Seq(RoundRec) /\ Len(R) = n + 1 /\ R[n + 1] = e /\ n \in Nat
      /\ \A k \in 1 .. n : R[k] = rounds[k]
  BY AppendProperties, LenProperties
<1>2. DOMAIN R = 1 .. n + 1 /\ DOMAIN rounds = 1 .. n
  BY <1>1, LenProperties
<1>3. /\ M \subseteq 1 .. n /\ M \subseteq Int /\ IsFiniteSet(M) /\ c \in Nat
  BY MineFinite
<1>4. N \subseteq 1 .. n + 1 /\ N \subseteq Int /\ IsFiniteSet(N) /\ Cardinality(N) \in Nat
  BY <1>1, MineFinite
<1>5. N = M \cup {n + 1}
  <2> HIDE DEF R
  <2>1. \A k \in 1 .. n + 1 : k \in 1 .. n \/ k = n + 1
    BY <1>1
  <2>2. 1 .. n \subseteq 1 .. n + 1 /\ n + 1 \in 1 .. n + 1
    BY <1>1
  <2> QED
    BY <1>1, <1>2, <2>1, <2>2 DEF Mine
<1>6. n + 1 \notin M
  BY <1>1, <1>3
<1>7. Cardinality(N) = c + 1
  BY <1>3, <1>5, <1>6, FS_AddElement
<1>8. RoundsOf(R, e.req) = [k \in 1 .. c + 1 |-> R[Nth(N, k - 1)]]
  BY <1>7 DEF RoundsOf, Mine
<1>9. RoundsOf(rounds, e.req) = [k \in 1 .. c |-> rounds[Nth(M, k - 1)]]
  BY DEF RoundsOf, Mine
<1>10. Len(RoundsOf(R, e.req)) = c + 1 /\ Len(RoundsOf(rounds, e.req)) = c
  BY <1>1, <1>7, RoundsShape
<1> HIDE DEF R, M, N, n, c
<1>11. ASSUME NEW i \in 1 .. n + 1 PROVE Rank(N, i) = Rank(M, i)
  <2>1. {j \in N : j < i} = {j \in M : j < i}
    BY <1>1, <1>3, <1>5
  <2> QED
    BY <2>1 DEF Rank
<1>12. Rank(M, n + 1) = c
  <2>0. \A j \in 1 .. n : j < n + 1
    BY <1>1
  <2>1. {j \in M : j < n + 1} = M
    BY <1>3, <2>0
  <2> QED
    BY <2>1 DEF Rank, c
<1>13. ASSUME NEW k \in 1 .. c PROVE R[Nth(N, k - 1)] = rounds[Nth(M, k - 1)]
  <2>1. k - 1 \in 0 .. Cardinality(M) - 1
    BY <1>3, <1>13 DEF c
  <2>2. Nth(M, k - 1) \in M /\ Rank(M, Nth(M, k - 1)) = k - 1
    BY <1>3, <2>1, NthWorks
  <2>0. 1 .. n \subseteq 1 .. n + 1
    BY <1>1
  <2>3. Nth(M, k - 1) \in N /\ Nth(M, k - 1) \in 1 .. n /\ Nth(M, k - 1) \in 1 .. n + 1
    BY <1>3, <1>5, <2>0, <2>2, Zenon
  <2>4. Rank(N, Nth(M, k - 1)) = k - 1
    BY <1>11, <2>2, <2>3
  <2>5. Nth(N, Rank(N, Nth(M, k - 1))) = Nth(M, k - 1)
    BY <1>4, <2>3, NthOfRank
  <2> QED
    BY <1>1, <2>3, <2>4, <2>5
<1>14. Nth(N, c) = n + 1
  <2>1. n + 1 \in N /\ n + 1 \in 1 .. n + 1
    BY <1>1, <1>5
  <2>2. Rank(N, n + 1) = c
    BY <1>11, <1>12, <2>1
  <2>3. Nth(N, Rank(N, n + 1)) = n + 1
    BY <1>4, <2>1, NthOfRank
  <2> QED
    BY <2>2, <2>3
<1>15. RoundsOf(R, e.req)[c + 1] = e
  <2>1. c + 1 \in 1 .. c + 1 /\ (c + 1) - 1 = c
    BY <1>3
  <2> QED
    BY <1>1, <1>8, <1>14, <2>1
<1>16. \A k \in 1 .. c : RoundsOf(R, e.req)[k] = RoundsOf(rounds, e.req)[k]
  <2>1. \A k \in 1 .. c : k \in 1 .. c + 1
    BY <1>3
  <2> QED
    BY <1>8, <1>9, <1>13, <2>1
<1> QED
  BY <1>10, <1>15, <1>16 DEF R

\* A request the log does not know has no rounds.
LEMMA RoundsNone ==
  ASSUME NEW rounds \in Seq(RoundRec), NEW req, \A k \in 1 .. Len(rounds) : rounds[k].req # req
  PROVE  RoundsOf(rounds, req) = <<>> /\ Len(RoundsOf(rounds, req)) = 0
<1>1. Mine(rounds, req) = {}
  BY LenProperties DEF Mine
<1>2. Len(RoundsOf(rounds, req)) = 0 /\ RoundsOf(rounds, req) \in Seq(RoundRec)
  BY <1>1, RoundsShape, FS_EmptySet
<1> QED
  BY <1>2, EmptySeq

-----------------------------------------------------------------------------
(* What a replay is asked to do *)

\* The places that a stride picks are places of the list.
LEMMA StrideInside ==
  ASSUME NEW L \in Nat, NEW S \in Nat \ {0}, NEW k \in 1 .. (L + S - 1) \div S
  PROVE  (k - 1) * S \in 0 .. L - 1
<1> DEFINE q == (L + S - 1) \div S
<1>1. q \in Int /\ S * q <= L + S - 1
  OBVIOUS
<1>2. k \in Int /\ 1 <= k /\ k <= q
  BY <1>1
<1> HIDE DEF q
<1>3. \A a, b, c \in Int : a <= b /\ 0 <= c => c * a <= c * b
  OBVIOUS
<1>4. S * k <= S * q
  BY <1>1, <1>2, <1>3
<1>5. S * 0 <= S * (k - 1)
  BY <1>2, <1>3
<1>6. S * k \in Int /\ S * (k - 1) = S * k - S /\ (k - 1) * S = S * (k - 1) /\ S * 0 = 0 /\ S * q \in Int
  BY <1>1, <1>2
<1> QED
  BY <1>1, <1>4, <1>5, <1>6

\* A later visit lies further along the stride.
LEMMA StrideGrows ==
  ASSUME NEW S \in Nat \ {0}, NEW i \in Nat, NEW j \in Nat, i < j
  PROVE  (i - 1) * S < (j - 1) * S
OBVIOUS

\* A replay's requests are requests of the trace, in its order, each with the
\* tokens that were recorded for it.
LEMMA ReplayShape ==
  ASSUME NEW trace \in Seq(Rec), NEW limit \in Int
  PROVE  LET R == ReplayRequests(trace, limit)
         IN /\ R \in Seq(Request)
            /\ \A k \in 1 .. Len(R) : R[k][2] > 0
            /\ \A i, j \in 1 .. Len(R) : i < j =>
                 \E a \in 1 .. Len(trace) : \E b \in 1 .. Len(trace) :
                   a < b /\ trace[a].req = R[i][1] /\ trace[b].req = R[j][1]
<1> DEFINE U == {k \in DOMAIN trace : Usable(trace[k])}
           c == Cardinality(U)
           S == SampleReqCnt
           q == (c + S - 1) \div S
           n == IF limit >= 0 /\ q > limit THEN limit ELSE q
           h(k) == Nth(U, (k - 1) * S)
           R == ReplayRequests(trace, limit)
<1>1. Len(trace) \in Nat /\ DOMAIN trace = 1 .. Len(trace)
  BY LenProperties
<1>2. U \subseteq 1 .. Len(trace) /\ IsFiniteSet(U) /\ c \in Nat /\ U \subseteq Int
  <2>1. U \subseteq 1 .. Len(trace)
    BY <1>1
  <2>2. IsFiniteSet(1 .. Len(trace)) /\ 1 .. Len(trace) \subseteq Int
    BY <1>1, FS_Interval
  <2> QED
    BY <2>1, <2>2, FS_Subset, FS_CardinalityType
<1>3. S \in Nat \ {0}
  BY SessionAssumption
<1>4. q \in Int /\ n \in Int /\ n <= q /\ q >= 0
  <2>1. q \in Int /\ q >= 0
    <3> HIDE DEF U, c, S
    <3> QED
      BY <1>2, <1>3
  <2> HIDE DEF q
  <2> QED
    BY <2>1, SessionAssumption
<1>5. Recorded(trace) = [k \in 1 .. c |-> trace[Nth(U, k - 1)]] /\ Len(Recorded(trace)) = c
  BY <1>2 DEF Recorded
<1>6. \A u \in U : u \in 1 .. Len(trace) /\ trace[u] \in Rec /\ trace[u].n > 0
  BY <1>1, ElementOfSeq DEF Usable
<1> HIDE DEF U, S
<1>7. ASSUME NEW k \in 1 .. q
      PROVE  /\ (k - 1) * S \in 0 .. c - 1
             /\ h(k) \in U
             /\ Recorded(trace)[(k - 1) * S + 1] = trace[h(k)]
  <2>1. (k - 1) * S \in 0 .. c - 1
    BY <1>2, <1>3, <1>7, StrideInside
  <2> DEFINE m == (k - 1) * S
  <2> HIDE DEF m
  <2>2. m + 1 \in 1 .. c /\ (m + 1) - 1 = m
    BY <1>2, <2>1 DEF m
  <2>3. Recorded(trace)[m + 1] = trace[Nth(U, m)]
    BY <1>5, <2>2
  <2>4. Nth(U, m) \in U
    BY <1>2, <2>1, NthWorks DEF m
  <2> QED
    BY <2>1, <2>3, <2>4 DEF m
<1> HIDE DEF q
<1>8. Strided(Recorded(trace)) = [k \in 1 .. q |-> Recorded(trace)[(k - 1) * S + 1]]
  BY <1>5 DEF Strided, q, S
<1> HIDE DEF c
<1>9. Len(Strided(Recorded(trace))) = q
  BY <1>4, <1>8
<1>10. R = [k \in 1 .. n |-> <<Strided(Recorded(trace))[k].req, Strided(Recorded(trace))[k].n>>]
  BY <1>9 DEF ReplayRequests
<1> HIDE DEF h, n, R
<1>11. ASSUME NEW k \in 1 .. n
       PROVE  R[k] = <<trace[h(k)].req, trace[h(k)].n>> /\ h(k) \in U
  <2>1. k \in 1 .. q
    BY <1>4, <1>11
  <2>2. Strided(Recorded(trace))[k] = trace[h(k)] /\ h(k) \in U
    BY <1>7, <1>8, <2>1
  <2> QED
    BY <1>10, <2>2
<1>12. ASSUME NEW k \in 1 .. n PROVE R[k] \in Request /\ R[k][2] > 0
  <2>1. R[k] = <<trace[h(k)].req, trace[h(k)].n>> /\ h(k) \in U
    BY <1>11
  <2>2. trace[h(k)] \in Rec /\ trace[h(k)].n > 0
    BY <1>6, <2>1
  <2> QED
    BY <2>1, <2>2 DEF Rec, Request
<1>13. R \in Seq(Request) /\ Len(R) = IF n >= 0 THEN n ELSE 0
  <2>1. CASE n >= 0
    <3>1. n \in Nat /\ R = [k \in 1 .. n |-> R[k]]
      BY <1>4, <1>10, <2>1
    <3>2. R \in Seq(Request)
      BY <1>12, <3>1, IsASeq
    <3> QED
      BY <2>1, <3>1, <3>2, LenProperties
  <2>2. CASE ~(n >= 0)
    <3>1. FALSE
      BY <1>4, <2>2 DEF n
    <3> QED
      BY <3>1
  <2> QED
    BY <2>1, <2>2
<1>14. ASSUME NEW i \in 1 .. Len(R), NEW j \in 1 .. Len(R), i < j
       PROVE  \E a \in 1 .. Len(trace) : \E b \in 1 .. Len(trace) :
                a < b /\ trace[a].req = R[i][1] /\ trace[b].req = R[j][1]
  <2>1. i \in 1 .. n /\ j \in 1 .. n /\ i \in 1 .. q /\ j \in 1 .. q /\ i \in Nat /\ j \in Nat
    BY <1>4, <1>13, <1>14
  <2> DEFINE x == (i - 1) * S
             y == (j - 1) * S
  <2>2. x < y /\ x \in 0 .. c - 1 /\ y \in 0 .. c - 1
    BY <1>3, <1>7, <1>14, <2>1, StrideGrows
  <2> HIDE DEF x, y
  <2>3. Nth(U, x) < Nth(U, y)
    BY <1>2, <2>2, NthGrows DEF c
  <2>4. h(i) < h(j)
    BY <2>3 DEF h, x, y
  <2>5. /\ R[i] = <<trace[h(i)].req, trace[h(i)].n>> /\ h(i) \in U
        /\ R[j] = <<trace[h(j)].req, trace[h(j)].n>> /\ h(j) \in U
    BY <1>11, <2>1
  <2>6. h(i) \in 1 .. Len(trace) /\ h(j) \in 1 .. Len(trace)
    BY <1>6, <2>5
  <2> QED
    BY <2>4, <2>5, <2>6
<1>15. \A k \in 1 .. Len(R) : R[k][2] > 0
  BY <1>12, <1>13, <1>4
<1> QED
  BY <1>13, <1>14, <1>15 DEF R

\* What the process keeps is what trace.jsonl holds.
LEMMA RecsAreRecords ==
  ASSUME NEW trace \in Seq(Rec), NEW recs \in RecFuns,
         DOMAIN recs = {trace[k].req : k \in 1 .. Len(trace)},
         \A k \in 1 .. Len(trace) : recs[trace[k].req] = trace[k]
  PROVE  recs = RecordsOf(trace)
<1>1. DOMAIN trace = 1 .. Len(trace)
  BY LenProperties
<1>2. recs = [r \in DOMAIN recs |-> recs[r]]
  BY DEF RecFuns
<1>3. ASSUME NEW r \in DOMAIN recs
      PROVE  recs[r] = trace[CHOOSE k \in DOMAIN trace : trace[k].req = r]
  <2> DEFINE m == CHOOSE k \in DOMAIN trace : trace[k].req = r
  <2>1. \E k \in DOMAIN trace : trace[k].req = r
    BY <1>1, <1>3
  <2>2. m \in DOMAIN trace /\ trace[m].req = r
    BY <2>1, Zenon
  <2> QED
    BY <1>1, <2>2
<1> DEFINE g(r) == trace[CHOOSE k \in DOMAIN trace : trace[k].req = r]
<1>4. {trace[k].req : k \in DOMAIN trace} = DOMAIN recs
  BY <1>1
<1>5. RecordsOf(trace) = [r \in DOMAIN recs |-> g(r)]
  BY <1>4, Zenon DEF RecordsOf
<1>6. \A r \in DOMAIN recs : recs[r] = g(r)
  BY <1>3
<1> HIDE DEF g
<1> QED
  BY <1>2, <1>5, <1>6

-----------------------------------------------------------------------------
(* Steps of the process *)

\* A running process has a directory, a list of requests and records of the right kind.
LEMMA ProcFields ==
  ASSUME IInv, Active
  PROVE  /\ proc \in ProcType
         /\ proc.dir \in Dirs /\ proc.todo \in Seq(Request) /\ proc.recs \in RecFuns
         /\ disk[proc.dir] \in Files
         /\ disk[proc.dir].trace \in Seq(Rec) /\ disk[proc.dir].rounds \in Seq(RoundRec)
         /\ plan[proc.dir] \in Seq(Request)
<1>1. proc \in ProcType
  <2>1. proc # NoProc
    BY DEF Active, NoProc
  <2> QED
    BY <2>1, Zenon DEF IInv, SessionTypes
<1>2. proc.dir \in Dirs /\ proc.todo \in Seq(Request) /\ proc.recs \in RecFuns
  BY <1>1 DEF ProcType
<1>3. disk[proc.dir] \in Files /\ plan[proc.dir] \in Seq(Request)
  BY <1>2 DEF IInv, SessionTypes
<1>4. disk[proc.dir].trace \in Seq(Rec) /\ disk[proc.dir].rounds \in Seq(RoundRec)
  BY <1>3 DEF Files
<1> QED
  BY <1>1, <1>2, <1>3, <1>4

\* A step that touches no file and visits nothing.
LEMMA ControlIInv ==
  ASSUME IInv, Active, proc' \in ProcType,
         proc'.dir = proc.dir, proc'.todo = proc.todo, proc'.recs = proc.recs,
         UNCHANGED <<order, disk, plan, ended, runs>>,
         srv' \in [dir : Dirs \cup {"none"}, done : BOOLEAN],
         RunPhases', CurrentRounds'
  PROVE  IInv'
<1>1. Active'
  BY DEF Active, ProcType
<1>2. SessionTypes'
  BY DEF IInv, SessionTypes
<1>3. PlansInOrder' /\ TraceFollowsPlan' /\ CompletedRounds'
  <2>1. PlansInOrder /\ PlansInOrder'
    BY DEF IInv, PlansInOrder, InOrder
  <2>2. TraceFollowsPlan'
    BY Zenon DEF IInv, TraceFollowsPlan
  <2>3. CompletedRounds'
    BY Zenon DEF IInv, CompletedRounds
  <2> QED
    BY <2>1, <2>2, <2>3
<1>4. RunContinuesTrace' /\ RecordsAreTrace'
  <2>1. RunContinuesTrace'
    BY DEF IInv, RunContinuesTrace
  <2>2. RecordsAreTrace'
    BY DEF IInv, RecordsAreTrace
  <2> QED
    BY <2>1, <2>2
<1>5. AtRest'
  BY <1>1 DEF IInv, AtRest, TxtWritten
<1> QED
  BY <1>2, <1>3, <1>4, <1>5 DEF IInv

\* Sync, answered or refused, keeps the invariant.
LEMMA SyncIInv ==
  ASSUME IInv, Sync
  PROVE  IInv'
<1>0. Active
  BY DEF Sync, Active
<1>1. proc \in ProcType /\ proc.dir \in Dirs
  BY <1>0, ProcFields
<1>a. srv \in [dir : Dirs \cup {"none"}, done : BOOLEAN]
  BY DEF IInv, SessionTypes
<1>2. CASE srv' = [dir |-> proc.dir, done |-> FALSE] /\ proc' = [proc EXCEPT !.pc = "next"]
  <2>1. /\ proc' \in ProcType /\ proc'.pc = "next" /\ proc'.mode = proc.mode
        /\ proc'.dir = proc.dir /\ proc'.todo = proc.todo /\ proc'.recs = proc.recs
        /\ proc'.opened = proc.opened /\ proc'.gen = proc.gen
    BY <1>1, <1>2 DEF ProcType
  <2>2. srv' \in [dir : Dirs \cup {"none"}, done : BOOLEAN] /\ srv'.dir = proc.dir
    BY <1>1, <1>2
  <2>3. RunPhases'
    BY <1>0, <2>1, <2>2 DEF Sync, IInv, RunPhases, Active
  <2>4. CurrentRounds'
    BY <1>0, <2>1 DEF Sync, IInv, CurrentRounds, Active
  <2> QED
    BY <1>0, <2>1, <2>2, <2>3, <2>4, ControlIInv DEF Sync
<1>3. CASE proc' = SyncFailed(proc) /\ UNCHANGED srv
  <2>1. /\ proc' \in ProcType /\ proc'.pc = "close" /\ proc'.mode = "failed"
        /\ proc'.dir = proc.dir /\ proc'.todo = proc.todo /\ proc'.recs = proc.recs
        /\ proc'.opened = proc.opened
    BY <1>1, <1>3 DEF ProcType, SyncFailed, Throw, NoGen, GenType
  <2>3. RunPhases'
    BY <1>0, <2>1 DEF Sync, IInv, RunPhases, Active
  <2>4. CurrentRounds'
    BY <1>0, <2>1 DEF Sync, IInv, CurrentRounds, Active
  <2> QED
    BY <1>0, <1>3, <1>a, <2>1, <2>3, <2>4, ControlIInv DEF Sync
<1> QED
  BY <1>2, <1>3 DEF Sync

\* An exception out of a round unwinds through the trace writer and keeps the invariant.
LEMMA RoundThrowsIInv ==
  ASSUME IInv, RoundThrows
  PROVE  IInv'
<1>0. Active
  BY DEF RoundThrows, Active
<1>1. proc \in ProcType /\ proc.dir \in Dirs
  BY <1>0, ProcFields
<1>a. srv' \in [dir : Dirs \cup {"none"}, done : BOOLEAN]
  BY DEF IInv, SessionTypes, RoundThrows
<1>2. /\ proc' \in ProcType /\ proc'.pc = "close" /\ proc'.mode = "failed"
      /\ proc'.dir = proc.dir /\ proc'.todo = proc.todo /\ proc'.recs = proc.recs
      /\ proc'.opened = proc.opened
  BY <1>1 DEF RoundThrows, ProcType, Throw, NoGen, GenType
<1>3. RunPhases'
  BY <1>0, <1>2 DEF RoundThrows, IInv, RunPhases, Active
<1>4. CurrentRounds'
  BY <1>0, <1>2 DEF RoundThrows, IInv, CurrentRounds, Active
<1> QED
  BY <1>0, <1>a, <1>2, <1>3, <1>4, ControlIInv DEF RoundThrows

\* Leaving Generate keeps the invariant.
LEMMA GenerateReturnsIInv ==
  ASSUME IInv, GenerateReturns
  PROVE  IInv'
<1>0. Active
  BY DEF GenerateReturns, Active
<1>1. proc \in ProcType /\ proc.dir \in Dirs
  BY <1>0, ProcFields
<1>a. srv' \in [dir : Dirs \cup {"none"}, done : BOOLEAN]
  BY DEF IInv, SessionTypes, GenerateReturns
<1>2. /\ proc' \in ProcType /\ proc'.pc = "add" /\ proc'.mode = proc.mode
      /\ proc'.dir = proc.dir /\ proc'.todo = proc.todo /\ proc'.recs = proc.recs
      /\ proc'.opened = proc.opened /\ proc'.gen = proc.gen
  BY <1>1 DEF GenerateReturns, ProcType
<1>3. RunPhases'
  BY <1>0, <1>2 DEF GenerateReturns, IInv, RunPhases, Active
<1>4. CurrentRounds'
  <2>1. proc.gen.step # 0
    BY DEF GenerateReturns, MoreRounds
  <2> QED
    BY <1>0, <1>2, <2>1 DEF GenerateReturns, IInv, CurrentRounds, Active, AddsUp
<1> QED
  BY <1>0, <1>a, <1>2, <1>3, <1>4, ControlIInv DEF GenerateReturns

\* Leaving the request loop keeps the invariant.
LEMMA AllVisitedIInv ==
  ASSUME IInv, AllVisited
  PROVE  IInv'
<1>0. Active
  BY DEF AllVisited, Active
<1>1. proc \in ProcType /\ proc.dir \in Dirs
  BY <1>0, ProcFields
<1>a. srv' \in [dir : Dirs \cup {"none"}, done : BOOLEAN]
  BY DEF IInv, SessionTypes, AllVisited
<1>2. /\ proc' \in ProcType /\ proc'.pc = "close" /\ proc'.mode = proc.mode
      /\ proc'.dir = proc.dir /\ proc'.todo = proc.todo /\ proc'.recs = proc.recs
      /\ proc'.opened = proc.opened /\ proc'.gen = proc.gen
  BY <1>1 DEF AllVisited, AfterLoop, ProcType
<1>3. RunPhases'
  BY <1>0, <1>2 DEF AllVisited, IInv, RunPhases, Active
<1>4. CurrentRounds'
  BY <1>0, <1>2 DEF AllVisited, IInv, CurrentRounds, Active, AddsUp
<1> QED
  BY <1>0, <1>a, <1>2, <1>3, <1>4, ControlIInv DEF AllVisited
\* A step that leaves every trace and every round log as it is.
LEMMA TracesKept ==
  ASSUME IInv, UNCHANGED <<order, plan>>,
         \A d \in Dirs : disk'[d].trace = disk[d].trace /\ disk'[d].rounds = disk[d].rounds
  PROVE  PlansInOrder' /\ TraceFollowsPlan' /\ CompletedRounds'
<1>1. PlansInOrder'
  BY DEF IInv, PlansInOrder, InOrder
<1>2. TraceFollowsPlan'
  BY DEF IInv, TraceFollowsPlan
<1>3. CompletedRounds'
  <2> SUFFICES ASSUME NEW d \in Dirs, NEW k \in 1 .. Len(disk'[d].trace),
                      disk'[d].trace[k].stop # "skipped_max_len"
               PROVE  LET log == RoundsOf(disk'[d].rounds, disk'[d].trace[k].req)
                      IN log # <<>> /\ AddsUp(log, disk'[d].trace[k].n)
    BY Zenon DEF CompletedRounds
  <2>1. disk'[d].trace = disk[d].trace /\ disk'[d].rounds = disk[d].rounds
    OBVIOUS
  <2> QED
    BY <2>1 DEF IInv, CompletedRounds
<1> QED
  BY <1>1, <1>2, <1>3

\* Closing trace.jsonl keeps the invariant.
LEMMA CloseTraceIInv ==
  ASSUME IInv, CloseTrace
  PROVE  IInv'
<1>0. Active
  BY DEF CloseTrace, Active
<1>1. /\ proc \in ProcType /\ proc.dir \in Dirs /\ disk[proc.dir] \in Files
      /\ disk \in [Dirs -> Files]
  BY <1>0, ProcFields DEF IInv, SessionTypes
<1>2. /\ proc' \in ProcType /\ proc'.pc = "write" /\ proc'.mode = proc.mode
      /\ proc'.dir = proc.dir /\ proc'.todo = proc.todo /\ proc'.recs = proc.recs
      /\ proc'.opened = proc.opened /\ ~proc'.open
  BY <1>1 DEF CloseTrace, ProcType
<1>3. /\ disk' \in [Dirs -> Files]
      /\ \A d \in Dirs : /\ disk'[d].trace = disk[d].trace /\ disk'[d].rounds = disk[d].rounds
                         /\ disk'[d].torn = disk[d].torn
                         /\ d # proc.dir => disk'[d] = disk[d]
  <2>1. [disk[proc.dir] EXCEPT !.txt = <<>>] \in Files
    BY <1>1 DEF Files, Txt
  <2> QED
    BY <1>1, <2>1 DEF CloseTrace, Files
<1>4. SessionTypes'
  BY <1>2, <1>3 DEF CloseTrace, IInv, SessionTypes
<1>5. PlansInOrder' /\ TraceFollowsPlan' /\ CompletedRounds'
  BY <1>3, TracesKept DEF CloseTrace
<1>6. RunContinuesTrace'
  <2>1. disk'[proc'.dir].trace = disk[proc.dir].trace
    BY <1>1, <1>2, <1>3
  <2>2. plan'[proc'.dir] = plan[proc.dir]
    BY <1>2 DEF CloseTrace
  <2> QED
    BY <1>0, <1>2, <2>1, <2>2 DEF IInv, RunContinuesTrace
<1>7. RecordsAreTrace'
  <2>1. disk'[proc'.dir].trace = disk[proc.dir].trace /\ proc'.recs = proc.recs
    BY <1>1, <1>2, <1>3
  <2> QED
    BY <1>0, <2>1, Zenon DEF IInv, RecordsAreTrace
<1>8. RunPhases'
  BY <1>0, <1>1, <1>2, <1>3 DEF CloseTrace, IInv, RunPhases
<1>9. AtRest'
  BY <1>0, <1>1, <1>2, <1>3 DEF CloseTrace, IInv, AtRest, Active, TxtWritten
<1>10. CurrentRounds'
  BY <1>0, <1>1, <1>2, <1>3 DEF CloseTrace, IInv, CurrentRounds
<1> QED
  BY <1>4, <1>5, <1>6, <1>7, <1>8, <1>9, <1>10 DEF IInv

\* The process is gone.
LEMMA GoneIInv ==
  ASSUME IInv, Active, proc' = NoProc, SessionTypes', UNCHANGED <<order, plan>>,
         \A d \in Dirs : /\ disk'[d].trace = disk[d].trace /\ disk'[d].rounds = disk[d].rounds
                         /\ d # proc.dir => disk'[d] = disk[d] /\ ended'[d] = ended[d],
         ended'[proc.dir] # "running",
         ended'[proc.dir] \in {"failed", "finished"} =>
           /\ ~disk'[proc.dir].torn
           /\ disk'[proc.dir].txt = SortedRecords(RecordsOf(disk'[proc.dir].trace))
  PROVE  IInv'
<1>1. ~Active'
  BY DEF Active, NoProc
<1>2. RunContinuesTrace' /\ RecordsAreTrace' /\ RunPhases' /\ CurrentRounds'
  BY <1>1 DEF RunContinuesTrace, RecordsAreTrace, RunPhases, CurrentRounds
<1>3. PlansInOrder' /\ TraceFollowsPlan' /\ CompletedRounds'
  BY TracesKept
<1>4. AtRest'
  <2> SUFFICES ASSUME NEW d \in Dirs
               PROVE  /\ ended'[d] # "running"
                      /\ ended'[d] \in {"failed", "finished"} =>
                           /\ ~disk'[d].torn
                           /\ disk'[d].txt = SortedRecords(RecordsOf(disk'[d].trace))
    BY DEF AtRest, TxtWritten
  <2>1. CASE d = proc.dir
    BY <2>1
  <2>2. CASE d # proc.dir
    BY <2>2 DEF IInv, AtRest, TxtWritten
  <2> QED
    BY <2>1, <2>2
<1> QED
  BY <1>2, <1>3, <1>4 DEF IInv

\* Writing the text file from the records keeps the invariant.
LEMMA WriteTxtIInv ==
  ASSUME IInv, WriteTxt
  PROVE  IInv'
<1>0. Active
  BY DEF WriteTxt, Active
<1>1. /\ proc \in ProcType /\ proc.dir \in Dirs /\ disk[proc.dir] \in Files
      /\ proc.recs \in RecFuns /\ disk[proc.dir].trace \in Seq(Rec)
      /\ disk \in [Dirs -> Files]
  BY <1>0, ProcFields DEF IInv, SessionTypes
<1> DEFINE new == SortedRecords(proc.recs)
<1>2. new \in Txt
  BY <1>1, Zenon DEF Txt
<1>3. proc.recs = RecordsOf(disk[proc.dir].trace)
  <2>1. /\ DOMAIN proc.recs = {disk[proc.dir].trace[k].req : k \in 1 .. Len(disk[proc.dir].trace)}
        /\ \A k \in 1 .. Len(disk[proc.dir].trace) :
             proc.recs[disk[proc.dir].trace[k].req] = disk[proc.dir].trace[k]
    BY <1>0, Zenon DEF IInv, RecordsAreTrace
  <2> QED
    BY <1>1, <2>1, RecsAreRecords
<1> HIDE DEF new
<1>4. disk' = [disk EXCEPT ![proc.dir].txt = new]
  BY DEF WriteTxt, new
<1>5. /\ disk' \in [Dirs -> Files]
      /\ \A d \in Dirs : /\ disk'[d].trace = disk[d].trace /\ disk'[d].rounds = disk[d].rounds
                         /\ disk'[d].torn = disk[d].torn
                         /\ d # proc.dir => disk'[d] = disk[d]
      /\ disk'[proc.dir].txt = new
  <2>1. [disk[proc.dir] EXCEPT !.txt = new] \in Files
    BY <1>1, <1>2 DEF Files
  <2> QED
    BY <1>1, <1>4, <2>1 DEF Files
<1>6. disk'[proc.dir].txt = SortedRecords(RecordsOf(disk'[proc.dir].trace))
  BY <1>1, <1>3, <1>5 DEF new
<1>7. CASE proc.mode = "live"
  <2>1. /\ proc' \in ProcType /\ proc'.pc = "notify" /\ proc'.mode = "live"
        /\ proc'.dir = proc.dir /\ proc'.todo = proc.todo /\ proc'.recs = proc.recs
        /\ proc'.opened = proc.opened /\ proc'.open = proc.open
    BY <1>1, <1>7 DEF WriteTxt, ProcType
  <2>2. SessionTypes'
    BY <1>5, <1>7, <2>1 DEF WriteTxt, IInv, SessionTypes
  <2>3. PlansInOrder' /\ TraceFollowsPlan' /\ CompletedRounds'
    BY <1>5, TracesKept DEF WriteTxt
  <2>a. disk'[proc'.dir].trace = disk[proc.dir].trace
    BY <1>1, <1>5, <2>1
  <2>b. plan'[proc'.dir] = plan[proc.dir]
    BY <2>1 DEF WriteTxt
  <2>4. RunContinuesTrace'
    BY <1>0, <2>1, <2>a, <2>b DEF IInv, RunContinuesTrace
  <2>5. RecordsAreTrace'
    BY <1>0, <2>1, <2>a DEF IInv, RecordsAreTrace
  <2>6. RunPhases'
    BY <1>0, <1>1, <1>5, <1>6, <1>7, <2>1, <2>a DEF WriteTxt, IInv, RunPhases, TxtWritten
  <2>7. AtRest'
    BY <1>0, <1>5, <1>7, <2>1 DEF WriteTxt, IInv, AtRest, Active, TxtWritten
  <2>8. CurrentRounds'
    BY <1>0, <1>1, <1>5, <2>1 DEF WriteTxt, IInv, CurrentRounds
  <2> QED
    BY <2>2, <2>3, <2>4, <2>5, <2>6, <2>7, <2>8 DEF IInv
<1>8. CASE proc.mode # "live"
  <2> DEFINE e == IF proc.mode = "failed" THEN "failed" ELSE "finished"
  <2>1. proc' = NoProc /\ ended' = [ended EXCEPT ![proc.dir] = e]
    BY <1>8 DEF WriteTxt
  <2>2. /\ ended' \in [Dirs -> {"never ran", "running", "killed", "failed", "finished"}]
        /\ ended'[proc.dir] # "running"
        /\ \A d \in Dirs : d # proc.dir => ended'[d] = ended[d]
    BY <1>1, <2>1 DEF IInv, SessionTypes
  <2>3. SessionTypes'
    BY <1>5, <2>1, <2>2 DEF WriteTxt, IInv, SessionTypes
  <2>4. ~disk'[proc.dir].torn
    BY <1>0, <1>1, <1>5 DEF IInv, RunPhases
  <2> QED
    BY <1>0, <1>5, <1>6, <2>1, <2>2, <2>3, <2>4, GoneIInv DEF WriteTxt
<1> QED
  BY <1>7, <1>8

\* Telling the server that the run is over keeps the invariant.
LEMMA NotifyDoneIInv ==
  ASSUME IInv, NotifyDone
  PROVE  IInv'
<1>0. Active
  BY DEF NotifyDone, Active
<1>1. proc \in ProcType /\ proc.dir \in Dirs
  BY <1>0, ProcFields
<1>2. ~proc.open /\ ~disk[proc.dir].torn /\ TxtWritten(proc.dir)
  BY <1>0 DEF NotifyDone, IInv, RunPhases
<1>3. proc' = NoProc
  BY <1>2 DEF NotifyDone, Destroyed
<1>4. ended' = [ended EXCEPT ![proc.dir] = "finished"]
  BY <1>2 DEF NotifyDone
<1>5. /\ ended' \in [Dirs -> {"never ran", "running", "killed", "failed", "finished"}]
      /\ ended'[proc.dir] = "finished"
      /\ \A d \in Dirs : d # proc.dir => ended'[d] = ended[d]
  BY <1>1, <1>4 DEF IInv, SessionTypes
<1>6. srv' \in [dir : Dirs \cup {"none"}, done : BOOLEAN]
  BY DEF NotifyDone, IInv, SessionTypes
<1>7. SessionTypes'
  BY <1>3, <1>5, <1>6 DEF NotifyDone, IInv, SessionTypes
<1> QED
  BY <1>0, <1>2, <1>3, <1>5, <1>7, GoneIInv DEF NotifyDone, TxtWritten

\* A kill, which runs no destructor, keeps the invariant.
LEMMA KillIInv ==
  ASSUME IInv, Kill
  PROVE  IInv'
<1>0. Active
  BY DEF Kill, Active
<1>1. /\ proc \in ProcType /\ proc.dir \in Dirs /\ disk[proc.dir] \in Files
      /\ disk \in [Dirs -> Files]
  BY <1>0, ProcFields DEF IInv, SessionTypes
<1>2. PICK t \in {disk[proc.dir].torn, Adding} : disk' = [disk EXCEPT ![proc.dir].torn = t]
  BY DEF Kill
<1>3. t \in BOOLEAN
  <2>1. disk[proc.dir].torn \in BOOLEAN
    BY <1>1 DEF Files
  <2>2. Adding \in BOOLEAN
    BY DEF Adding
  <2> QED
    BY <1>2, <2>1, <2>2, Zenon
<1>4. /\ disk' \in [Dirs -> Files]
      /\ \A d \in Dirs : /\ disk'[d].trace = disk[d].trace /\ disk'[d].rounds = disk[d].rounds
                         /\ d # proc.dir => disk'[d] = disk[d]
  <2>1. [disk[proc.dir] EXCEPT !.torn = t] \in Files
    BY <1>1, <1>3 DEF Files
  <2> QED
    BY <1>1, <1>2, <2>1 DEF Files
<1>5. proc' = NoProc /\ ended' = [ended EXCEPT ![proc.dir] = "killed"]
  BY DEF Kill
<1>6. /\ ended' \in [Dirs -> {"never ran", "running", "killed", "failed", "finished"}]
      /\ ended'[proc.dir] = "killed"
      /\ \A d \in Dirs : d # proc.dir => ended'[d] = ended[d]
  BY <1>1, <1>5 DEF IInv, SessionTypes
<1>7. SessionTypes'
  BY <1>4, <1>5, <1>6 DEF Kill, IInv, SessionTypes
<1> QED
  BY <1>0, <1>4, <1>5, <1>6, <1>7, GoneIInv DEF Kill

\* The request at hand is none of those before it or after it.
LEMMA HeadIsNew ==
  ASSUME IInv, Active, proc.todo # <<>>
  PROVE  /\ Head(proc.todo) = proc.todo[1] /\ Head(proc.todo) \in Request
         /\ Len(proc.todo) \in Nat \ {0}
         /\ \A k \in 1 .. Len(disk[proc.dir].trace) :
              disk[proc.dir].trace[k].req # Head(proc.todo)[1]
         /\ \A k \in 1 .. Len(proc.todo) : k > 1 => proc.todo[k][1] # Head(proc.todo)[1]
         /\ disk[proc.dir].trace \in Seq(Rec)
         /\ Head(proc.todo) = plan[proc.dir][Len(disk[proc.dir].trace) + 1]
<1> DEFINE T == disk[proc.dir].trace
           L == plan[proc.dir]
           n == Len(T)
<1>1. /\ proc.todo \in Seq(Request) /\ T \in Seq(Rec) /\ L \in Seq(Request) /\ proc.dir \in Dirs
  BY ProcFields
<1>2. /\ Head(proc.todo) = proc.todo[1] /\ Head(proc.todo) \in Request
      /\ Len(proc.todo) \in Nat \ {0} /\ n \in Nat /\ Len(L) \in Nat
  BY <1>1
<1>3. \A i, j \in 1 .. Len(L) : i # j => L[i][1] # L[j][1]
  BY <1>1, OnceInOrder DEF IInv, SessionTypes, PlansInOrder
<1>4. n + Len(proc.todo) = Len(L) /\ \A k \in 1 .. Len(proc.todo) : proc.todo[k] = L[n + k]
  BY DEF IInv, RunContinuesTrace
<1>5. n <= Len(L) /\ \A k \in 1 .. n : T[k].req = L[k][1]
  BY <1>1 DEF IInv, TraceFollowsPlan
<1> HIDE DEF T, L, n
<1>6. Head(proc.todo) = L[n + 1] /\ n + 1 \in 1 .. Len(L)
  BY <1>2, <1>4
<1>7. ASSUME NEW k \in 1 .. n PROVE T[k].req # Head(proc.todo)[1]
  <2>1. k \in 1 .. Len(L) /\ k # n + 1
    BY <1>2, <1>5, <1>7
  <2> QED
    BY <1>3, <1>5, <1>6, <2>1
<1>8. ASSUME NEW k \in 1 .. Len(proc.todo), k > 1 PROVE proc.todo[k][1] # Head(proc.todo)[1]
  <2>1. n + k \in 1 .. Len(L) /\ n + k # n + 1
    BY <1>2, <1>4, <1>8
  <2> QED
    BY <1>3, <1>4, <1>6, <1>8, <2>1
<1> QED
  BY <1>1, <1>2, <1>6, <1>7, <1>8 DEF T, L, n

\* A record is added: the trace grows by it and the request is passed.
LEMMA RecordIInv ==
  ASSUME IInv, Active, proc.todo # <<>>, proc.pc \in {"next", "add"},
         NEW rec \in Rec, rec.req = Head(proc.todo)[1],
         disk' = [disk EXCEPT ![proc.dir].trace = Append(@, rec)],
         proc' \in ProcType, proc'.pc = "next", proc'.gen = NoGen,
         proc'.dir = proc.dir, proc'.mode = proc.mode, proc'.opened = proc.opened,
         proc'.todo = Tail(proc.todo),
         proc'.recs = [r \in DOMAIN proc.recs \cup {rec.req} |->
                         IF r = rec.req THEN rec ELSE proc.recs[r]],
         rec.stop # "skipped_max_len" =>
           /\ proc.opened
           /\ RoundsOf(disk[proc.dir].rounds, rec.req) # <<>>
           /\ AddsUp(RoundsOf(disk[proc.dir].rounds, rec.req), rec.n),
         UNCHANGED <<order, srv, plan, ended, runs>>
  PROVE  IInv'
<1> DEFINE P == proc.dir
           T == disk[P].trace
           n == Len(T)
           N == disk'[P].trace
<1>1. /\ proc \in ProcType /\ P \in Dirs /\ disk[P] \in Files
      /\ proc.todo \in Seq(Request) /\ T \in Seq(Rec) /\ proc.recs \in RecFuns
      /\ disk \in [Dirs -> Files] /\ plan[P] \in Seq(Request)
  BY ProcFields DEF IInv, SessionTypes
<1>2. /\ disk' \in [Dirs -> Files]
      /\ \A d \in Dirs : d # P => disk'[d] = disk[d]
      /\ N = Append(T, rec) /\ disk'[P].rounds = disk[P].rounds
      /\ disk'[P].torn = disk[P].torn /\ disk'[P].txt = disk[P].txt
  <2>0. Append(T, rec) \in Seq(Rec)
    BY <1>1
  <2>1. [disk[P] EXCEPT !.trace = Append(@, rec)] \in Files
    BY <1>1, <2>0 DEF Files
  <2> QED
    BY <1>1, <2>1 DEF Files
<1>3. /\ Len(N) = n + 1 /\ n \in Nat /\ N[n + 1] = rec
      /\ \A k \in 1 .. n : N[k] = T[k]
      /\ \A k \in 1 .. n + 1 : k \in 1 .. n \/ k = n + 1
      /\ 1 .. n \subseteq 1 .. n + 1 /\ n + 1 \in 1 .. n + 1
  <2>1. n \in Nat
    BY <1>1
  <2>2. Len(N) = n + 1 /\ N[n + 1] = rec /\ \A k \in 1 .. n : N[k] = T[k]
    BY <1>1, <1>2, AppendProperties
  <2> QED
    BY <2>1, <2>2
<1>4. /\ Head(proc.todo) = proc.todo[1] /\ Len(proc.todo) \in Nat \ {0}
      /\ \A k \in 1 .. n : T[k].req # rec.req
      /\ \A k \in 1 .. Len(proc.todo) : k > 1 => proc.todo[k][1] # rec.req
      /\ Head(proc.todo) = plan[P][n + 1]
  BY HeadIsNew
<1>5. /\ Len(Tail(proc.todo)) = Len(proc.todo) - 1
      /\ \A k \in 1 .. Len(proc.todo) - 1 : Tail(proc.todo)[k] = proc.todo[k + 1]
  BY <1>1, <1>4
<1>6. n + Len(proc.todo) = Len(plan[P]) /\ \A k \in 1 .. Len(proc.todo) : proc.todo[k] = plan[P][n + k]
  BY DEF IInv, RunContinuesTrace
<1>7. /\ DOMAIN proc.recs = {T[k].req : k \in 1 .. n}
      /\ \A k \in 1 .. n : proc.recs[T[k].req] = T[k]
  BY Zenon DEF IInv, RecordsAreTrace
<1>8. Active'
  BY DEF Active
<1>a. disk'[proc'.dir].trace = N /\ disk'[proc'.dir].rounds = disk[P].rounds /\ plan'[proc'.dir] = plan[P]
  BY <1>2
<1>b. n \in Nat
  BY <1>3
<1> HIDE DEF T, n, N
<1>9. SessionTypes'
  BY <1>2 DEF IInv, SessionTypes
<1>10. PlansInOrder'
  BY DEF IInv, PlansInOrder, InOrder
<1>11. TraceFollowsPlan'
  <2> SUFFICES ASSUME NEW d \in Dirs
               PROVE  /\ Len(disk'[d].trace) <= Len(plan[d])
                      /\ \A k \in 1 .. Len(disk'[d].trace) : disk'[d].trace[k].req = plan[d][k][1]
    BY DEF TraceFollowsPlan
  <2>1. Len(disk[d].trace) <= Len(plan[d])
        /\ \A k \in 1 .. Len(disk[d].trace) : disk[d].trace[k].req = plan[d][k][1]
    BY DEF IInv, TraceFollowsPlan
  <2>2. CASE d # P
    BY <1>2, <2>1, <2>2
  <2>3. CASE d = P
    <3>1. n + 1 <= Len(plan[P])
      BY <1>3, <1>4, <1>6
    <3>2. ASSUME NEW k \in 1 .. n + 1 PROVE N[k].req = plan[P][k][1]
      <4>1. CASE k \in 1 .. n
        BY <1>3, <2>1, <2>3, <4>1, SMTT(30) DEF T, n
      <4>2. CASE k = n + 1
        BY <1>3, <1>4, <4>2
      <4> QED
        BY <1>3, <4>1, <4>2
    <3> QED
      BY <1>3, <2>3, <3>1, <3>2 DEF N
  <2> QED
    BY <2>2, <2>3
<1>12. RunContinuesTrace'
  <2>1. (n + 1) + (Len(proc.todo) - 1) = Len(plan[P])
    <3>1. Len(proc.todo) \in Int /\ n + Len(proc.todo) = Len(plan[P])
      BY <1>4, <1>6
    <3> QED
      BY <1>b, <3>1
  <2>2. ASSUME NEW k \in 1 .. Len(proc.todo) - 1
        PROVE  Tail(proc.todo)[k] = plan[P][(n + 1) + k]
    <3>1. k + 1 \in 1 .. Len(proc.todo) /\ n + (k + 1) = (n + 1) + k
      BY <1>3, <1>4, <2>2
    <3> QED
      BY <1>5, <1>6, <3>1
  <2> QED
    <3>1. Len(N) = n + 1 /\ Len(proc'.todo) = Len(proc.todo) - 1
      BY <1>3, <1>5
    <3>2. /\ Len(N) + Len(proc'.todo) = Len(plan[P])
          /\ \A k \in 1 .. Len(proc'.todo) : proc'.todo[k] = plan[P][Len(N) + k]
      BY <2>1, <2>2, <3>1
    <3> QED
      BY <1>a, <3>2, ZenonT(40) DEF RunContinuesTrace
<1>13. RecordsAreTrace'
  <2>1. DOMAIN proc'.recs = DOMAIN proc.recs \cup {rec.req}
    OBVIOUS
  <2>2. DOMAIN proc'.recs = {N[k].req : k \in 1 .. n + 1}
    BY <1>3, <1>7, <2>1
  <2>3. ASSUME NEW k \in 1 .. n + 1 PROVE proc'.recs[N[k].req] = N[k]
    <3>1. CASE k = n + 1
      BY <1>3, <3>1
    <3>2. CASE k \in 1 .. n
      BY <1>3, <1>4, <1>7, <3>2
    <3> QED
      BY <1>3, <3>1, <3>2
  <2> QED
    <3>1. Len(N) = n + 1
      BY <1>3
    <3> DEFINE D == disk'[proc'.dir].trace
    <3>2. D = N /\ Len(D) = n + 1
      BY <1>a, <3>1
    <3> HIDE DEF D
    <3>a. {D[k].req : k \in 1 .. Len(D)} = {N[k].req : k \in 1 .. n + 1}
      BY <3>2
    <3>b. DOMAIN proc'.recs = {D[k].req : k \in 1 .. Len(D)}
      BY <2>2, <3>a, Zenon
    <3>c. \A k \in 1 .. Len(D) : proc'.recs[D[k].req] = D[k]
      BY <2>3, <3>2
    <3>3. /\ DOMAIN proc'.recs = {D[k].req : k \in 1 .. Len(D)}
          /\ \A k \in 1 .. Len(D) : proc'.recs[D[k].req] = D[k]
      BY <3>b, <3>c, Zenon
    <3> QED
      BY <3>3, Zenon DEF RecordsAreTrace, D
<1>14. RunPhases'
  BY <1>2 DEF IInv, RunPhases
<1>15. AtRest'
  BY <1>2, <1>8 DEF IInv, AtRest, TxtWritten
<1>16. CompletedRounds'
  <2> SUFFICES ASSUME NEW d \in Dirs, NEW k \in 1 .. Len(disk'[d].trace),
                      disk'[d].trace[k].stop # "skipped_max_len"
               PROVE  LET log == RoundsOf(disk'[d].rounds, disk'[d].trace[k].req)
                      IN log # <<>> /\ AddsUp(log, disk'[d].trace[k].n)
    BY Zenon DEF CompletedRounds
  <2>1. CASE d # P
    <3>1. disk'[d] = disk[d]
      BY <1>2, <2>1
    <3> QED
      BY <3>1 DEF IInv, CompletedRounds
  <2>2. CASE d = P /\ k \in 1 .. n
    <3>1. disk'[d].rounds = disk[d].rounds /\ disk'[d].trace[k] = disk[d].trace[k]
      BY <1>2, <1>3, <2>2 DEF T, N
    <3> QED
      BY <2>2, <3>1 DEF IInv, CompletedRounds, n, T
  <2>3. CASE d = P /\ k = n + 1
    <3>1. disk'[d].rounds = disk[P].rounds /\ disk'[d].trace[k] = rec
      BY <1>2, <1>3, <2>3 DEF N
    <3> QED
      BY <3>1
  <2>4. k \in 1 .. n + 1 \/ d # P
    BY <1>3 DEF N
  <2> QED
    BY <1>3, <2>1, <2>2, <2>3, <2>4
<1>17. CurrentRounds'
  <2>1. ASSUME proc.opened, NEW k \in 1 .. Len(proc.todo) - 1
        PROVE  \A i \in 1 .. Len(disk[P].rounds) : disk[P].rounds[i].req # Tail(proc.todo)[k][1]
    <3>1. k + 1 \in 1 .. Len(proc.todo) /\ k + 1 > 1
      BY <1>4, <2>1
    <3> QED
      BY <1>5, <2>1, <3>1 DEF IInv, CurrentRounds
  <2>2. ASSUME ~proc.opened, NEW k \in 1 .. n + 1 PROVE N[k].stop = "skipped_max_len"
    <3>1. CASE k = n + 1
      BY <1>3, <2>2, <3>1
    <3>2. CASE k \in 1 .. n
      BY <1>3, <2>2, <3>2 DEF IInv, CurrentRounds, T, n
    <3> QED
      BY <1>3, <3>1, <3>2
  <2> QED
    <3> DEFINE q == proc'
               E == disk'[q.dir]
    <3>1. q.pc = "next" /\ q.gen = NoGen /\ q.opened = proc.opened /\ q.todo = Tail(proc.todo)
      OBVIOUS
    <3>2. E.trace = N /\ E.rounds = disk[P].rounds /\ Len(q.todo) = Len(proc.todo) - 1
      BY <1>5, <1>a, <3>1
    <3> HIDE DEF q, E
    <3>3. ASSUME q.opened, NEW k \in 1 .. Len(q.todo), NEW i \in 1 .. Len(E.rounds)
          PROVE  E.rounds[i].req # q.todo[k][1]
      BY <2>1, <3>1, <3>2, <3>3
    <3>4. ASSUME ~q.opened, NEW k \in 1 .. Len(E.trace) PROVE E.trace[k].stop = "skipped_max_len"
      BY <1>3, <2>2, <3>1, <3>2, <3>4
    <3> QED
      BY <3>1, <3>3, <3>4 DEF CurrentRounds, q, E
<1> QED
  BY <1>9, <1>10, <1>11, <1>12, <1>13, <1>14, <1>15, <1>16, <1>17 DEF IInv

\* Adding or replacing one record leaves a table of records.
LEMMA RecsGrow ==
  ASSUME NEW recs \in RecFuns, NEW rec \in Rec
  PROVE  [r \in DOMAIN recs \cup {rec.req} |-> IF r = rec.req THEN rec ELSE recs[r]] \in RecFuns
<1>1. PICK D \in SUBSET RequestIndices : recs \in [D -> Rec]
  BY DEF RecFuns
<1>2. rec.req \in RequestIndices
  BY DEF Rec
<1>3. DOMAIN recs = D
  BY <1>1
<1>4. [r \in D \cup {rec.req} |-> IF r = rec.req THEN rec ELSE recs[r]] \in [D \cup {rec.req} -> Rec]
  BY <1>1
<1>5. D \cup {rec.req} \in SUBSET RequestIndices
  BY <1>2
<1> QED
  BY <1>3, <1>4, <1>5, Zenon DEF RecFuns

\* Skipping a request whose prompt does not fit keeps the invariant.
LEMMA SkipRequestIInv ==
  ASSUME IInv, SkipRequest
  PROVE  IInv'
<1>0. Active /\ proc.todo # <<>> /\ proc.pc = "next"
  BY DEF SkipRequest, Active
<1>1. /\ proc \in ProcType /\ proc.dir \in Dirs /\ proc.recs \in RecFuns
      /\ proc.todo \in Seq(Request)
  BY <1>0, ProcFields
<1>2. Head(proc.todo) \in Request
  BY <1>0, HeadIsNew
<1> DEFINE rec == [req |-> Head(proc.todo)[1], stop |-> "skipped_max_len", n |-> 0]
           recs == [r \in DOMAIN proc.recs \cup {rec.req} |->
                      IF r = rec.req THEN rec ELSE proc.recs[r]]
<1>3. rec \in Rec /\ rec.req = Head(proc.todo)[1] /\ rec.stop = "skipped_max_len"
  BY <1>2 DEF Rec, Stops, Request
<1>4. recs \in RecFuns
  <2> HIDE DEF rec
  <2> QED
    BY <1>1, <1>3, RecsGrow
<1>5. /\ disk' = [disk EXCEPT ![proc.dir].trace = Append(@, rec)]
      /\ proc' = [[proc EXCEPT !.todo = Tail(@)] EXCEPT !.recs = recs]
  <2>1. PICK r \in {rec} : /\ disk' = [disk EXCEPT ![proc.dir].trace = Append(@, r)]
                           /\ proc' = AddRecord(Passed(proc), r)
    BY DEF SkipRequest
  <2>2. r = rec
    BY <2>1
  <2>3. Passed(proc) = [proc EXCEPT !.todo = Tail(@)] /\ Passed(proc).recs = proc.recs
    BY <1>1 DEF Passed, ProcType
  <2> HIDE DEF rec
  <2>4. AddRecord(Passed(proc), rec) = [Passed(proc) EXCEPT !.recs = recs]
    BY <2>3, Zenon DEF AddRecord
  <2> QED
    BY <2>1, <2>2, <2>3, <2>4, Zenon
<1>6. proc.gen = NoGen
  BY <1>0 DEF IInv, CurrentRounds
<1>7. Tail(proc.todo) \in Seq(Request)
  BY <1>0, <1>1
<1> HIDE DEF rec, recs
<1>8. /\ proc' \in ProcType /\ proc'.pc = "next" /\ proc'.gen = NoGen
      /\ proc'.dir = proc.dir /\ proc'.mode = proc.mode /\ proc'.opened = proc.opened
      /\ proc'.todo = Tail(proc.todo) /\ proc'.recs = recs
  BY <1>0, <1>1, <1>4, <1>5, <1>6, <1>7 DEF ProcType
<1>9. UNCHANGED <<order, srv, plan, ended, runs>>
  BY DEF SkipRequest
<1> QED
  BY <1>0, <1>3, <1>5, <1>8, <1>9, RecordIInv DEF recs

\* Recording a finished request keeps the invariant.
LEMMA FinishRequestIInv ==
  ASSUME IInv, FinishRequest
  PROVE  IInv'
<1>0. Active /\ proc.todo # <<>> /\ proc.pc = "add"
  BY DEF FinishRequest, Active, IInv, RunPhases
<1>1. /\ proc \in ProcType /\ proc.dir \in Dirs /\ proc.recs \in RecFuns
      /\ proc.todo \in Seq(Request) /\ disk[proc.dir].rounds \in Seq(RoundRec)
  BY <1>0, ProcFields
<1>2. Head(proc.todo) \in Request
  BY <1>0, HeadIsNew
<1> DEFINE rec == [req |-> Head(proc.todo)[1], stop |-> StopReason(proc), n |-> proc.gen.n]
           recs == [r \in DOMAIN proc.recs \cup {rec.req} |->
                      IF r = rec.req THEN rec ELSE proc.recs[r]]
<1>3. rec \in Rec /\ rec.req = Head(proc.todo)[1] /\ rec.n = proc.gen.n
  BY <1>1, <1>2 DEF Rec, Stops, Request, StopReason, ProcType, GenType
<1>4. recs \in RecFuns
  <2> HIDE DEF rec
  <2> QED
    BY <1>1, <1>3, RecsGrow
<1>5. /\ disk' = [disk EXCEPT ![proc.dir].trace = Append(@, rec)]
      /\ proc' = [[[proc EXCEPT !.todo = Tail(@)] EXCEPT !.recs = recs]
                    EXCEPT !.pc = "next", !.gen = NoGen]
  <2>1. PICK r \in {rec} : /\ disk' = [disk EXCEPT ![proc.dir].trace = Append(@, r)]
                           /\ proc' = [AddRecord(Passed(proc), r) EXCEPT !.pc = "next", !.gen = NoGen]
    BY DEF FinishRequest
  <2>2. r = rec
    BY <2>1
  <2>3. Passed(proc) = [proc EXCEPT !.todo = Tail(@)] /\ Passed(proc).recs = proc.recs
    BY <1>1 DEF Passed, ProcType
  <2> HIDE DEF rec
  <2>4. AddRecord(Passed(proc), rec) = [Passed(proc) EXCEPT !.recs = recs]
    BY <2>3, Zenon DEF AddRecord
  <2> QED
    BY <2>1, <2>2, <2>3, <2>4, Zenon
<1>7. Tail(proc.todo) \in Seq(Request)
  BY <1>0, <1>1
<1> DEFINE log == RoundsOf(disk[proc.dir].rounds, Head(proc.todo)[1])
<1>b. proc.opened /\ AddsUp(log, proc.gen.n) /\ Len(log) = proc.gen.step /\ proc.gen.step # 0
  BY <1>0 DEF IInv, CurrentRounds
<1>c. log # <<>>
  <2>1. Len(log) # 0
    BY <1>b
  <2> HIDE DEF log
  <2> QED
    BY <2>1
<1> HIDE DEF rec, recs
<1>8. /\ proc' \in ProcType /\ proc'.pc = "next" /\ proc'.gen = NoGen
      /\ proc'.dir = proc.dir /\ proc'.mode = proc.mode /\ proc'.opened = proc.opened
      /\ proc'.todo = Tail(proc.todo) /\ proc'.recs = recs
  BY <1>0, <1>1, <1>4, <1>5, <1>7 DEF ProcType, NoGen, GenType
<1>9. UNCHANGED <<order, srv, plan, ended, runs>>
  BY DEF FinishRequest
<1>10. /\ RoundsOf(disk[proc.dir].rounds, rec.req) # <<>>
       /\ AddsUp(RoundsOf(disk[proc.dir].rounds, rec.req), rec.n)
  BY <1>3, <1>b, <1>c
<1> QED
  BY <1>0, <1>3, <1>5, <1>8, <1>9, <1>10, <1>b, RecordIInv DEF recs

\* Admitting the next request keeps the invariant.
LEMMA AdmitRequestIInv ==
  ASSUME IInv, AdmitRequest
  PROVE  IInv'
<1>0. Active /\ proc.todo # <<>> /\ proc.pc = "next"
  BY DEF AdmitRequest, Active
<1> DEFINE P == proc.dir
<1>1. /\ proc \in ProcType /\ P \in Dirs /\ disk[P] \in Files /\ disk \in [Dirs -> Files]
      /\ disk[P].rounds \in Seq(RoundRec) /\ proc.todo \in Seq(Request)
  BY <1>0, ProcFields DEF IInv, SessionTypes
<1>2. /\ proc' \in ProcType /\ proc'.pc = "round" /\ proc'.gen = proc.gen /\ proc'.opened
      /\ proc'.dir = proc.dir /\ proc'.mode = proc.mode
      /\ proc'.todo = proc.todo /\ proc'.recs = proc.recs
  BY <1>1 DEF AdmitRequest, ProcType
<1>3. /\ disk' \in [Dirs -> Files]
      /\ \A d \in Dirs : /\ d # P => disk'[d] = disk[d]
                         /\ disk'[d].trace = disk[d].trace /\ disk'[d].torn = disk[d].torn
                         /\ disk'[d].txt = disk[d].txt
      /\ disk'[P].rounds = IF proc.opened THEN disk[P].rounds ELSE <<>>
      /\ disk'[P].rounds \in Seq(RoundRec)
  <2>0. <<>> \in Seq(RoundRec)
    OBVIOUS
  <2>1. [disk[P] EXCEPT !.rounds = <<>>] \in Files
    BY <1>1, <2>0 DEF Files
  <2>2. OpenRounds(disk[P], proc.opened) \in Files
    BY <1>1, <2>1 DEF OpenRounds
  <2>3. disk' = [disk EXCEPT ![P] = OpenRounds(@, proc.opened)]
    BY DEF AdmitRequest
  <2>4. OpenRounds(disk[P], proc.opened).rounds = IF proc.opened THEN disk[P].rounds ELSE <<>>
    BY <1>1 DEF OpenRounds, Files
  <2> QED
    BY <1>1, <2>2, <2>3, <2>4 DEF OpenRounds, Files
<1>4. proc.gen = NoGen /\ proc.gen.n = 0 /\ proc.gen.step = 0
  BY <1>0 DEF IInv, CurrentRounds, NoGen
<1>5. ASSUME NEW k \in 1 .. Len(proc.todo), NEW i \in 1 .. Len(disk'[P].rounds)
      PROVE  disk'[P].rounds[i].req # proc.todo[k][1]
  <2>1. CASE proc.opened
    BY <1>0, <1>3, <1>5, <2>1 DEF IInv, CurrentRounds
  <2>2. CASE ~proc.opened
    BY <1>3, <1>5, <2>2
  <2> QED
    BY <2>1, <2>2
<1>6. Len(proc.todo) \in Nat \ {0} /\ Head(proc.todo) = proc.todo[1]
  BY <1>0, HeadIsNew
<1>7. SessionTypes'
  BY <1>2, <1>3 DEF AdmitRequest, IInv, SessionTypes
<1>8. PlansInOrder' /\ TraceFollowsPlan'
  <2>1. PlansInOrder'
    BY DEF AdmitRequest, IInv, PlansInOrder, InOrder
  <2>2. TraceFollowsPlan'
    BY <1>3 DEF AdmitRequest, IInv, TraceFollowsPlan
  <2> QED
    BY <2>1, <2>2
<1>9. RunContinuesTrace' /\ RecordsAreTrace'
  <2>1. disk'[proc'.dir].trace = disk[P].trace /\ plan'[proc'.dir] = plan[P]
    BY <1>1, <1>2, <1>3 DEF AdmitRequest
  <2>2. RunContinuesTrace'
    BY <1>0, <1>2, <2>1 DEF IInv, RunContinuesTrace
  <2>3. RecordsAreTrace'
    BY <1>0, <1>2, <2>1 DEF IInv, RecordsAreTrace
  <2> QED
    BY <2>2, <2>3
<1>10. RunPhases'
  BY <1>0, <1>1, <1>2, <1>3 DEF AdmitRequest, IInv, RunPhases
<1>11. AtRest'
  BY <1>0, <1>2, <1>3 DEF AdmitRequest, IInv, AtRest, Active, TxtWritten
<1>12. CompletedRounds'
  <2> SUFFICES ASSUME NEW d \in Dirs, NEW k \in 1 .. Len(disk'[d].trace),
                      disk'[d].trace[k].stop # "skipped_max_len"
               PROVE  LET log == RoundsOf(disk'[d].rounds, disk'[d].trace[k].req)
                      IN log # <<>> /\ AddsUp(log, disk'[d].trace[k].n)
    BY Zenon DEF CompletedRounds
  <2>0. disk'[d].trace = disk[d].trace
    BY <1>3
  <2>1. disk'[d].rounds = disk[d].rounds
    <3>1. CASE d # P
      BY <1>3, <3>1
    <3>2. CASE d = P
      <4>1. proc.opened
        BY <1>0, <2>0, <3>2 DEF IInv, CurrentRounds
      <4> QED
        BY <1>3, <3>2, <4>1
    <3> QED
      BY <3>1, <3>2
  <2> QED
    BY <2>0, <2>1 DEF IInv, CompletedRounds
<1>13. CurrentRounds'
  <2> DEFINE log == RoundsOf(disk'[P].rounds, Head(proc.todo)[1])
  <2>1. \A i \in 1 .. Len(disk'[P].rounds) : disk'[P].rounds[i].req # Head(proc.todo)[1]
    BY <1>5, <1>6
  <2>2. log = <<>> /\ Len(log) = 0
    BY <1>3, <2>1, RoundsNone
  <2>3. AddsUp(log, proc.gen.n)
    BY <2>2 DEF AddsUp
  <2>4. disk'[proc'.dir].rounds = disk'[P].rounds /\ proc'.todo = proc.todo
    BY <1>2
  <2> QED
    BY <1>2, <1>4, <1>5, <2>2, <2>3, <2>4 DEF CurrentRounds
<1> QED
  BY <1>7, <1>8, <1>9, <1>10, <1>11, <1>12, <1>13 DEF IInv

\* One more round, which starts where the log ends.
LEMMA AddsUpGrows ==
  ASSUME NEW old \in Seq(RoundRec), NEW new \in Seq(RoundRec), NEW n \in Nat, AddsUp(old, n),
         NEW e \in RoundRec, e.step = Len(old), e.ctx = PromptLen + n, Len(old) = 0 => n = 0,
         Len(new) = Len(old) + 1, \A k \in 1 .. Len(old) : new[k] = old[k],
         new[Len(old) + 1] = e
  PROVE  AddsUp(new, n + e.acc)
<1> DEFINE m == Len(old)
<1>1. /\ m \in Nat /\ PromptLen \in Nat /\ e.acc \in Nat /\ e.step \in Nat
      /\ DOMAIN new = 1 .. m + 1 /\ DOMAIN old = 1 .. m
  BY LenProperties, SessionAssumption DEF RoundRec
<1>m. m \in Nat
  BY <1>1
<1>2. new[1].ctx = PromptLen
  <2>1. CASE m = 0
    BY <1>1, <2>1
  <2>2. CASE m # 0
    <3>1. old # <<>> /\ 1 \in 1 .. m
      BY <1>1, <2>2
    <3> QED
      BY <3>1 DEF AddsUp
  <2> QED
    BY <2>1, <2>2
<1>3. ASSUME NEW i \in 1 .. m + 1
      PROVE  /\ new[i].step = i - 1
             /\ new[i].ctx + new[i].acc =
                  IF i = m + 1 THEN PromptLen + (n + e.acc) ELSE new[i + 1].ctx
  <2>1. CASE i = m + 1
    BY <1>1, <2>1
  <2>2. CASE i \in 1 .. m
    <3>1. /\ old[i].step = i - 1
          /\ old[i].ctx + old[i].acc = IF i = m THEN PromptLen + n ELSE old[i + 1].ctx
      BY <1>1, <2>2 DEF AddsUp
    <3>2. CASE i = m
      <4>1. i # m + 1 /\ i + 1 = m + 1
        BY <1>m, <3>2
      <4> QED
        BY <1>1, <2>2, <3>1, <3>2, <4>1
    <3>3. CASE i # m
      <4>1. i + 1 \in 1 .. m /\ i # m + 1
        <5> HIDE DEF m
        <5> QED
          BY <1>m, <2>2, <3>3
      <4>2. new[i] = old[i] /\ new[i + 1] = old[i + 1]
        BY <2>2, <4>1
      <4> QED
        BY <3>1, <3>3, <4>1, <4>2
    <3> QED
      BY <3>2, <3>3
  <2> QED
    BY <1>1, <1>3, <2>1, <2>2
<1> QED
  BY <1>1, <1>2, <1>3 DEF AddsUp

\* One round, and the line it logs, keeps the invariant.
LEMMA RoundIInv ==
  ASSUME IInv, Round
  PROVE  IInv'
<1>0. Active /\ proc.todo # <<>> /\ proc.pc = "round" /\ proc.opened
  BY DEF Round, Active, IInv, RunPhases, CurrentRounds
<1> DEFINE P == proc.dir
           L == disk[P].rounds
           h == Head(proc.todo)[1]
<1>1. /\ proc \in ProcType /\ P \in Dirs /\ disk[P] \in Files /\ disk \in [Dirs -> Files]
      /\ L \in Seq(RoundRec) /\ proc.todo \in Seq(Request)
  BY <1>0, ProcFields DEF IInv, SessionTypes
<1>2. PICK acc \in 1 .. MaxRound : \E met \in BOOLEAN :
        /\ disk' = [disk EXCEPT ![P].rounds =
                      Append(@, [req |-> h, step |-> proc.gen.step,
                                 ctx |-> PromptLen + proc.gen.n, acc |-> acc])]
        /\ proc' = [proc EXCEPT !.gen =
                      [step |-> @.step + 1, n |-> @.n + acc,
                       warm |-> IF @.step = 0 THEN acc ELSE @.warm,
                       eog  |-> met /\ @.step > 0]]
  BY DEF Round
<1>3. PICK met \in BOOLEAN :
        /\ disk' = [disk EXCEPT ![P].rounds =
                      Append(@, [req |-> h, step |-> proc.gen.step,
                                 ctx |-> PromptLen + proc.gen.n, acc |-> acc])]
        /\ proc' = [proc EXCEPT !.gen =
                      [step |-> @.step + 1, n |-> @.n + acc,
                       warm |-> IF @.step = 0 THEN acc ELSE @.warm,
                       eog  |-> met /\ @.step > 0]]
  BY <1>2
<1> DEFINE e == [req |-> h, step |-> proc.gen.step, ctx |-> PromptLen + proc.gen.n, acc |-> acc]
           g == [step |-> proc.gen.step + 1, n |-> proc.gen.n + acc,
                 warm |-> IF proc.gen.step = 0 THEN acc ELSE proc.gen.warm,
                 eog  |-> met /\ proc.gen.step > 0]
<1>4. /\ proc.gen \in GenType /\ proc.gen.step \in Nat /\ proc.gen.n \in Nat
      /\ proc.gen.warm \in Nat /\ acc \in Nat
      /\ PromptLen \in Nat
  BY <1>1, SessionAssumption DEF ProcType, GenType
<1>5. /\ h \in RequestIndices /\ Len(proc.todo) \in Nat \ {0} /\ Head(proc.todo) = proc.todo[1]
      /\ \A k \in 1 .. Len(disk[P].trace) : disk[P].trace[k].req # h
      /\ \A k \in 1 .. Len(proc.todo) : k > 1 => proc.todo[k][1] # h
  BY <1>0, HeadIsNew DEF Request
<1>6. /\ e \in RoundRec /\ e.req = h /\ e.step = proc.gen.step
      /\ e.ctx = PromptLen + proc.gen.n /\ e.acc = acc
  BY <1>4, <1>5 DEF RoundRec
<1>7. g \in GenType /\ g.step = proc.gen.step + 1 /\ g.n = proc.gen.n + acc
  <2>1. (met /\ proc.gen.step > 0) \in BOOLEAN
    BY Zenon
  <2>2. (IF proc.gen.step = 0 THEN acc ELSE proc.gen.warm) \in Nat
    BY <1>4
  <2> QED
    BY <1>4, <2>1, <2>2 DEF GenType
<1>8. disk' = [disk EXCEPT ![P].rounds = Append(@, e)]
  BY <1>3
<1>9. proc' = [proc EXCEPT !.gen = g]
  BY <1>3
<1> HIDE DEF e, g
<1>10. /\ proc' \in ProcType /\ proc'.pc = "round" /\ proc'.gen = g /\ proc'.opened
       /\ proc'.dir = proc.dir /\ proc'.mode = proc.mode
       /\ proc'.todo = proc.todo /\ proc'.recs = proc.recs
  BY <1>0, <1>1, <1>7, <1>9 DEF ProcType
<1>11. Append(L, e) \in Seq(RoundRec)
  BY <1>1, <1>6
<1>12. /\ disk' \in [Dirs -> Files]
       /\ \A d \in Dirs : /\ d # P => disk'[d] = disk[d]
                          /\ disk'[d].trace = disk[d].trace /\ disk'[d].torn = disk[d].torn
                          /\ disk'[d].txt = disk[d].txt
       /\ disk'[P].rounds = Append(L, e)
  <2>1. [disk[P] EXCEPT !.rounds = Append(@, e)] \in Files
    BY <1>1, <1>11 DEF Files
  <2> QED
    BY <1>1, <1>8, <2>1 DEF Files
<1>13. SessionTypes'
  BY <1>10, <1>12 DEF Round, IInv, SessionTypes
<1>14. PlansInOrder' /\ TraceFollowsPlan'
  <2>1. PlansInOrder'
    BY DEF Round, IInv, PlansInOrder, InOrder
  <2>2. TraceFollowsPlan'
    BY <1>12 DEF Round, IInv, TraceFollowsPlan
  <2> QED
    BY <2>1, <2>2
<1>15. RunContinuesTrace' /\ RecordsAreTrace'
  <2>1. disk'[proc'.dir].trace = disk[P].trace /\ plan'[proc'.dir] = plan[P]
    BY <1>1, <1>10, <1>12 DEF Round
  <2>2. RunContinuesTrace'
    BY <1>0, <1>10, <2>1 DEF IInv, RunContinuesTrace
  <2>3. RecordsAreTrace'
    <3> DEFINE T == disk[P].trace
               R == proc.recs
    <3>1. disk'[proc'.dir].trace = T /\ proc'.recs = R
      BY <1>10, <2>1
    <3>2. /\ DOMAIN R = {T[k].req : k \in 1 .. Len(T)}
          /\ \A k \in 1 .. Len(T) : R[T[k].req] = T[k]
      BY <1>0 DEF IInv, RecordsAreTrace
    <3> HIDE DEF T, R
    <3> QED
      BY <3>1, <3>2, Zenon DEF RecordsAreTrace
  <2> QED
    BY <2>2, <2>3
<1>16. RunPhases'
  BY <1>0, <1>1, <1>10, <1>12 DEF Round, IInv, RunPhases
<1>17. AtRest'
  <2>1. ended' = ended /\ proc'.dir = P
    BY <1>10 DEF Round
  <2>2. \A d \in Dirs : d # P => disk'[d] = disk[d]
    BY <1>12
  <2>3. Active'
    BY <1>10 DEF Active
  <2>4. ASSUME NEW d \in Dirs, d # P
        PROVE  /\ ended[d] # "running"
               /\ ended[d] \in {"failed", "finished"} => ~disk[d].torn /\ TxtWritten(d)
    BY <2>4, Zenon DEF IInv, AtRest
  <2> QED
    BY <2>1, <2>2, <2>3, <2>4 DEF AtRest, TxtWritten
<1>18. CompletedRounds'
  <2> SUFFICES ASSUME NEW d \in Dirs, NEW k \in 1 .. Len(disk'[d].trace),
                      disk'[d].trace[k].stop # "skipped_max_len"
               PROVE  LET log == RoundsOf(disk'[d].rounds, disk'[d].trace[k].req)
                      IN log # <<>> /\ AddsUp(log, disk'[d].trace[k].n)
    BY Zenon DEF CompletedRounds
  <2>0. disk'[d].trace = disk[d].trace
    BY <1>12
  <2>1. RoundsOf(disk'[d].rounds, disk'[d].trace[k].req) = RoundsOf(disk[d].rounds, disk[d].trace[k].req)
    <3>1. CASE d # P
      BY <1>12, <3>1
    <3>2. CASE d = P
      <4>1. disk[P].trace[k].req # e.req
        BY <1>5, <1>6, <2>0, <3>2
      <4>2. RoundsOf(Append(L, e), disk[P].trace[k].req) = RoundsOf(L, disk[P].trace[k].req)
        BY <1>1, <1>6, <4>1, RoundsOther
      <4> QED
        BY <1>12, <2>0, <3>2, <4>2
    <3> QED
      BY <3>1, <3>2
  <2> QED
    BY <2>0, <2>1 DEF IInv, CompletedRounds
<1>19. CurrentRounds'
  <2> DEFINE old == RoundsOf(L, h)
             new == RoundsOf(Append(L, e), h)
  <2>1. /\ AddsUp(old, proc.gen.n) /\ Len(old) = proc.gen.step
        /\ proc.gen.step = 0 => proc.gen.n = 0
    BY <1>0 DEF IInv, CurrentRounds
  <2>2. old \in Seq(RoundRec) /\ new \in Seq(RoundRec)
    BY <1>1, <1>11, RoundsShape
  <2>3. /\ Len(new) = Len(old) + 1 /\ \A k \in 1 .. Len(old) : new[k] = old[k]
        /\ new[Len(old) + 1] = e
    <3>1. h = e.req
      BY <1>6
    <3>2. /\ Len(RoundsOf(Append(L, e), e.req)) = Len(RoundsOf(L, e.req)) + 1
          /\ \A k \in 1 .. Len(RoundsOf(L, e.req)) :
               RoundsOf(Append(L, e), e.req)[k] = RoundsOf(L, e.req)[k]
          /\ RoundsOf(Append(L, e), e.req)[Len(RoundsOf(L, e.req)) + 1] = e
      BY <1>1, <1>6, RoundsOwn
    <3> HIDE DEF h, L
    <3> QED
      BY <3>1, <3>2
  <2> HIDE DEF old, new
  <2>4. AddsUp(new, proc.gen.n + e.acc)
    BY <1>4, <1>6, <2>1, <2>2, <2>3, AddsUpGrows
  <2>5. AddsUp(new, g.n) /\ Len(new) = g.step /\ g.step # 0
    BY <1>4, <1>6, <1>7, <2>1, <2>3, <2>4
  <2>6. ASSUME NEW k \in 1 .. Len(proc.todo), k > 1, NEW i \in 1 .. Len(Append(L, e))
        PROVE  Append(L, e)[i].req # proc.todo[k][1]
    <3>1. /\ Len(L) \in Nat /\ Len(Append(L, e)) = Len(L) + 1 /\ Append(L, e)[Len(L) + 1] = e
          /\ \A j \in 1 .. Len(L) : Append(L, e)[j] = L[j]
      BY <1>1, <1>6, AppendProperties
    <3>2. CASE i = Len(L) + 1
      BY <1>5, <1>6, <2>6, <3>1, <3>2
    <3>3. CASE i \in 1 .. Len(L)
      <4>1. L[i].req # proc.todo[k][1]
        BY <1>0, <2>6, <3>3 DEF IInv, CurrentRounds
      <4> QED
        BY <3>1, <3>3, <4>1
    <3> QED
      BY <2>6, <3>1, <3>2, <3>3
  <2>7. disk'[proc'.dir].rounds = Append(L, e) /\ Head(proc'.todo)[1] = h
    BY <1>10, <1>12
  <2>8. RoundsOf(disk'[proc'.dir].rounds, Head(proc'.todo)[1]) = new
    BY <2>7 DEF new
  <2> QED
    BY <1>10, <2>5, <2>6, <2>7, <2>8 DEF CurrentRounds
<1> QED
  BY <1>13, <1>14, <1>15, <1>16, <1>17, <1>18, <1>19 DEF IInv

-----------------------------------------------------------------------------
(* Starting a run *)

\* Starting a run, which truncates the directory's files, keeps the invariant.
LEMMA StartRunIInv ==
  ASSUME IInv, NEW mode \in {"live", "replay"}, NEW d \in Dirs, NEW todo \in Seq(Request),
         NEW pc \in {"sync", "next"}, InOrder(todo), mode = "live" => pc = "sync",
         mode = "replay" => \A k \in 1 .. Len(todo) : todo[k][2] > 0,
         StartRun(mode, d, todo, pc)
  PROVE  IInv'
<1>0. ~Active
  BY DEF StartRun, Active
<1>1. disk \in [Dirs -> Files] /\ disk[d] \in Files /\ plan \in [Dirs -> Seq(Request)]
      /\ ended \in [Dirs -> {"never ran", "running", "killed", "failed", "finished"}]
      /\ runs \in Nat
  BY DEF IInv, SessionTypes
<1>2. PICK skips \in {{}, Long} :
        proc' = [pc |-> pc, mode |-> mode, dir |-> d, skips |-> skips,
                 todo |-> todo, recs |-> <<>>, open |-> TRUE, opened |-> FALSE, gen |-> NoGen]
  BY DEF StartRun
<1>3. /\ proc' \in ProcType /\ proc'.pc = pc /\ proc'.mode = mode /\ proc'.dir = d
      /\ proc'.todo = todo /\ proc'.recs = <<>> /\ ~proc'.opened /\ proc'.gen = NoGen
  <2>1. skips \in SUBSET RequestIndices
    BY <1>2, SessionAssumption
  <2>2. <<>> \in RecFuns
    <3>1. {} \in SUBSET RequestIndices /\ <<>> \in [{} -> Rec]
      OBVIOUS
    <3> QED
      BY <3>1, Zenon DEF RecFuns
  <2>3. NoGen \in GenType
    BY DEF NoGen, GenType
  <2> HIDE DEF NoGen
  <2> QED
    BY <1>2, <2>1, <2>2, <2>3 DEF ProcType
<1>4. Active'
  BY <1>3 DEF Active
<1>5. /\ disk' \in [Dirs -> Files]
      /\ \A c \in Dirs : c # d => disk'[c] = disk[c]
      /\ disk'[d].trace = <<>> /\ disk'[d].torn = FALSE /\ disk'[d].rounds = disk[d].rounds
  <2>0. <<>> \in Seq(Rec)
    OBVIOUS
  <2>1. OpenTrace(disk[d]) \in Files
    BY <1>1, <2>0 DEF OpenTrace, Files
  <2>2. disk' = [disk EXCEPT ![d] = OpenTrace(@)]
    BY DEF StartRun
  <2> QED
    BY <1>1, <2>1, <2>2 DEF OpenTrace, Files
<1>6. /\ plan' \in [Dirs -> Seq(Request)] /\ plan'[d] = todo
      /\ \A c \in Dirs : c # d => plan'[c] = plan[c]
  BY <1>1 DEF StartRun
<1>7. /\ ended' \in [Dirs -> {"never ran", "running", "killed", "failed", "finished"}]
      /\ ended'[d] = "running"
      /\ \A c \in Dirs : c # d => ended'[c] = ended[c]
  BY <1>1 DEF StartRun
<1>8. SessionTypes'
  <2>1. order' \in Orders /\ srv' \in [dir : Dirs \cup {"none"}, done : BOOLEAN] /\ runs' \in Nat
    <3>1. order' = order /\ srv' = srv /\ runs' = runs + 1
      BY DEF StartRun
    <3>2. order \in Orders /\ srv \in [dir : Dirs \cup {"none"}, done : BOOLEAN]
      BY Zenon DEF IInv, SessionTypes
    <3>3. runs' \in Nat
      <4>1. runs \in Nat
        BY Zenon DEF IInv, SessionTypes
      <4>2. runs' = runs + 1
        BY <3>1
      <4> QED
        BY <4>1, <4>2
    <3> QED
      BY <3>1, <3>2, <3>3, Zenon
  <2>2. proc' \in ProcType /\ disk' \in [Dirs -> Files]
    BY <1>3, <1>5
  <2> QED
    BY <1>6, <1>7, <2>1, <2>2, Zenon DEF SessionTypes
<1>9. PlansInOrder'
  <2> SUFFICES ASSUME NEW c \in Dirs PROVE InOrder(plan[c])'
    BY DEF PlansInOrder
  <2>1. order' = order
    BY DEF StartRun
  <2>2. CASE c = d
    BY <1>6, <2>1, <2>2 DEF InOrder
  <2>3. CASE c # d
    <3>1. InOrder(plan[c]) /\ plan'[c] = plan[c]
      BY <1>6, <2>3 DEF IInv, PlansInOrder
    <3> QED
      BY <2>1, <3>1 DEF InOrder
  <2> QED
    BY <2>2, <2>3
<1>10. TraceFollowsPlan'
  <2> SUFFICES ASSUME NEW c \in Dirs
               PROVE  /\ Len(disk'[c].trace) <= Len(plan'[c])
                      /\ \A k \in 1 .. Len(disk'[c].trace) : disk'[c].trace[k].req = plan'[c][k][1]
    BY DEF TraceFollowsPlan
  <2>1. CASE c = d
    BY <1>5, <1>6, <2>1
  <2>2. CASE c # d
    BY <1>5, <1>6, <2>2 DEF IInv, TraceFollowsPlan
  <2> QED
    BY <2>1, <2>2
<1>11. RunContinuesTrace'
  <2>1. disk'[proc'.dir].trace = <<>> /\ plan'[proc'.dir] = todo
    BY <1>3, <1>5, <1>6
  <2>2. Len(<<>>) = 0 /\ Len(todo) \in Nat
    OBVIOUS
  <2> QED
    BY <1>3, <2>1, <2>2 DEF RunContinuesTrace
<1>12. RecordsAreTrace'
  BY <1>3, <1>5 DEF RecordsAreTrace
<1>13. RunPhases'
  <2>1. DOMAIN plan'[proc'.dir] = 1 .. Len(todo) /\ plan'[proc'.dir] = todo
    BY <1>3, <1>6, LenProperties
  <2> QED
    BY <1>3, <1>5, <1>7, <2>1 DEF RunPhases
<1>14. AtRest'
  <2> SUFFICES ASSUME NEW c \in Dirs, c # d
               PROVE  /\ ended'[c] # "running"
                      /\ ended'[c] \in {"failed", "finished"} =>
                           /\ ~disk'[c].torn
                           /\ disk'[c].txt = SortedRecords(RecordsOf(disk'[c].trace))
    BY <1>3, <1>4 DEF AtRest, TxtWritten
  <2> QED
    BY <1>0, <1>5, <1>7 DEF IInv, AtRest, TxtWritten
<1>15. CompletedRounds'
  <2> SUFFICES ASSUME NEW c \in Dirs, NEW k \in 1 .. Len(disk'[c].trace),
                      disk'[c].trace[k].stop # "skipped_max_len"
               PROVE  LET log == RoundsOf(disk'[c].rounds, disk'[c].trace[k].req)
                      IN log # <<>> /\ AddsUp(log, disk'[c].trace[k].n)
    BY Zenon DEF CompletedRounds
  <2>1. c # d
    BY <1>5
  <2>2. disk'[c] = disk[c]
    BY <1>5, <2>1
  <2> QED
    BY <2>2 DEF IInv, CompletedRounds
<1>16. CurrentRounds'
  BY <1>3, <1>5 DEF CurrentRounds
<1> QED
  BY <1>8, <1>9, <1>10, <1>11, <1>12, <1>13, <1>14, <1>15, <1>16 DEF IInv

\* A live run starts with the configured stride of requests.
LEMMA StartLiveIInv ==
  ASSUME IInv, StartLive
  PROVE  IInv'
<1> DEFINE todo == [k \in DOMAIN order |-> <<order[k], 0>>]
<1>1. PICK d \in Dirs : StartRun("live", d, todo, "sync")
  BY DEF StartLive
<1>2. /\ order \in [1 .. Len(order) -> RequestIndices] /\ Len(order) \in Nat
  BY OrderOnce DEF IInv, SessionTypes
<1>3. todo \in Seq(Request) /\ DOMAIN todo = DOMAIN order
  <2>1. DOMAIN order = 1 .. Len(order)
    BY <1>2
  <2>2. \A k \in 1 .. Len(order) : <<order[k], 0>> \in Request
    BY <1>2 DEF Request
  <2> QED
    BY <1>2, <2>1, <2>2, IsASeq
<1>4. InOrder(todo)
  BY <1>3 DEF InOrder
<1> HIDE DEF todo
<1> QED
  BY <1>1, <1>3, <1>4, StartRunIInv

\* A replay starts with the requests of the trace it reads.
LEMMA StartReplayIInv ==
  ASSUME IInv, StartReplay
  PROVE  IInv'
<1>1. PICK from \in Dirs : \E d \in Dirs : \E limit \in Limits :
        StartRun("replay", d, ReplayRequests(disk[from].trace, limit), "next")
  BY DEF StartReplay
<1>2. PICK d \in Dirs : \E limit \in Limits :
        StartRun("replay", d, ReplayRequests(disk[from].trace, limit), "next")
  BY <1>1
<1>3. PICK limit \in Limits : StartRun("replay", d, ReplayRequests(disk[from].trace, limit), "next")
  BY <1>2
<1> DEFINE T == disk[from].trace
           R == ReplayRequests(T, limit)
<1>4. T \in Seq(Rec) /\ limit \in Int /\ plan[from] \in Seq(Request)
  BY SessionAssumption DEF IInv, SessionTypes, Files
<1>5. /\ R \in Seq(Request)
      /\ \A k \in 1 .. Len(R) : R[k][2] > 0
      /\ \A i, j \in 1 .. Len(R) : i < j =>
           \E a \in 1 .. Len(T) : \E b \in 1 .. Len(T) :
             a < b /\ T[a].req = R[i][1] /\ T[b].req = R[j][1]
  BY <1>4, ReplayShape
<1>6. Len(T) <= Len(plan[from]) /\ \A k \in 1 .. Len(T) : T[k].req = plan[from][k][1]
  BY DEF IInv, TraceFollowsPlan
<1>7. InOrder(plan[from])
  BY DEF IInv, PlansInOrder
<1> HIDE DEF T, R
<1>8. InOrder(R)
  <2> SUFFICES ASSUME NEW i \in DOMAIN R, NEW j \in DOMAIN R, i < j
               PROVE  \E a, b \in DOMAIN order : a < b /\ order[a] = R[i][1] /\ order[b] = R[j][1]
    BY DEF InOrder
  <2>0. i \in 1 .. Len(R) /\ j \in 1 .. Len(R)
    BY <1>5, LenProperties
  <2>1. PICK a \in 1 .. Len(T) : \E b \in 1 .. Len(T) :
          a < b /\ T[a].req = R[i][1] /\ T[b].req = R[j][1]
    BY <1>5, <2>0
  <2>2. PICK b \in 1 .. Len(T) : a < b /\ T[a].req = R[i][1] /\ T[b].req = R[j][1]
    BY <2>1
  <2>3. a \in DOMAIN plan[from] /\ b \in DOMAIN plan[from]
    <3>1. DOMAIN plan[from] = 1 .. Len(plan[from]) /\ Len(plan[from]) \in Nat /\ Len(T) \in Nat
      BY <1>4, LenProperties
    <3> QED
      BY <1>6, <3>1
  <2>4. plan[from][a][1] = R[i][1] /\ plan[from][b][1] = R[j][1]
    BY <1>6, <2>2
  <2>5. \E x, y \in DOMAIN order : x < y /\ order[x] = plan[from][a][1] /\ order[y] = plan[from][b][1]
    BY <1>7, <2>2, <2>3, Zenon DEF InOrder
  <2> QED
    BY <2>4, <2>5, Zenon
<1>9. StartRun("replay", d, R, "next")
  BY <1>3 DEF R, T
<1> QED
  BY <1>5, <1>8, <1>9, StartRunIInv

-----------------------------------------------------------------------------
(* The invariant *)

\* The invariant holds of empty directories and no process.
LEMMA InitIInv == Init => IInv
<1> SUFFICES ASSUME Init PROVE IInv
  OBVIOUS
<1>1. NoFiles \in Files
  <2>1. <<>> \in Seq(Rec) /\ <<>> \in Seq(RoundRec)
    OBVIOUS
  <2> QED
    BY <2>1 DEF NoFiles, Files, Txt
<1>2. /\ \A d \in Dirs : disk[d] = NoFiles /\ plan[d] = <<>> /\ ended[d] = "never ran"
      /\ disk \in [Dirs -> Files] /\ plan \in [Dirs -> Seq(Request)]
  <2>1. <<>> \in Seq(Request)
    OBVIOUS
  <2>2. disk = [d \in Dirs |-> NoFiles] /\ plan = [d \in Dirs |-> <<>>]
        /\ ended = [d \in Dirs |-> "never ran"]
    BY DEF Init
  <2> HIDE DEF NoFiles
  <2> QED
    BY <1>1, <2>1, <2>2
<1>a. \A d \in Dirs : /\ disk[d].trace = <<>> /\ Len(disk[d].trace) = 0
                      /\ 1 .. Len(disk[d].trace) = {}
                      /\ DOMAIN plan[d] = {} /\ Len(plan[d]) = 0
  <2>1. NoFiles.trace = <<>> /\ Len(<<>>) = 0 /\ 1 .. 0 = {} /\ DOMAIN <<>> = {}
    BY DEF NoFiles
  <2> HIDE DEF NoFiles
  <2> QED
    BY <1>2, <2>1
<1>3. SessionTypes
  BY <1>2 DEF Init, SessionTypes
<1>4. PlansInOrder /\ TraceFollowsPlan
  <2>1. PlansInOrder
    BY <1>a, Zenon DEF PlansInOrder, InOrder
  <2>2. TraceFollowsPlan
    BY <1>a DEF TraceFollowsPlan
  <2> QED
    BY <2>1, <2>2
<1>5. ~Active
  BY DEF Init, Active, NoProc
<1>6. RunContinuesTrace /\ RecordsAreTrace /\ RunPhases /\ CurrentRounds
  BY <1>5 DEF RunContinuesTrace, RecordsAreTrace, RunPhases, CurrentRounds
<1>7. AtRest /\ CompletedRounds
  <2>1. AtRest
    BY <1>2 DEF AtRest
  <2>3. CompletedRounds
    BY <1>a, Zenon DEF CompletedRounds
  <2> QED
    BY <2>1, <2>3
<1> QED
  BY <1>3, <1>4, <1>6, <1>7 DEF IInv

\* A step that changes nothing keeps the invariant.
LEMMA StutterIInv ==
  ASSUME IInv, UNCHANGED vars
  PROVE  IInv'
<1> USE DEF vars
<1>1. SessionTypes'
  BY DEF IInv, SessionTypes
<1>2. PlansInOrder' /\ TraceFollowsPlan' /\ CompletedRounds'
  BY TracesKept
<1>3. RunContinuesTrace' /\ RecordsAreTrace'
  BY DEF IInv, RunContinuesTrace, RecordsAreTrace, Active
<1>4. RunPhases' /\ AtRest'
  BY DEF IInv, RunPhases, AtRest, Active, TxtWritten
<1>5. CurrentRounds'
  BY DEF IInv, CurrentRounds, Active, AddsUp
<1> QED
  BY <1>1, <1>2, <1>3, <1>4, <1>5 DEF IInv

\* Every step of the driver keeps the invariant.
LEMMA NextIInv == IInv /\ [Next]_vars => IInv'
<1> SUFFICES ASSUME IInv, [Next]_vars PROVE IInv'
  OBVIOUS
<1>1. CASE StartLive
  BY <1>1, StartLiveIInv
<1>2. CASE StartReplay
  BY <1>2, StartReplayIInv
<1>3. CASE Advance
  BY <1>3, SyncIInv, SkipRequestIInv, AdmitRequestIInv, RoundIInv, RoundThrowsIInv,
     GenerateReturnsIInv, FinishRequestIInv, AllVisitedIInv, CloseTraceIInv, WriteTxtIInv,
     NotifyDoneIInv DEF Advance
<1>4. CASE Kill
  BY <1>4, KillIInv
<1>5. CASE UNCHANGED vars
  BY <1>5, StutterIInv
<1> QED
  BY <1>1, <1>2, <1>3, <1>4, <1>5 DEF Next

\* IInv holds in every state of every behaviour.
THEOREM AlwaysIInv == Spec => []IInv
BY InitIInv, NextIInv, PTL DEF Spec

-----------------------------------------------------------------------------
(* What is left on disk *)

\* Whatever runs, failures and kills came before, trace.jsonl is a prefix of what
\* the last run in its directory set out to visit.
THEOREM TraceNeverMixesRuns == Spec => []TraceIsVisitingPrefix
<1>1. IInv => TraceIsVisitingPrefix
  <2> SUFFICES ASSUME IInv, NEW d \in Dirs PROVE IsPrefix(Visited(d), Planned(d))
    BY DEF TraceIsVisitingPrefix
  <2> DEFINE T == disk[d].trace
             L == plan[d]
  <2>1. T \in Seq(Rec) /\ L \in Seq(Request)
    BY DEF IInv, SessionTypes, Files
  <2>2. /\ Len(T) \in Nat /\ Len(L) \in Nat /\ DOMAIN T = 1 .. Len(T) /\ DOMAIN L = 1 .. Len(L)
    BY <2>1, LenProperties
  <2>3. Len(T) <= Len(L) /\ \A k \in 1 .. Len(T) : T[k].req = L[k][1]
    BY DEF IInv, TraceFollowsPlan
  <2>4. /\ Visited(d) = [k \in 1 .. Len(T) |-> T[k].req]
        /\ Planned(d) = [k \in 1 .. Len(L) |-> L[k][1]]
    BY <2>2 DEF Visited, Planned
  <2> DEFINE v == Visited(d)
             p == Planned(d)
  <2> HIDE DEF T, L
  <2>5. Len(v) = Len(T) /\ Len(p) = Len(L)
    BY <2>2, <2>4
  <2> HIDE DEF v, p
  <2>6. /\ SubSeq(v, 1, Len(v)) = [k \in 1 .. Len(T) |-> v[k]]
        /\ SubSeq(p, 1, Len(v)) = [k \in 1 .. Len(T) |-> p[k]]
    BY <2>2, <2>3, <2>4, <2>5 DEF v, p
  <2>7. \A k \in 1 .. Len(T) : v[k] = p[k]
    BY <2>2, <2>3, <2>4 DEF v, p
  <2>8. Len(v) <= Len(p) /\ SubSeq(v, 1, Len(v)) = SubSeq(p, 1, Len(v))
    BY <2>3, <2>5, <2>6, <2>7
  <2> QED
    BY <2>8 DEF IsPrefix, v, p
<1> QED
  BY <1>1, AlwaysIInv, PTL

\* A run that was not killed leaves the two files in agreement.
THEOREM FilesAgree == Spec => []TxtMatchesTrace
<1>1. IInv => TxtMatchesTrace
  <2> SUFFICES ASSUME IInv, NEW d \in Dirs, ended[d] \notin {"never ran", "killed"},
                      proc.pc = "idle" \/ proc.dir # d
               PROVE  disk[d].txt = SortedRecords(RecordsOf(disk[d].trace)) /\ ~disk[d].torn
    BY DEF TxtMatchesTrace
  <2>1. ended[d] \in {"never ran", "running", "killed", "failed", "finished"}
    BY DEF IInv, SessionTypes
  <2>2. ended[d] # "running"
    BY DEF IInv, AtRest, Active
  <2>3. ended[d] \in {"failed", "finished"}
    BY <2>1, <2>2
  <2> QED
    BY <2>3 DEF IInv, AtRest, Active, TxtWritten
<1> QED
  BY <1>1, AlwaysIInv, PTL

\* The round log accounts for every completed request of the trace beside it.
THEOREM RoundsAddUp == Spec => []RoundsAccountForTrace
<1>1. IInv => RoundsAccountForTrace
  <2> SUFFICES ASSUME IInv, NEW d \in Dirs, NEW k \in DOMAIN disk[d].trace,
                      disk[d].trace[k].stop # "skipped_max_len"
               PROVE  LET rec == disk[d].trace[k]
                          log == RoundsOf(disk[d].rounds, rec.req)
                      IN /\ log # <<>>
                         /\ log[1].ctx = PromptLen
                         /\ \A i \in DOMAIN log :
                              /\ log[i].step = i - 1
                              /\ log[i].ctx + log[i].acc =
                                   IF i = Len(log) THEN PromptLen + rec.n ELSE log[i + 1].ctx
    BY Zenon DEF RoundsAccountForTrace
  <2>1. disk[d].trace \in Seq(Rec)
    BY DEF IInv, SessionTypes, Files
  <2>2. k \in 1 .. Len(disk[d].trace)
    BY <2>1, LenProperties
  <2> DEFINE log == RoundsOf(disk[d].rounds, disk[d].trace[k].req)
  <2>3. log # <<>> /\ AddsUp(log, disk[d].trace[k].n)
    BY <2>2, Zenon DEF IInv, CompletedRounds
  <2> HIDE DEF log
  <2>4. /\ log # <<>>
        /\ log[1].ctx = PromptLen
        /\ \A i \in DOMAIN log :
             /\ log[i].step = i - 1
             /\ log[i].ctx + log[i].acc =
                  IF i = Len(log) THEN PromptLen + disk[d].trace[k].n ELSE log[i + 1].ctx
    BY <2>3, Zenon DEF AddsUp
  <2> QED
    BY <2>4, Zenon DEF log
<1> QED
  BY <1>1, AlwaysIInv, PTL

\* No live round is decoded before Sync has named this run's directory.
THEOREM ServerNamedFirst == Spec => []ServerFollowsRun
<1>1. IInv => ServerFollowsRun
  BY DEF IInv, RunPhases, Active, ServerFollowsRun
<1> QED
  BY <1>1, AlwaysIInv, PTL

\* A replay follows the visiting order of the recorded run, through any chain of
\* recordings and replays of them.
THEOREM ReplayInOrder == Spec => []ReplayFollowsRecording
<1>1. IInv => ReplayFollowsRecording
  <2> SUFFICES ASSUME IInv, Active, proc.mode = "replay"
               PROVE  /\ \A k \in DOMAIN plan[proc.dir] : plan[proc.dir][k][2] > 0
                      /\ \A i, j \in DOMAIN Planned(proc.dir) : i < j =>
                           \E a, b \in DOMAIN order :
                             a < b /\ order[a] = Planned(proc.dir)[i]
                                   /\ order[b] = Planned(proc.dir)[j]
    BY Zenon DEF ReplayFollowsRecording, Active
  <2>1. \A k \in DOMAIN plan[proc.dir] : plan[proc.dir][k][2] > 0
    BY DEF IInv, RunPhases
  <2>2. InOrder(plan[proc.dir])
    BY ProcFields DEF IInv, PlansInOrder
  <2>3. ASSUME NEW i \in DOMAIN Planned(proc.dir), NEW j \in DOMAIN Planned(proc.dir), i < j
        PROVE  \E a, b \in DOMAIN order :
                 a < b /\ order[a] = Planned(proc.dir)[i] /\ order[b] = Planned(proc.dir)[j]
    <3>1. /\ i \in DOMAIN plan[proc.dir] /\ j \in DOMAIN plan[proc.dir]
          /\ Planned(proc.dir)[i] = plan[proc.dir][i][1]
          /\ Planned(proc.dir)[j] = plan[proc.dir][j][1]
      BY <2>3 DEF Planned
    <3>2. \E a, b \in DOMAIN order :
            a < b /\ order[a] = plan[proc.dir][i][1] /\ order[b] = plan[proc.dir][j][1]
      BY <2>2, <2>3, <3>1, Zenon DEF InOrder
    <3> QED
      BY <3>1, <3>2, Zenon
  <2> QED
    BY <2>1, <2>3, Zenon
<1> QED
  BY <1>1, AlwaysIInv, PTL

\* The server is told that a run is done only once both files of it are complete.
THEOREM DoneAfterFiles == Spec => DoneMeansOnDisk
<1> DEFINE Told ==
      srv'.done /\ ~srv.done =>
        LET files == disk'[proc.dir]
        IN Len(files.trace) = Len(plan[proc.dir])
           /\ files.txt = SortedRecords(RecordsOf(files.trace))
<1>1. IInv /\ [Next]_vars => [Told]_vars
  <2> SUFFICES ASSUME IInv, Next, srv'.done, ~srv.done
               PROVE  /\ Len(disk'[proc.dir].trace) = Len(plan[proc.dir])
                      /\ disk'[proc.dir].txt = SortedRecords(RecordsOf(disk'[proc.dir].trace))
    BY Zenon
  <2>1. srv' # srv
    OBVIOUS
  <2>2. NotifyDone
    <3>1. ASSUME Sync PROVE FALSE
      BY <3>1, <2>1 DEF Sync
    <3>2. ASSUME SkipRequest \/ AdmitRequest \/ Round \/ RoundThrows \/ GenerateReturns PROVE FALSE
      BY <3>2, <2>1, Zenon DEF SkipRequest, AdmitRequest, Round, RoundThrows, GenerateReturns
    <3>3. ASSUME FinishRequest \/ AllVisited \/ CloseTrace \/ WriteTxt \/ Kill PROVE FALSE
      BY <3>3, <2>1, Zenon DEF FinishRequest, AllVisited, CloseTrace, WriteTxt, Kill
    <3>4. ASSUME StartLive \/ StartReplay PROVE FALSE
      BY <3>4, <2>1, Zenon DEF StartLive, StartReplay, StartRun
    <3> QED
      BY <3>1, <3>2, <3>3, <3>4, Zenon DEF Next, Advance
  <2>3. Active /\ proc.pc = "notify" /\ disk' = disk
    BY <2>2 DEF NotifyDone, Active
  <2>4. proc.mode = "live" /\ TxtWritten(proc.dir)
    BY <2>3 DEF IInv, RunPhases
  <2>5. proc.todo = <<>> /\ Len(disk[proc.dir].trace) + Len(proc.todo) = Len(plan[proc.dir])
    BY <2>3, <2>4 DEF IInv, RunPhases, RunContinuesTrace
  <2>6. Len(disk[proc.dir].trace) = Len(plan[proc.dir])
    <3>1. Len(disk[proc.dir].trace) \in Nat
      BY <2>3, ProcFields, LenProperties
    <3> QED
      BY <2>5, <3>1
  <2> QED
    BY <2>3, <2>4, <2>6 DEF TxtWritten
<1>2. DoneMeansOnDisk <=> [][Told]_vars
  BY DEF DoneMeansOnDisk
<1> HIDE DEF Told
<1> QED
  BY <1>1, <1>2, AlwaysIInv, PTL DEF Spec

=============================================================================
