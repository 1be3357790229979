----------------------------- MODULE Simulator ------------------------------
(***************************************************************************)
(* The four schedulers of src/simulatorlab-FreezeKickerz (FCFS, LCFS, SJF, *)
(* MLFQ) driven by the simulator's event loop on one workload of jobs.    *)
(*                                                                         *)
(* The event loop and the job objects (scheduler.c, job.c) are not in the  *)
(* repository; they are modelled from the interface the schedulers use:    *)
(* an arrival calls <policy>ScheduleJob at the job's arrival time; the one *)
(* pending completion set by schedulerScheduleNextCompletion (cleared by   *)
(* schedulerCancelNextCompletion) calls <policy>CompleteJob at its time.   *)
(* Which of an arrival and a completion at the same instant goes first is  *)
(* not known: for the policies in ArrivalFirst either may, for the others  *)
(* the completion does.  A job's remaining time starts at its job time.    *)
(*                                                                         *)
(* The policies share nothing but the workload, so they are run one after *)
(* the other (FCFS, LCFS, SJF, MLFQ) rather than interleaved.              *)
(***************************************************************************)
EXTENDS Integers, Sequences, SequencesExt, SortedList

CONSTANTS
    N,                 \* number of jobs; job ids are 1..N, in arrival order
    MaxArrival,        \* arrival times are 0..MaxArrival
    MaxLength,         \* job times are 1..MaxLength
    MAX_MLFQ_LEVELS,   \* schedulerMLFQ.c's number of levels
    ArrivalFirst       \* policies for which an arrival may precede a completion at a tie

Jobs == 1..N
Policies == {"FCFS", "LCFS", "SJF", "MLFQ"}
PolicyOrder == <<"FCFS", "LCFS", "SJF", "MLFQ">>
Levels == 0..(MAX_MLFQ_LEVELS - 1)
None == 0          \* a NULL job pointer
NoTime == -1       \* no completion pending

ASSUME N \in Nat \ {0} /\ MAX_MLFQ_LEVELS \in Nat \ {0} /\ ArrivalFirst \subseteq Policies

VARIABLES
    arrival,     \* arrival[j]: arrival time of job j (the workload)
    jobTime,     \* jobTime[j]: jobGetJobTime
    now,         \* now[p]: simulated time of policy p's run
    nextArr,     \* nextArr[p]: the next job to arrive
    completion,  \* completion[p]: time of the pending completion, or NoTime
    queues,      \* queues[p][l]: the job list (MLFQ: of level l; others use level 0)
    current,     \* current[p]: currentJob (LCFS, SJF) or running (MLFQ); None if idle
    level,       \* level[p][j]: mlfq_job_t level
    remaining,   \* remaining[p][j]: jobGetRemainingTime
    lastTime,    \* lastTime[p]: last_time of MLFQ
    served,      \* history: CPU time each job has had
    finTime,     \* history: time CompleteJob returned job j, or NoTime
    wrappers,    \* the jobs whose mlfq_job_t MLFQ has malloc'd and not freed
    destroyed    \* the policies whose <policy>Destroy the simulator has called

vars == <<arrival, jobTime, now, nextArr, completion, queues, current, level, remaining,
          lastTime, served, finTime, wrappers, destroyed>>

Q(p) == queues[p][0]

\* Sets the pending completion of policy p (schedulerScheduleNextCompletion).
ScheduleAt(p, t) == completion' = [completion EXCEPT ![p] = t]

\* CompleteJob returned job fin at time t.
Finished(p, fin, t) == finTime' = [finTime EXCEPT ![p][fin] = t]

-----------------------------------------------------------------------------
(* schedulerFCFS.c: a list created with compare NULL, so list_insert puts  *)
(* a new job at the head and the tail is the job that runs.                *)
FCFSCreate(p) == queues[p][0] = ListCreate

FCFSScheduleJob(j, t) ==
    LET q == ListInsertHead(Q("FCFS"), j) IN
    /\ queues' = [queues EXCEPT !["FCFS"][0] = q]
    /\ IF ListCount(q) = 1 THEN ScheduleAt("FCFS", t + jobTime[j]) ELSE UNCHANGED completion
    /\ UNCHANGED <<current, level, remaining, lastTime, finTime>>

\* Mutant: the next job's completion is not scheduled.
FCFSCompleteJobNoNext(t) ==
    LET q == Q("FCFS") IN
    /\ IF ListCount(q) = 0
         THEN UNCHANGED <<queues, finTime>>
         ELSE /\ Finished("FCFS", ListTailData(q), t)
              /\ queues' = [queues EXCEPT !["FCFS"][0] = SubSeq(q, 1, Len(q) - 1)]
    /\ ScheduleAt("FCFS", NoTime)
    /\ UNCHANGED <<current, level, remaining, lastTime>>

\* Mutant: the head (the newest job) is completed instead of the tail.
FCFSCompleteJobHead(t) ==
    LET q == Q("FCFS") IN
    /\ IF ListCount(q) = 0
         THEN ScheduleAt("FCFS", NoTime) /\ UNCHANGED <<queues, finTime>>
         ELSE /\ Finished("FCFS", ListHeadData(q), t)
              /\ queues' = [queues EXCEPT !["FCFS"][0] = Tail(q)]
              /\ ScheduleAt("FCFS", IF Len(q) > 1 THEN t + remaining["FCFS"][q[2]] ELSE NoTime)
    /\ UNCHANGED <<current, level, remaining, lastTime>>

FCFSCompleteJob(t) ==
    LET q == Q("FCFS") IN
    /\ IF ListCount(q) = 0
         THEN ScheduleAt("FCFS", NoTime) /\ UNCHANGED <<queues, finTime>>
         ELSE LET rest == SubSeq(q, 1, Len(q) - 1) IN
              /\ Finished("FCFS", ListTailData(q), t)
              /\ queues' = [queues EXCEPT !["FCFS"][0] = rest]
              /\ ScheduleAt("FCFS", IF ListCount(rest) > 0
                                      THEN t + remaining["FCFS"][ListTailData(rest)]
                                      ELSE NoTime)
    /\ UNCHANGED <<current, level, remaining, lastTime>>

-----------------------------------------------------------------------------
(* schedulerLCFS.c: new jobs are pushed on the head; currentJob runs to    *)
(* completion, then the head runs.                                         *)
LCFSCreate(p) == queues[p][0] = ListCreate /\ current[p] = None

LCFSScheduleJob(j, t) ==
    LET q == ListInsertHead(Q("LCFS"), j) IN
    /\ queues' = [queues EXCEPT !["LCFS"][0] = q]
    /\ IF ListCount(q) = 1
         THEN current' = [current EXCEPT !["LCFS"] = j] /\ ScheduleAt("LCFS", t + jobTime[j])
         ELSE UNCHANGED <<current, completion>>
    /\ UNCHANGED <<level, remaining, lastTime, finTime>>

\* Mutant: the head node is removed instead of currentJob's node.
LCFSCompleteJobHead(t) ==
    LET fin == current["LCFS"]
        rest == IF Q("LCFS") = <<>> THEN <<>> ELSE Tail(Q("LCFS"))
    IN
    /\ IF fin = None
         THEN ScheduleAt("LCFS", NoTime) /\ UNCHANGED <<queues, current, finTime>>
         ELSE /\ Finished("LCFS", fin, t)
              /\ queues' = [queues EXCEPT !["LCFS"][0] = rest]
              /\ IF ListCount(rest) > 0
                   THEN /\ current' = [current EXCEPT !["LCFS"] = ListHeadData(rest)]
                        /\ ScheduleAt("LCFS", t + jobTime[ListHeadData(rest)])
                   ELSE current' = [current EXCEPT !["LCFS"] = None] /\ ScheduleAt("LCFS", NoTime)
    /\ UNCHANGED <<level, remaining, lastTime>>

LCFSCompleteJob(t) ==
    LET fin == current["LCFS"]
        rest == ListRemove(Q("LCFS"), fin)
    IN
    /\ IF fin = None
         THEN ScheduleAt("LCFS", NoTime) /\ UNCHANGED <<queues, current, finTime>>
         ELSE /\ Finished("LCFS", fin, t)
              /\ queues' = [queues EXCEPT !["LCFS"][0] = rest]
              /\ IF ListCount(rest) > 0
                   THEN /\ current' = [current EXCEPT !["LCFS"] = ListHeadData(rest)]
                        /\ ScheduleAt("LCFS", t + jobTime[ListHeadData(rest)])
                   ELSE current' = [current EXCEPT !["LCFS"] = None] /\ ScheduleAt("LCFS", NoTime)
    /\ UNCHANGED <<level, remaining, lastTime>>

-----------------------------------------------------------------------------
(* schedulerSJF.c: non-preemptive; on completion the scan picks the job    *)
(* with the least job time, ties to the lower id.                          *)
SJFCreate(p) == queues[p][0] = ListCreate /\ current[p] = None

SJFScheduleJob(j, t) ==
    /\ queues' = [queues EXCEPT !["SJF"][0] = ListInsertHead(@, j)]
    /\ IF current["SJF"] = None
         THEN current' = [current EXCEPT !["SJF"] = j] /\ ScheduleAt("SJF", t + jobTime[j])
         ELSE UNCHANGED <<current, completion>>
    /\ UNCHANGED <<level, remaining, lastTime, finTime>>

\* The scan of schedulerSJFCompleteJob: the first candidate that no later one
\* beats on (jobTime, id); None for an empty list.
Shortest(q) ==
    LET Beats(a, b) == jobTime[a] < jobTime[b] \/ (jobTime[a] = jobTime[b] /\ a < b)
    IN IF q = <<>> THEN None
       ELSE CHOOSE k \in ToSet(q) : \A m \in ToSet(q) : ~Beats(m, k)

\* Mutant: no next job is picked after a completion.
SJFCompleteJobNoNext(t) ==
    LET fin == current["SJF"] IN
    /\ IF fin = None THEN UNCHANGED finTime ELSE Finished("SJF", fin, t)
    /\ queues' = [queues EXCEPT !["SJF"][0] = ListRemove(@, fin)]
    /\ current' = [current EXCEPT !["SJF"] = None]
    /\ ScheduleAt("SJF", NoTime)
    /\ UNCHANGED <<level, remaining, lastTime>>

SJFCompleteJob(t) ==
    LET fin == current["SJF"]
        rest == ListRemove(Q("SJF"), fin)
        next == Shortest(rest)
    IN
    /\ IF fin = None THEN UNCHANGED finTime ELSE Finished("SJF", fin, t)
    /\ queues' = [queues EXCEPT !["SJF"][0] = rest]
    /\ current' = [current EXCEPT !["SJF"] = next]
    /\ ScheduleAt("SJF", IF next = None THEN NoTime ELSE t + jobTime[next])
    /\ UNCHANGED <<level, remaining, lastTime>>

-----------------------------------------------------------------------------
(* schedulerMLFQ.c: one list per level, created with always_less, so      *)
(* list_insert appends; the running job is out of the lists; slices are   *)
(* one time unit.                                                          *)
AlwaysLess == [p \in Jobs \X Jobs |-> -1]

MLFQCreate(p) ==
    /\ queues[p] = [l \in Levels |-> ListCreate]
    /\ current[p] = None
    /\ lastTime[p] = 0

\* schedule_next, given the lists qs and remaining times rems it sees, with
\* pend the completion pending before it is called.
ScheduleNext(qs, rems, t, pend) ==
    LET ready == {l \in Levels : ListCount(qs[l]) > 0} IN
    IF ready = {}
      THEN /\ queues' = [queues EXCEPT !["MLFQ"] = qs]
           /\ current' = [current EXCEPT !["MLFQ"] = None]
           /\ ScheduleAt("MLFQ", pend)
           /\ UNCHANGED lastTime
      ELSE LET lvl == CHOOSE l \in ready : \A m \in ready : l <= m
               next == ListHeadData(qs[lvl])
           IN /\ queues' = [queues EXCEPT !["MLFQ"] = [qs EXCEPT ![lvl] = Tail(@)]]
              /\ current' = [current EXCEPT !["MLFQ"] = next]
              /\ lastTime' = [lastTime EXCEPT !["MLFQ"] = t]
              /\ ScheduleAt("MLFQ", t + (IF rems[next] < 1 THEN rems[next] ELSE 1))

\* The running job r was preempted at t: charge the time it ran since
\* last_time, demote it if it ran a full unit, and requeue it.
Preempt(qs, r, t) ==
    LET lv == level["MLFQ"][r]
        ran == t - lastTime["MLFQ"]
        rem == remaining["MLFQ"][r]
        run == IF ran > rem THEN rem ELSE ran
        newRem == IF ran > 0 THEN rem - run ELSE rem
        newLv == IF ran > 0 /\ run >= 1 /\ lv < MAX_MLFQ_LEVELS - 1 THEN lv + 1 ELSE lv
        rems == [remaining["MLFQ"] EXCEPT ![r] = newRem]
    IN /\ remaining' = [remaining EXCEPT !["MLFQ"] = rems]
       /\ level' = [level EXCEPT !["MLFQ"][r] = newLv]
       /\ ScheduleNext([qs EXCEPT ![newLv] = ListInsert(@, r, AlwaysLess)], rems, t, NoTime)

MLFQScheduleJob(j, t) ==
    LET qs == [queues["MLFQ"] EXCEPT ![0] = ListInsert(@, j, AlwaysLess)]
        r == current["MLFQ"]
    IN
    /\ \/ /\ r = None
          /\ ScheduleNext(qs, remaining["MLFQ"], t, completion["MLFQ"])
          /\ UNCHANGED <<level, remaining>>
       \/ /\ r # None /\ level["MLFQ"][r] > 0
          /\ Preempt(qs, r, t)
       \/ /\ r # None /\ level["MLFQ"][r] = 0
          /\ queues' = [queues EXCEPT !["MLFQ"] = qs]
          /\ UNCHANGED <<current, level, remaining, lastTime, completion>>
    /\ wrappers' = wrappers \cup {j}
    /\ UNCHANGED finTime

\* Mutant: demotion past the last level.
MLFQCompleteJobNoCap(t) ==
    LET w == current["MLFQ"]
        rem == remaining["MLFQ"][w]
        lv == level["MLFQ"][w] + 1
    IN
    \/ /\ w = None
       /\ ScheduleNext(queues["MLFQ"], remaining["MLFQ"], t, NoTime)
       /\ UNCHANGED <<level, remaining, finTime, wrappers>>
    \/ /\ w # None /\ rem > 1
       /\ LET rems == [remaining["MLFQ"] EXCEPT ![w] = rem - 1] IN
          /\ remaining' = [remaining EXCEPT !["MLFQ"] = rems]
          /\ level' = [level EXCEPT !["MLFQ"][w] = lv]
          /\ ScheduleNext([queues["MLFQ"] EXCEPT ![lv] = ListInsert(@, w, AlwaysLess)],
                          rems, t, NoTime)
       /\ UNCHANGED <<finTime, wrappers>>
    \/ /\ w # None /\ rem <= 1
       /\ LET rems == [remaining["MLFQ"] EXCEPT ![w] = 0] IN
          /\ remaining' = [remaining EXCEPT !["MLFQ"] = rems]
          /\ Finished("MLFQ", w, t)
          /\ ScheduleNext(queues["MLFQ"], rems, t, NoTime)
       /\ wrappers' = wrappers \ {w}
       /\ UNCHANGED level

\* Mutant: a job with one unit left is requeued instead of finished.
MLFQCompleteJobRequeueLast(t) ==
    LET w == current["MLFQ"]
        rem == remaining["MLFQ"][w]
        lv == IF level["MLFQ"][w] < MAX_MLFQ_LEVELS - 1 THEN level["MLFQ"][w] + 1
                                                         ELSE level["MLFQ"][w]
    IN
    \/ /\ w = None
       /\ ScheduleNext(queues["MLFQ"], remaining["MLFQ"], t, NoTime)
       /\ UNCHANGED <<level, remaining, finTime, wrappers>>
    \/ /\ w # None /\ rem >= 1
       /\ LET rems == [remaining["MLFQ"] EXCEPT ![w] = rem - 1] IN
          /\ remaining' = [remaining EXCEPT !["MLFQ"] = rems]
          /\ level' = [level EXCEPT !["MLFQ"][w] = lv]
          /\ ScheduleNext([queues["MLFQ"] EXCEPT ![lv] = ListInsert(@, w, AlwaysLess)],
                          rems, t, NoTime)
       /\ UNCHANGED <<finTime, wrappers>>
    \/ /\ w # None /\ rem < 1
       /\ LET rems == [remaining["MLFQ"] EXCEPT ![w] = 0] IN
          /\ remaining' = [remaining EXCEPT !["MLFQ"] = rems]
          /\ Finished("MLFQ", w, t)
          /\ ScheduleNext(queues["MLFQ"], rems, t, NoTime)
       /\ wrappers' = wrappers \ {w}
       /\ UNCHANGED level

\* Mutant: the wrapper of a finished job is not freed.
MLFQCompleteJobNoFree(t) ==
    LET w == current["MLFQ"]
        rem == remaining["MLFQ"][w]
        lv == IF level["MLFQ"][w] < MAX_MLFQ_LEVELS - 1 THEN level["MLFQ"][w] + 1
                                                         ELSE level["MLFQ"][w]
    IN
    \/ /\ w = None
       /\ ScheduleNext(queues["MLFQ"], remaining["MLFQ"], t, NoTime)
       /\ UNCHANGED <<level, remaining, finTime, wrappers>>
    \/ /\ w # None /\ rem > 1
       /\ LET rems == [remaining["MLFQ"] EXCEPT ![w] = rem - 1] IN
          /\ remaining' = [remaining EXCEPT !["MLFQ"] = rems]
          /\ level' = [level EXCEPT !["MLFQ"][w] = lv]
          /\ ScheduleNext([queues["MLFQ"] EXCEPT ![lv] = ListInsert(@, w, AlwaysLess)],
                          rems, t, NoTime)
       /\ UNCHANGED <<finTime, wrappers>>
    \/ /\ w # None /\ rem <= 1
       /\ LET rems == [remaining["MLFQ"] EXCEPT ![w] = 0] IN
          /\ remaining' = [remaining EXCEPT !["MLFQ"] = rems]
          /\ Finished("MLFQ", w, t)
          /\ ScheduleNext(queues["MLFQ"], rems, t, NoTime)
       /\ UNCHANGED wrappers
       /\ UNCHANGED level

MLFQCompleteJob(t) ==
    LET w == current["MLFQ"]
        rem == remaining["MLFQ"][w]
        lv == IF level["MLFQ"][w] < MAX_MLFQ_LEVELS - 1 THEN level["MLFQ"][w] + 1
                                                         ELSE level["MLFQ"][w]
    IN
    \/ /\ w = None
       /\ ScheduleNext(queues["MLFQ"], remaining["MLFQ"], t, NoTime)
       /\ UNCHANGED <<level, remaining, finTime, wrappers>>
    \/ /\ w # None /\ rem > 1
       /\ LET rems == [remaining["MLFQ"] EXCEPT ![w] = rem - 1] IN
          /\ remaining' = [remaining EXCEPT !["MLFQ"] = rems]
          /\ level' = [level EXCEPT !["MLFQ"][w] = lv]
          /\ ScheduleNext([queues["MLFQ"] EXCEPT ![lv] = ListInsert(@, w, AlwaysLess)],
                          rems, t, NoTime)
       /\ UNCHANGED <<finTime, wrappers>>
    \/ /\ w # None /\ rem <= 1
       /\ LET rems == [remaining["MLFQ"] EXCEPT ![w] = 0] IN
          /\ remaining' = [remaining EXCEPT !["MLFQ"] = rems]
          /\ Finished("MLFQ", w, t)
          /\ ScheduleNext(queues["MLFQ"], rems, t, NoTime)
       /\ wrappers' = wrappers \ {w}
       /\ UNCHANGED level

\* schedulerMLFQDestroy: frees the running wrapper, then walks each level
\* from list_head while n != list_end; list_end is the tail, not NULL, so
\* the last wrapper of every non-empty level is never freed.  list_destroy
\* then frees the nodes, which are not allocations of the model.
MLFQDestroy ==
    LET walked(q) == {q[i] : i \in 1..(Len(q) - 1)}
    IN wrappers' = wrappers \ ({current["MLFQ"]} \cup UNION {walked(queues["MLFQ"][l]) : l \in Levels})

\* schedulerFCFSDestroy, schedulerLCFSDestroy, schedulerSJFDestroy: list_destroy
\* frees the job list's nodes and free releases the info struct; the jobs
\* belong to the simulator.  None of this memory is an allocation of the model.
FCFSDestroy == UNCHANGED wrappers
LCFSDestroy == UNCHANGED wrappers
SJFDestroy == UNCHANGED wrappers

-----------------------------------------------------------------------------
(***************************************************************************)
(* The simulator's event loop (not in the repository).                     *)
(***************************************************************************)
ScheduleJob(p, j, t) ==
    CASE p = "FCFS" -> FCFSScheduleJob(j, t) /\ UNCHANGED wrappers
      [] p = "LCFS" -> LCFSScheduleJob(j, t) /\ UNCHANGED wrappers
      [] p = "SJF"  -> SJFScheduleJob(j, t) /\ UNCHANGED wrappers
      [] p = "MLFQ" -> MLFQScheduleJob(j, t)

\* The pending completion is consumed before CompleteJob runs.
CompleteJob(p, t) ==
    CASE p = "FCFS" -> FCFSCompleteJob(t) /\ UNCHANGED wrappers
      [] p = "LCFS" -> LCFSCompleteJob(t) /\ UNCHANGED wrappers
      [] p = "SJF"  -> SJFCompleteJob(t) /\ UNCHANGED wrappers
      [] p = "MLFQ" -> MLFQCompleteJob(t)

\* The job policy p runs between events: the tail of the FCFS list, else
\* the current job.
Running(p) ==
    IF p = "FCFS" THEN (IF Q(p) = <<>> THEN None ELSE ListTailData(Q(p))) ELSE current[p]

\* Time passes to t and the running job is charged for it.
Advance(p, t) ==
    /\ now' = [now EXCEPT ![p] = t]
    /\ served' = IF Running(p) = None THEN served
                 ELSE [served EXCEPT ![p][Running(p)] = @ + (t - now[p])]

Pending(p) == nextArr[p] <= N \/ completion[p] # NoTime

\* Policies run one after the other, in PolicyOrder.
Turn(p) ==
    /\ Pending(p)
    /\ \A i \in 1..Len(PolicyOrder) :
          PolicyOrder[i] = p => \A k \in 1..(i - 1) : ~Pending(PolicyOrder[k])

Arrive(p) ==
    LET j == nextArr[p]
        t == arrival[j]
    IN
    /\ Turn(p) /\ j <= N
    /\ \/ completion[p] = NoTime
       \/ t < completion[p]
       \/ t = completion[p] /\ p \in ArrivalFirst
    /\ Advance(p, t)
    /\ nextArr' = [nextArr EXCEPT ![p] = @ + 1]
    /\ ScheduleJob(p, j, t)
    /\ UNCHANGED <<arrival, jobTime, destroyed>>

Complete(p) ==
    LET t == completion[p] IN
    /\ Turn(p) /\ t # NoTime
    /\ nextArr[p] <= N => t <= arrival[nextArr[p]]
    /\ Advance(p, t)
    /\ CompleteJob(p, t)
    /\ UNCHANGED <<arrival, jobTime, nextArr, destroyed>>

\* Once policy p has no event left the simulator calls its Destroy, once.
Destroy(p) ==
    /\ ~Pending(p) /\ p \notin destroyed
    /\ destroyed' = destroyed \cup {p}
    /\ CASE p = "FCFS" -> FCFSDestroy
         [] p = "LCFS" -> LCFSDestroy
         [] p = "SJF"  -> SJFDestroy
         [] p = "MLFQ" -> MLFQDestroy
    /\ UNCHANGED <<arrival, jobTime, now, nextArr, completion, queues, current, level,
                   remaining, lastTime, served, finTime>>

\* Every event of every policy has been handled and every scheduler destroyed.
Drained == (\A p \in Policies : ~Pending(p)) /\ destroyed = Policies /\ UNCHANGED vars

Init ==
    /\ arrival \in {a \in [Jobs -> 0..MaxArrival] : \A j \in 1..(N - 1) : a[j] <= a[j + 1]}
    /\ jobTime \in [Jobs -> 1..MaxLength]
    /\ now = [p \in Policies |-> 0]
    /\ nextArr = [p \in Policies |-> 1]
    /\ completion = [p \in Policies |-> NoTime]
    /\ queues \in [Policies -> [Levels -> {ListCreate}]]
    /\ current = [p \in Policies |-> None]
    /\ level = [p \in Policies |-> [j \in Jobs |-> 0]]
    /\ remaining = [p \in Policies |-> jobTime]
    /\ lastTime = [p \in Policies |-> 0]
    /\ served = [p \in Policies |-> [j \in Jobs |-> 0]]
    /\ finTime = [p \in Policies |-> [j \in Jobs |-> NoTime]]
    /\ wrappers = {} /\ destroyed = {}
    /\ FCFSCreate("FCFS") /\ LCFSCreate("LCFS") /\ SJFCreate("SJF")
    /\ MLFQCreate("MLFQ")

Next == (\E p \in Policies : Arrive(p) \/ Complete(p) \/ Destroy(p)) \/ Drained

\* The event loop runs until no event is left.
Spec == Init /\ [][Next]_vars /\ WF_vars(Next)

-----------------------------------------------------------------------------
(***************************************************************************)
(* Properties.                                                             *)
(***************************************************************************)
TypeOK ==
    /\ arrival \in [Jobs -> 0..MaxArrival] /\ jobTime \in [Jobs -> 1..MaxLength]
    /\ nextArr \in [Policies -> 1..(N + 1)]
    /\ completion \in [Policies -> {NoTime} \cup Nat]
    /\ queues \in [Policies -> [Levels -> Seq(Jobs)]]
    /\ current \in [Policies -> Jobs \cup {None}]
    /\ level \in [Policies -> [Jobs -> Levels]]
    /\ remaining \in [Policies -> [Jobs -> Nat]]
    /\ finTime \in [Policies -> [Jobs -> {NoTime} \cup Nat]]
    /\ wrappers \subseteq Jobs /\ destroyed \subseteq Policies

\* All of policy p's lists, one after the other.
Queued(p) == FlattenSeq([i \in 1..MAX_MLFQ_LEVELS |-> queues[p][i - 1]])

\* How many times job j is held by policy p: in a list, as MLFQ's running
\* job (which is in no list), or as finished.
Held(p, j) ==
    Len(SelectSeq(Queued(p), LAMBDA x : x = j))
    + (IF p = "MLFQ" /\ current[p] = j THEN 1 ELSE 0)
    + (IF finTime[p][j] # NoTime THEN 1 ELSE 0)

(* Every job that has arrived is held exactly once: in one list, running, *)
(* or finished; no job is lost or duplicated by the list_insert and       *)
(* list_remove calls of the ScheduleJob and CompleteJob handlers, and the *)
(* currentJob of LCFS and SJF is always still in their list.              *)
JobConservation ==
    \A p \in Policies :
        /\ \A j \in Jobs : Held(p, j) = IF j < nextArr[p] THEN 1 ELSE 0
        /\ p \in {"LCFS", "SJF"} /\ current[p] # None => current[p] \in ToSet(Q(p))

(* The CPU is never idle while a job waits: whenever a policy holds a job *)
(* that has not finished, a completion is pending (each handler schedules *)
(* the next completion when it leaves work behind).                        *)
WorkConserving ==
    \A p \in Policies :
        (Queued(p) # <<>> \/ current[p] # None) => completion[p] # NoTime

(* A job is reported finished exactly when it has had its job time of CPU: *)
(* never earlier, never with CPU time to spare, and once it has had it, it *)
(* is the running job with its completion due now (the completion event   *)
(* may wait behind an arrival at the same instant).  The completion times *)
(* the handlers set, and MLFQ's remaining-time accounting across a        *)
(* preemption, must agree with the time the job ran.                      *)
FinishExactlyWhenServed ==
    \A p \in Policies, j \in Jobs :
        /\ served[p][j] <= jobTime[j]
        /\ finTime[p][j] # NoTime => served[p][j] = jobTime[j]
        /\ served[p][j] = jobTime[j] /\ finTime[p][j] = NoTime =>
              Running(p) = j /\ completion[p] = now[p]

\* Reference for FCFS: job j finishes jobTime[j] after the later of its
\* arrival and the finish of job j - 1.
RECURSIVE FCFSFinish(_)
FCFSFinish(j) ==
    IF j = 0 THEN 0
    ELSE LET prev == FCFSFinish(j - 1)
         IN (IF arrival[j] > prev THEN arrival[j] ELSE prev) + jobTime[j]

(* FCFS finishes the jobs in arrival order at the times of the reference   *)
(* recurrence (the head insert and tail removal of the list must make a    *)
(* queue, whatever the order of simultaneous events).                       *)
FCFSMatchesReference ==
    \A j \in Jobs :
        finTime["FCFS"][j] # NoTime =>
            /\ finTime["FCFS"][j] = FCFSFinish(j)
            /\ \A i \in 1..(j - 1) : finTime["FCFS"][i] # NoTime

(* Every job of every policy eventually finishes.                          *)
AllJobsFinish == <>(\A p \in Policies, j \in Jobs : finTime[p][j] # NoTime)


(* MLFQ's mlfq_job_t wrappers are allocated exactly for the jobs that have *)
(* arrived and not finished: ScheduleJob mallocs one per arrival, and     *)
(* CompleteJob frees it when the job finishes (and never while it is      *)
(* requeued or demoted).  After schedulerMLFQDestroy none is left: the     *)
(* simulator destroys the scheduler only when every job has finished, so  *)
(* Destroy's walk, which skips the tail of each level, has nothing to skip. *)
WrappersMatchJobs ==
    wrappers = IF "MLFQ" \in destroyed THEN {}
               ELSE {j \in Jobs : j < nextArr["MLFQ"] /\ finTime["MLFQ"][j] = NoTime}
=============================================================================
