------------------------------ MODULE RunQueue ------------------------------
(***************************************************************************)
(* The run queue of the reconciler (reconciler/run_queue.rs): pipelines    *)
(* that do not wait for pushes are run on their clock, one stream per run, *)
(* in two lanes of bounded concurrency.                                    *)
(*                                                                         *)
(* Three processes share the queue behind one mutex that is never held     *)
(* across a call to the runner: the tick (one task, every few seconds),    *)
(* the reconciler's pass (it reads the run log, renders, then plans) and   *)
(* the API (run_now).  Every await of the tick and of the pass is a point  *)
(* where the others may step, so each of their locked sections and each    *)
(* runner call is an action of its own.  The runner and the run log are    *)
(* outside the Portal: they survive its restart.                           *)
(***************************************************************************)
EXTENDS Integers, FiniteSets, Sequences

CONSTANTS
    Keys,           \* the pipelines, as numbers: the order BTreeMap keeps them in
    Streams,        \* the rendered streams: a stream stands for its hash
    Plans,          \* the sets of pipelines a pass may plan, each [Keys -> Planned or None]
    Fingerprints,   \* the fingerprints a project's rules may have
    Unbounds,       \* the sets of pipelines a reconcile may leave without a client
    Batch, Short,   \* the configured concurrency of the two lanes
    CronScan,       \* how far ahead a cron line is scanned, 366 days in the code
    RunTimeout, ShortBelow, MinShortCap, StalePlan, Backoff, RetriesPerDay, Day,
    Faults,         \* what may go wrong outside the queue, see FaultNames
    RunNowAllowed,  \* whether the API asks for runs
    MaxTime,        \* bound: the clock stops here
    MaxCrashes,     \* bound: how often the Portal restarts
    None            \* no time, no entry, not read

FaultNames == {"delete_timeout", "delete_error", "start_refused", "start_unanswered",
               "no_answer", "runner_lost", "log_unread", "outside_failure", "slow_calls"}

ASSUME KeysAssumption == Keys \subseteq Nat /\ IsFiniteSet(Keys)
ASSUME TimesAssumption ==
    /\ {CronScan, RunTimeout, ShortBelow, MinShortCap, StalePlan, Day} \subseteq Nat
    /\ Backoff \in Seq(Nat)
ASSUME BudgetAssumption == RetriesPerDay \in Nat
ASSUME LimitsAssumption == Batch \in Nat /\ Short \in Nat
ASSUME BoundsAssumption == MaxTime \in Nat /\ MaxCrashes \in Nat
ASSUME NoneAssumption == None \notin Int
ASSUME FaultsAssumption == Faults \subseteq FaultNames

VARIABLES
    now,        \* the wall clock
    \* the RunQueue struct
    entries,    \* [Keys -> Entry or None]
    gone,       \* runs whose pipeline went away while they ran
    ends,       \* runs that ended and nobody was told of yet
    plannedAt, ran, streams, unbound, failed, rules,
    \* the tick task: where it is, and the locals it carries across its awaits
    tickPc, tickAt, toSweep, toPoll, polled, toDelete, toTell, toStart, toClean,
    passPc,     \* where the reconciler's pass is
    runner,     \* outside: the stream the runner holds under each key
    log,        \* outside: what the durable run log says of each pipeline's newest run
    crashes,    \* restarts of the Portal so far
    \* history: what the properties compare the state with
    unremoved,  \* keys whose stream the runner kept: its delete failed, or its Portal died
    retryTimes  \* per entry, when each of its retries was queued

queueVars == <<entries, gone, ends, plannedAt, ran, streams, unbound, failed, rules>>
tickVars  == <<tickPc, tickAt, toSweep, toPoll, polled, toDelete, toTell, toStart, toClean>>
histVars  == <<unremoved, retryTimes>>
vars == <<now, queueVars, tickVars, passPc, runner, log, crashes, histVars>>

-----------------------------------------------------------------------------
(* Clocks and lanes.  A clock is run-once, a period with a phase, or a cron *)
(* line, which is the set of minutes it matches.                            *)

Smaller(a, b) == IF a < b THEN a ELSE b
Larger(a, b) == IF a > b THEN a ELSE b
Earliest(S) == CHOOSE t \in S : \A u \in S : t <= u

\* Cron::next_after: the first match of a scan from the minute after t, which gives up after CronScan.
CronNextAfter(fires, t) ==
    LET later == {m \in fires : t < m /\ m <= t + CronScan}
    IN  IF later = {} THEN None ELSE Earliest(later)

\* Clock::next_after: the first run strictly after t.
NextAfter(clock, t) ==
    CASE clock.kind = "once"  -> None
      [] clock.kind = "every" -> ((t - clock.phase) \div clock.every + 1) * clock.every + clock.phase
      [] clock.kind = "cron"  -> CronNextAfter(clock.fires, t)

\* Clock::lane: short when the next two runs are less than ShortBelow apart.
LaneOf(clock, t) ==
    LET first  == NextAfter(clock, t)
        second == NextAfter(clock, first)
    IN  IF first # None /\ second # None /\ second - first < ShortBelow
        THEN "short" ELSE "batch"

Limit(lane) == IF lane = "batch" THEN Larger(Batch, 1) ELSE Larger(Short, 1)

\* A restart that forgets what was due.
Missed_Forgotten(clock, last, t) == None

\* missed: the due time a pipeline whose newest run last wrote at `last` missed by t.
Missed(clock, last, t) ==
    LET due == NextAfter(clock, last)
    IN  IF due # None /\ due <= t THEN due ELSE None

-----------------------------------------------------------------------------
(* One entry of the queue.                                                  *)

\* Entry::cap: how long one run may take.
Cap(e) ==
    IF e.clock.kind = "every" /\ e.clock.every < ShortBelow
    THEN Smaller(RunTimeout, Larger(3 * e.clock.every, MinShortCap))
    ELSE RunTimeout

\* A retry armed without counting the day's.
Arm_Unbounded(e, run, t) ==
    IF e.armedFor = run THEN e
    ELSE [e EXCEPT !.armedFor = run, !.attempts = @ + 1,
                   !.retry = IF e.attempts < Len(Backoff) THEN t + Backoff[e.attempts + 1] ELSE None]

\* Entry::arm: the retry the failed run `run` earns at t.
Arm(e, run, t) ==
    LET kept   == {r \in e.retried : t - r < Day}
        spent  == e.attempts >= Len(Backoff)
        at     == t + Backoff[e.attempts + 1]
        earned == /\ ~spent
                  /\ Cardinality(kept) < RetriesPerDay
                  /\ e.next = None \/ at < e.next
    IN  IF e.armedFor = run THEN e
        ELSE [e EXCEPT !.armedFor = run, !.retried = kept, !.attempts = @ + 1,
                       !.retry = IF earned THEN at ELSE None]

\* Entry::clear_retry.
ClearRetry(e) == [e EXCEPT !.retry = None, !.armedFor = None, !.attempts = 0]

\* Neither queued nor in the runner, nor held for a run the runner would not stop.
Free(e) == e.queued = None /\ e.running = None /\ ~e.stuck

\* A due time that replaces the one already queued.
QueueDue_Redated(e, t) ==
    IF e.next = None \/ e.next > t THEN e
    ELSE [e EXCEPT !.queued = IF e.running = None THEN e.next ELSE @,
                   !.next   = NextAfter(e.clock, t)]

\* queue_due, for one entry: its clock moves on whether or not the run is queued.
QueueDue(e, t) ==
    IF e.next = None \/ e.next > t THEN e
    ELSE [e EXCEPT !.queued = IF Free(e) THEN e.next ELSE @,
                   !.next   = NextAfter(e.clock, t)]

\* queue_retries, for one entry: a due retry is taken whether or not it is queued.
RetryDue(e, t) == e.retry # None /\ e.retry <= t
QueueRetry(e, t) ==
    CASE ~RetryDue(e, t) -> e
      [] RetryDue(e, t) /\ Free(e)  -> [e EXCEPT !.queued = e.retry, !.retry = None,
                                                 !.retried = @ \cup {t}]
      [] RetryDue(e, t) /\ ~Free(e) -> [e EXCEPT !.retry = None]

-----------------------------------------------------------------------------
(* RunQueue::plan and retries.                                              *)

FirstDue(p, t) == IF p.clock.kind = "once" THEN t ELSE NextAfter(p.clock, t)

\* A restart that does not compare the stream with the logged one.
ChangedUnheld_Ignored(k, p) == FALSE

\* changed_unheld: a replace pipeline whose stream is not the one its newest logged run ran.
ChangedUnheld(k, p) ==
    p.replace /\ streams # None /\ streams[k] # None /\ streams[k] # p.stream

FirstOfNew(k, p, t) ==
    LET missed == Missed(p.clock, ran[k], t)
    IN  CASE ChangedUnheld(k, p)                                -> t
          [] ~ChangedUnheld(k, p) /\ ran = None                 -> FirstDue(p, t)
          [] ~ChangedUnheld(k, p) /\ ran # None /\ ran[k] = None -> t
          [] OTHER -> IF missed # None THEN missed ELSE FirstDue(p, t)

NewEntry(k, p, t) ==
    [stream |-> p.stream, clock |-> p.clock, lane |-> LaneOf(p.clock, t),
     next |-> FirstOfNew(k, p, t), queued |-> None, running |-> None,
     run |-> None, runStream |-> None, sweep |-> TRUE, stuck |-> FALSE,
     lastFailed |-> FALSE, retry |-> None, armedFor |-> None, attempts |-> 0, retried |-> {}]

\* A plan that re-hashes the run under way.
ChangedEntry_Rehashed(e, p, t) ==
    [e EXCEPT !.stuck = FALSE, !.stream = p.stream, !.clock = p.clock,
              !.lane = LaneOf(p.clock, t), !.next = FirstDue(p, t),
              !.runStream = IF e.running = None THEN @ ELSE p.stream]

ChangedEntry(e, p, t) ==
    [e EXCEPT !.stuck = FALSE, !.stream = p.stream, !.clock = p.clock,
              !.lane = LaneOf(p.clock, t),
              !.next = IF p.replace /\ e.stream # p.stream THEN t ELSE FirstDue(p, t)]

PlannedEntry(k, p, t) ==
    CASE p = None -> None
      [] p # None /\ entries[k] = None -> NewEntry(k, p, t)
      [] p # None /\ entries[k] # None ->
            IF entries[k].stream = p.stream /\ entries[k].clock = p.clock
            THEN entries[k] ELSE ChangedEntry(entries[k], p, t)

\* retries: what the log says of the newest run arms or clears the retry of an idle entry;
\* rules that changed bring it forward.
Judged(e, k, t) ==
    IF failed = None \/ e.running # None \/ e.queued # None \/ e.lastFailed THEN e
    ELSE IF failed[k] # None THEN Arm(e, failed[k], t) ELSE ClearRetry(e)

BroughtForward(e, changed, t) ==
    IF changed /\ e.retry # None THEN [e EXCEPT !.retry = Smaller(@, t)] ELSE e

\* What plan makes of the whole queue: `changed` says the project's rules changed.
PlannedEntries(wanted, changed, t) ==
    [k \in Keys |->
        LET e == PlannedEntry(k, wanted[k], t)
        IN  IF e = None THEN None ELSE BroughtForward(Judged(e, k, t), changed, t)]

\* A plan that drops an entry and forgets its run.
DroppedRuns_Forgotten(wanted) == {}

\* Runs in the runner whose pipeline is not planned any more.
DroppedRuns(wanted) ==
    {k \in Keys : entries[k] # None /\ wanted[k] = None /\ entries[k].running # None}

-----------------------------------------------------------------------------
(* RunQueue::settle, in its four steps: the runs that ended end, what came  *)
(* due is queued, then each lane refuses and starts.                        *)

Running(k) == entries[k] # None /\ entries[k].running # None

PastCap(e, t) == t - e.running >= Cap(e)

EndsNow(k, t) ==
    /\ polled[k] # None /\ Running(k)
    /\ polled[k] \in {"finished", "gone"} \/ PastCap(entries[k], t)

\* A run the runner lost is retried, one past its cap is not.
EndRun(e, state, t) ==
    [(IF state = "gone" THEN Arm(e, e.run, t) ELSE e) EXCEPT
        !.running = None, !.runStream = None,
        !.lastFailed = state # "finished"]

\* An end reported with the stream planned by now.
EndReport_Planned(k) ==
    [key |-> k, run |-> entries[k].run, finished |-> polled[k] = "finished",
     stream |-> entries[k].stream]

EndReport(k) ==
    [key |-> k, run |-> entries[k].run, finished |-> polled[k] = "finished",
     stream |-> entries[k].runStream]

\* The queue after the runs ended and what is due joined it.
Due(t) ==
    [k \in Keys |->
        IF entries[k] = None THEN None
        ELSE QueueRetry(QueueDue(IF EndsNow(k, t) THEN EndRun(entries[k], polled[k], t)
                                 ELSE entries[k], t), t)]

\* A plan older than StalePlan belongs to a Portal that lost its leadership.
Fresh(t) == plannedAt # None /\ t - plannedAt < StalePlan

Waiting(q, lane) ==
    {k \in Keys : /\ q[k] # None
                  /\ q[k].lane = lane /\ q[k].running = None
                  /\ q[k].queued # None /\ ~q[k].sweep}

Refused(q, t) ==
    {k \in Waiting(q, "batch") \cup Waiting(q, "short") : Fresh(t) /\ k \in unbound}

\* A lane served in name order.
Precedes_ByKey(q, j, k) == j < k

\* The older due time first, then the smaller key.
Precedes(q, j, k) ==
    q[j].queued < q[k].queued \/ (q[j].queued = q[k].queued /\ j < k)

\* The runs of a lane under way.
Busy(q, lane) == {k \in Keys : q[k] # None /\ q[k].lane = lane /\ q[k].running # None}

\* A lane whose runs under way are not counted.
Room_Whole(q, lane, t) == IF Fresh(t) THEN Limit(lane) ELSE 0

Room(q, lane, t) ==
    IF Fresh(t) THEN Larger(Limit(lane) - Cardinality(Busy(q, lane)), 0) ELSE 0

\* A refused run that keeps its place in the lane.
Starts_RefusedCounted(q, lane, t) ==
    LET next == Waiting(q, lane)
    IN  {k \in next \ Refused(q, t) :
            Cardinality({j \in next : Precedes(q, j, k)}) < Room(q, lane, t)}

Starts(q, lane, t) ==
    LET next == Waiting(q, lane) \ Refused(q, t)
    IN  {k \in next : Cardinality({j \in next : Precedes(q, j, k)}) < Room(q, lane, t)}

StartsNow(q, t) == Starts(q, "batch", t) \cup Starts(q, "short", t)

RefuseRun(e) == [e EXCEPT !.queued = None, !.lastFailed = TRUE]
\* A start that does not keep the stream it starts.
StartRun_Unhashed(e, t) == [e EXCEPT !.queued = None, !.running = t, !.run = e.queued]

StartRun(e, t) ==
    [e EXCEPT !.queued = None, !.running = t, !.run = e.queued, !.runStream = e.stream]

Settled(q, t) ==
    [k \in Keys |->
        IF k \in Refused(q, t) THEN RefuseRun(q[k])
        ELSE IF k \in StartsNow(q, t) THEN StartRun(q[k], t)
        ELSE q[k]]

-----------------------------------------------------------------------------
(* The tick.                                                                *)

\* The tick goes through a list in key order.
IsFirst(k, S) == k \in S /\ \A j \in S : k <= j

\* The first locked section: sweeps() and running().
Sweeps == gone \cup {k \in Keys : entries[k] # None /\ entries[k].sweep /\ ~Running(k)}

\* A sweep that is never done with.
SweptEntries_Again == entries

SweptEntries ==
    [k \in Keys |-> IF k \in Sweeps /\ entries[k] # None
                    THEN [entries[k] EXCEPT !.sweep = FALSE] ELSE entries[k]]

TickBegin ==
    /\ tickPc = "idle"
    /\ now > tickAt \/ now = MaxTime     \* the last instant stands for all time after it
    /\ toSweep' = Sweeps
    /\ toPoll' = {k \in Keys : Running(k)}
    /\ gone' = {}
    /\ entries' = SweptEntries
    /\ tickAt' = now
    /\ tickPc' = "sweep"
    /\ polled' = [k \in Keys |-> None]
    /\ UNCHANGED <<now, ends, plannedAt, ran, streams, unbound, failed, rules, toDelete, toTell,
                   toStart, toClean, passPc, runner, log, crashes, histVars>>

\* Runner::delete (streams.rs remove): removed; no answer in time, false; or an error the
\* queue takes for done, the stream still there.
Delete(k, outcome) ==
    /\ outcome \in {"removed"} \cup ({"delete_timeout", "delete_error"} \cap Faults)
    /\ IF outcome = "removed"
       THEN runner' = [runner EXCEPT ![k] = None] /\ unremoved' = unremoved \ {k}
       ELSE UNCHANGED runner /\ unremoved' = unremoved \cup {k}

\* The result of a sweep's delete is not looked at.
TickSweep(k) ==
    /\ tickPc = "sweep" /\ IsFirst(k, toSweep)
    /\ toSweep' = toSweep \ {k}
    /\ \E outcome \in {"removed", "delete_timeout", "delete_error"} : Delete(k, outcome)
    /\ UNCHANGED <<now, queueVars, tickPc, tickAt, toPoll, polled, toDelete, toTell, toStart,
                   toClean, passPc, log, crashes, retryTimes>>

\* Runner::state: what the runner holds, and "running" when it does not answer.
StateOf(k) ==
    CASE runner[k] = None -> "gone"
      [] runner[k] # None /\ runner[k].active -> "running"
      [] runner[k] # None /\ ~runner[k].active -> "finished"

TickPoll(k) ==
    /\ tickPc = "sweep" /\ toSweep = {} /\ IsFirst(k, toPoll)
    /\ toPoll' = toPoll \ {k}
    /\ \E state \in {StateOf(k)} \cup (IF "no_answer" \in Faults THEN {"running"} ELSE {}) :
           polled' = [polled EXCEPT ![k] = state]
    /\ UNCHANGED <<now, queueVars, tickPc, tickAt, toSweep, toDelete, toTell, toStart, toClean,
                   passPc, runner, log, crashes, histVars>>

\* The second locked section: settle.
TickSettle ==
    LET t == tickAt
        q == Due(t)
    IN  /\ tickPc = "sweep" /\ toSweep = {} /\ toPoll = {}
        /\ entries' = Settled(q, t)
        /\ ends' = ends \cup {EndReport(k) : k \in {j \in Keys : EndsNow(j, t)}}
        /\ toDelete' = {k \in Keys : EndsNow(k, t)}
        /\ toStart' = {[key |-> k, run |-> q[k].queued, stream |-> q[k].stream] :
                          k \in StartsNow(q, t)}
        /\ retryTimes' = [k \in Keys |->
               IF entries[k] # None /\ q[k].retried # entries[k].retried /\ t \in q[k].retried
               THEN retryTimes[k] \cup {t} ELSE retryTimes[k]]
        /\ polled' = [k \in Keys |-> None]
        /\ tickPc' = "delete"
        /\ UNCHANGED <<now, gone, plannedAt, ran, streams, unbound, failed, rules, tickAt, toSweep,
                       toPoll, toTell, toClean, passPc, runner, log, crashes, unremoved>>

\* stuck: the runner did not let go of the run.
Stuck(k) ==
    entries' = IF entries[k] = None THEN entries
               ELSE [entries EXCEPT ![k].stuck = TRUE, ![k].queued = None, ![k].lastFailed = TRUE]

TickDelete(k) ==
    /\ tickPc = "delete" /\ IsFirst(k, toDelete)
    /\ toDelete' = toDelete \ {k}
    /\ \/ /\ \E outcome \in {"removed", "delete_error"} : Delete(k, outcome)
          /\ UNCHANGED entries
       \/ Delete(k, "delete_timeout") /\ Stuck(k)
    /\ UNCHANGED <<now, gone, ends, plannedAt, ran, streams, unbound, failed, rules, tickPc, tickAt,
                   toSweep, toPoll, polled, toTell, toStart, toClean, passPc, log, crashes,
                   retryTimes>>

\* The ends are taken once every delete was answered.
TickTakeEnds ==
    /\ tickPc = "delete" /\ toDelete = {}
    /\ toTell' = ends /\ ends' = {}
    /\ tickPc' = "tell"
    /\ UNCHANGED <<now, entries, gone, plannedAt, ran, streams, unbound, failed, rules, tickAt,
                   toSweep, toPoll, polled, toDelete, toStart, toClean, passPc, runner, log,
                   crashes, histVars>>

\* Runner::ended: the listener files the stream with the run's row in the log, if it has one.
\* It listens on a channel without a bound; the report is taken as delivered when it is sent.
TickTell(end) ==
    /\ tickPc = "tell" /\ end \in toTell
    /\ toTell' = toTell \ {end}
    /\ log' = IF log[end.key] # None /\ log[end.key].run = end.run
              THEN [log EXCEPT ![end.key].stream = end.stream] ELSE log
    /\ UNCHANGED <<now, queueVars, tickPc, tickAt, toSweep, toPoll, polled, toDelete, toStart,
                   toClean, passPc, runner, crashes, histVars>>

\* Starts sent before the ended runs are deleted.
MayStart_Early == tickPc \in {"delete", "tell"} /\ toTell = {} /\ toClean = {}

\* The starts are sent after the deletes and the reports, and one at a time.
MayStart == tickPc = "tell" /\ toTell = {} /\ toClean = {}

\* Runner::start succeeded.
Load(start) ==
    /\ runner' = [runner EXCEPT ![start.key] =
                     [run |-> start.run, stream |-> start.stream, active |-> TRUE]]
    /\ unremoved' = unremoved \ {start.key}

\* failed_to_start.
FailedToStart(k, t) ==
    LET e == entries[k]
    IN  entries' = IF e = None THEN entries
                   ELSE [entries EXCEPT ![k] =
                            [(IF e.run = None THEN e ELSE Arm(e, e.run, t)) EXCEPT
                                !.running = None, !.lastFailed = TRUE]]

TickStart(start) ==
    /\ MayStart /\ start \in toStart
    /\ toStart' = toStart \ {start}
    /\ \/ /\ Load(start)
          /\ UNCHANGED <<entries, toClean>>
       \/ /\ "start_refused" \in Faults
          /\ FailedToStart(start.key, tickAt)
          /\ toClean' = {start.key}
          /\ UNCHANGED <<runner, unremoved>>
       \/ /\ "start_unanswered" \in Faults
          /\ Load(start)
          /\ FailedToStart(start.key, tickAt)
          /\ toClean' = {start.key}
    /\ UNCHANGED <<now, gone, ends, plannedAt, ran, streams, unbound, failed, rules, tickPc, tickAt,
                   toSweep, toPoll, polled, toDelete, toTell, passPc, log, crashes, retryTimes>>

\* A start that failed is deleted, whatever the runner holds.
TickClean(k) ==
    /\ tickPc = "tell" /\ k \in toClean
    /\ toClean' = {}
    /\ \E outcome \in {"removed", "delete_timeout", "delete_error"} : Delete(k, outcome)
    /\ UNCHANGED <<now, queueVars, tickPc, tickAt, toSweep, toPoll, polled, toDelete, toTell,
                   toStart, passPc, log, crashes, retryTimes>>

TickEnd ==
    /\ tickPc = "tell" /\ toTell = {} /\ toStart = {} /\ toClean = {}
    /\ tickPc' = "idle"
    /\ UNCHANGED <<now, queueVars, tickAt, toSweep, toPoll, polled, toDelete, toTell, toStart,
                   toClean, passPc, runner, log, crashes, histVars>>

-----------------------------------------------------------------------------
(* The reconciler's pass (daemon.rs converge_workload_accounts, then        *)
(* converge_streams): the accounts without a client and three reads of the  *)
(* log, each of which may fail; then, renders and calls to the runner       *)
(* later, the plan.                                                         *)

\* One read of the log: what it says now, or what the queue had when it was not read.
ReadOr(value, kept) == IF "log_unread" \in Faults THEN {value, kept} ELSE {value}

\* What a later pass would find if its read failed; without that fault nothing looks at it.
Kept(value) == IF "log_unread" \in Faults THEN value ELSE None

PassRead ==
    /\ passPc = "idle" /\ plannedAt # now     \* bound: one pass per instant
    /\ unbound' \in Unbounds
    /\ ran'     \in ReadOr([k \in Keys |-> IF log[k] = None THEN None ELSE log[k].at], ran)
    /\ streams' \in ReadOr([k \in Keys |-> IF log[k] = None THEN None ELSE log[k].stream], streams)
    /\ failed'  \in ReadOr([k \in Keys |-> IF log[k] # None /\ log[k].failed
                                           THEN log[k].run ELSE None], failed)
    /\ passPc' = "plan"
    /\ UNCHANGED <<now, entries, gone, ends, plannedAt, rules, tickVars, runner, log, crashes,
                   histVars>>

\* rules then plan, in one locked section; plan takes `failed`.
PassPlan(wanted, fingerprint) ==
    /\ passPc = "plan"
    /\ plannedAt' = now
    /\ entries' = PlannedEntries(wanted, rules # None /\ rules # fingerprint, now)
    /\ gone' = gone \cup DroppedRuns(wanted)
    /\ failed' = None
    /\ ran' = Kept(ran) /\ streams' = Kept(streams)
    /\ rules' = fingerprint
    /\ retryTimes' = [k \in Keys |-> IF entries[k] = None \/ wanted[k] = None THEN {}
                                     ELSE retryTimes[k]]
    /\ passPc' = "idle"
    /\ UNCHANGED <<now, ends, unbound, tickVars, runner, log, crashes, unremoved>>

-----------------------------------------------------------------------------
(* The API, and what happens outside the Portal.                            *)

\* run_now, when it queues a run: not while one is queued or runs, nor for a held pipeline.
RunNow(k) ==
    /\ RunNowAllowed /\ now < MaxTime
    /\ entries[k] # None /\ Free(entries[k])
    /\ entries' = [entries EXCEPT ![k].queued = now]
    /\ UNCHANGED <<now, gone, ends, plannedAt, ran, streams, unbound, failed, rules, tickVars,
                   passPc, runner, log, crashes, histVars>>

\* A run reads its input to the end; its last line says whether a cause outside its source
\* refused its records.
RunFinishes(k) ==
    /\ runner[k] # None /\ runner[k].active
    /\ runner' = [runner EXCEPT ![k].active = FALSE]
    /\ \E outside \in {FALSE} \cup (IF "outside_failure" \in Faults THEN {TRUE} ELSE {}) :
           log' = [log EXCEPT ![k] =
                      [at |-> now, run |-> runner[k].run, failed |-> outside,
                       stream |-> IF log[k] # None /\ log[k].run = runner[k].run
                                  THEN log[k].stream ELSE None]]
    /\ UNCHANGED <<now, queueVars, tickVars, passPc, crashes, histVars>>

\* The runner restarts and holds no stream.
RunnerRestarts ==
    /\ "runner_lost" \in Faults
    /\ \E k \in Keys : runner[k] # None
    /\ runner' = [k \in Keys |-> None]
    /\ unremoved' = {}
    /\ UNCHANGED <<now, queueVars, tickVars, passPc, log, crashes,
                   retryTimes>>

EmptyQueue ==
    /\ entries' = [k \in Keys |-> None]
    /\ gone' = {} /\ ends' = {} /\ plannedAt' = None
    /\ ran' = None /\ streams' = None /\ unbound' = {} /\ failed' = None /\ rules' = None

\* The Portal restarts: the queue and both tasks start over, the runner keeps its streams.
Crash ==
    /\ crashes < MaxCrashes
    /\ crashes' = crashes + 1
    /\ EmptyQueue
    /\ tickPc' = "idle" /\ passPc' = "idle"
    /\ toSweep' = {} /\ toPoll' = {} /\ polled' = [k \in Keys |-> None]
    /\ toDelete' = {} /\ toTell' = {} /\ toStart' = {} /\ toClean' = {}
    /\ unremoved' = {k \in Keys : runner[k] # None}
    /\ retryTimes' = [k \in Keys |-> {}]
    /\ UNCHANGED <<now, tickAt, runner, log>>

\* Time passes between two ticks and two passes, and during them when the runner is slow.
Advance ==
    /\ now < MaxTime
    /\ "slow_calls" \in Faults \/ (tickPc = "idle" /\ passPc = "idle")
    /\ now' = now + 1
    /\ UNCHANGED <<queueVars, tickVars, passPc, runner, log, crashes, histVars>>

-----------------------------------------------------------------------------
Init ==
    /\ now = 0
    /\ entries = [k \in Keys |-> None]
    /\ gone = {} /\ ends = {} /\ plannedAt = None
    /\ ran = None /\ streams = None /\ unbound = {} /\ failed = None /\ rules = None
    /\ tickPc = "idle" /\ tickAt = -1
    /\ toSweep = {} /\ toPoll = {} /\ polled = [k \in Keys |-> None]
    /\ toDelete = {} /\ toTell = {} /\ toStart = {} /\ toClean = {}
    /\ passPc = "idle"
    /\ runner = [k \in Keys |-> None]
    /\ log = [k \in Keys |-> None]
    /\ crashes = 0
    /\ unremoved = {}
    /\ retryTimes = [k \in Keys |-> {}]

Tick ==
    \/ TickBegin \/ TickSettle \/ TickTakeEnds \/ TickEnd
    \/ \E k \in Keys : TickSweep(k) \/ TickPoll(k) \/ TickDelete(k) \/ TickClean(k)
    \/ \E end \in toTell : TickTell(end)
    \/ \E start \in toStart : TickStart(start)

Pass ==
    \/ PassRead
    \/ \E wanted \in Plans, fingerprint \in Fingerprints : PassPlan(wanted, fingerprint)

Outside == RunnerRestarts \/ Crash \/ \E k \in Keys : RunFinishes(k)

Next == Tick \/ Pass \/ Outside \/ Advance \/ \E k \in Keys : RunNow(k)

Spec == Init /\ [][Next]_vars

-----------------------------------------------------------------------------
(* Types.                                                                   *)

Clock == [kind : {"once"}]
         \cup [kind : {"every"}, every : Nat \ {0}, phase : Nat]
         \cup [kind : {"cron"}, fires : SUBSET Nat]
Planned == [stream : Streams, clock : Clock, replace : BOOLEAN]

ASSUME PlansAssumption == Plans \subseteq [Keys -> Planned \cup {None}]
ASSUME UnboundsAssumption == Unbounds \subseteq SUBSET Keys

MaybeTime == Int \cup {None}
MaybeStream == Streams \cup {None}

Entry ==
    [stream : Streams, clock : Clock, lane : {"batch", "short"}, next : MaybeTime,
     queued : MaybeTime, running : MaybeTime, run : MaybeTime, runStream : MaybeStream,
     sweep : BOOLEAN, stuck : BOOLEAN, lastFailed : BOOLEAN, retry : MaybeTime,
     armedFor : MaybeTime, attempts : Nat, retried : SUBSET Int]

ASSUME NoneIsNoEntry == None \notin Entry

RunEnd == [key : Keys, run : Int, finished : BOOLEAN, stream : Streams]
RunStart == [key : Keys, run : Int, stream : Streams]
Stream == [run : Int, stream : Streams, active : BOOLEAN]
LogRow == [at : Int, run : Int, failed : BOOLEAN, stream : MaybeStream]

\* Every variable has the shape the code gives it: in particular a run handed to the runner or
\* told to the listener always has an id and a stream (settle's `entry.run`, `run_stream`).
TypeOK ==
    /\ now \in Nat
    /\ entries \in [Keys -> Entry \cup {None}]
    /\ gone \subseteq Keys
    /\ ends \subseteq RunEnd
    /\ plannedAt \in MaybeTime
    /\ ran \in [Keys -> MaybeTime] \cup {None}
    /\ streams \in [Keys -> MaybeStream] \cup {None}
    /\ unbound \subseteq Keys
    /\ failed \in [Keys -> MaybeTime] \cup {None}
    /\ rules \in Fingerprints \cup {None}
    /\ tickPc \in {"idle", "sweep", "delete", "tell"}
    /\ tickAt \in Int
    /\ toSweep \subseteq Keys /\ toPoll \subseteq Keys
    /\ polled \in [Keys -> {"running", "finished", "gone", None}]
    /\ toDelete \subseteq Keys
    /\ toTell \subseteq RunEnd
    /\ toStart \subseteq RunStart
    /\ toClean \subseteq Keys
    /\ passPc \in {"idle", "plan"}
    /\ runner \in [Keys -> Stream \cup {None}]
    /\ log \in [Keys -> LogRow \cup {None}]
    /\ crashes \in Nat
    /\ unremoved \subseteq Keys
    /\ retryTimes \in [Keys -> SUBSET Int]

-----------------------------------------------------------------------------
(* Safety.                                                                  *)

Starting(k) == \E start \in toStart : start.key = k

\* A stream of the queue is never forgotten in the runner: as long as the runner holds it, the
\* queue runs it, or some tick is bound to delete it (`gone`, `sweep`, or a delete the current
\* tick still has to send).  Only a delete the runner failed, or a Portal that died, leaves one.
NoForgottenRun ==
    \A k \in Keys : runner[k] # None =>
        \/ Running(k)
        \/ entries[k] # None /\ entries[k].sweep
        \/ k \in gone \cup toSweep \cup toDelete \cup toClean
        \/ k \in unremoved

\* When the queue says a pipeline runs and its start was sent, the runner holds that very run
\* of that very stream, or nothing (it lost it): plans, sweeps and failed starts in between
\* never leave another run under the key.
RunnerHoldsNamedRun ==
    \A k \in Keys :
        Running(k) /\ ~Starting(k) /\ runner[k] # None =>
            runner[k].run = entries[k].run /\ runner[k].stream = entries[k].runStream

\* The tick never deletes a run that is under way: it ends a run, sweeps a leftover or cleans up
\* a failed start, but a delete it decided on before an await never hits the run that came after.
TickSparesRunning ==
    [][\A k \in Keys :
          Running(k) /\ ~Starting(k) /\ runner[k] # None /\ runner'[k] = None =>
              tickVars' = tickVars]_vars

\* One run per pipeline: a start never takes the place of a run the runner still holds, unless
\* that one was left there by a delete that failed or a Portal that died.  The start is decided
\* when the run before it, of this entry or of one a plan dropped, may still be in the runner.
NeverTwoRuns ==
    [][\A k \in Keys :
          runner[k] # None /\ runner'[k] # None /\ k \notin unremoved =>
              runner'[k].run = runner[k].run /\ runner'[k].stream = runner[k].stream]_vars

\* The end of a run is reported with the stream that run really ran, though a plan may have
\* changed the pipeline's stream while it ran (run_stream, T-5825).
EndsNameWhatRan ==
    [][\A end \in ends' \ ends :
          runner[end.key] # None => /\ end.run = runner[end.key].run
                                    /\ end.stream = runner[end.key].stream]_vars

\* The id run_now or the clock gave a queued run is the id it starts under: nothing re-dates a
\* queued run (get_or_insert in run_now, queued.is_none() in queue_due and queue_retries).
QueuedKeepsItsRun ==
    [][\A k \in Keys :
          entries[k] # None /\ entries[k].queued # None /\ entries'[k] # None =>
              \/ entries'[k].queued = entries[k].queued
              \/ /\ entries'[k].queued = None
                 /\ entries'[k].running # None => entries'[k].run = entries[k].queued]_vars

\* No day-long window holds more than RETRIES_PER_DAY queued retries of one entry, whatever
\* armed them (a plan, a lost run, a refused start) and however rules brought them forward.
RetryWindow ==
    \A k \in Keys : \A t \in retryTimes[k] :
        Cardinality({r \in retryTimes[k] : r <= t /\ t - r < Day}) <= RetriesPerDay

\* In a lane the run due longest starts first: no run starts while one of an older due time
\* waits in the same lane.
OldestFirst ==
    [][\A j, k \in Keys :
          /\ entries[k] # None /\ entries'[k] # None /\ entries'[j] # None
          /\ ~Running(k) /\ entries'[k].running # None
          /\ entries'[j].lane = entries'[k].lane /\ ~entries'[j].sweep
          /\ entries'[j].queued # None
          => entries'[k].run <= entries'[j].queued]_vars

\* What a settle starts fits the lane: with it the lane has no more runs under way than its limit,
\* though the runs that end, the lanes a plan changed and the other starts are all of that settle.
LaneKeepsLimit ==
    [][\A start \in toStart' \ toStart, lane \in {"batch", "short"} :
          lane = entries'[start.key].lane => Cardinality(Busy(entries', lane)) <= Limit(lane)]_vars

\* No slot idles: when a settle of a fresh plan leaves a run waiting in a lane, that lane runs as
\* many as its limit allows; a run refused for its account leaves its slot to the next (T-4426).
NoSlotIdles ==
    [][\A k \in Keys, lane \in {"batch", "short"} :
          /\ tickPc = "sweep" /\ tickPc' = "delete" /\ Fresh(tickAt)
          /\ entries'[k] # None /\ entries'[k].lane = lane
          /\ entries'[k].queued # None /\ ~entries'[k].sweep
          => Cardinality(Busy(entries', lane)) >= Limit(lane)]_vars

-----------------------------------------------------------------------------
(* Liveness.  The tick loop and the reconciler's loop never end, time goes  *)
(* on, and a run either finishes or is past its cap.                        *)

Fairness ==
    /\ WF_vars(Tick) /\ WF_vars(Pass) /\ WF_vars(Advance)
    /\ WF_vars(\E k \in Keys : RunFinishes(k))

FairSpec == Spec /\ Fairness

Held(k, P(_)) == IF entries[k] = None THEN FALSE ELSE P(entries[k])
LoggedStream(k) == IF log[k] = None THEN None ELSE log[k].stream
WroteSince(k, t) == IF log[k] = None THEN FALSE ELSE log[k].at >= t

\* The pipelines some plan replaces the entities of, and whose account always has a client.
Replacing == {k \in Keys \ UNION Unbounds : \E p \in Plans : p[k] # None /\ p[k].replace}

\* Every queued run leaves the queue: it starts, is refused for its account, or its pipeline
\* goes away.
QueuedRunLeaves ==
    \A k \in Keys :
        LET Queued(e) == e.queued # None
        IN  Held(k, Queued) ~> ~Held(k, Queued)

\* No due time is lost: after each time a cron clock fires, some run of the pipeline writes at
\* or after it, also when the Portal restarts with the run queued, in the runner, or just ended
\* (missed, T-5778; a pipeline that never ran, T-4421).
DueTimeIsServed ==
    \A k \in Keys \ UNION Unbounds, due \in 1..MaxTime :
        LET Fired(e) == e.clock.kind = "cron" /\ due \in e.clock.fires /\ due <= now
        IN  Held(k, Fired) ~> WroteSince(k, due)

\* A replace pipeline that is new to the queue and whose newest logged run ran another stream,
\* changed while no Portal held it, comes to run the planned stream whatever its clock says
\* (changed_unheld, T-5825).
RestartRewrites ==
    \A k \in Replacing, s \in Streams :
        LET New(e) == e.stream = s /\ e.sweep
            Wants(e) == e.stream = s
        IN  (Held(k, New) /\ LoggedStream(k) \notin {None, s})
                ~> (~Held(k, Wants) \/ LoggedStream(k) = s)

\* The same for a replace pipeline whose stream changes under a Portal that holds it: "a replace
\* pipeline whose stream changed is due at once" (plan, T-5824).
ReplaceIsRewritten ==
    \A k \in Replacing, s \in Streams :
        LET Wants(e) == e.stream = s
        IN  (Held(k, Wants) /\ LoggedStream(k) \notin {None, s})
                ~> (~Held(k, Wants) \/ LoggedStream(k) = s)

=============================================================================
