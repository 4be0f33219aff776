------------------------- MODULE RunQueueStepProofs -------------------------
(***************************************************************************)
(* What the steps of the run queue may never do, for any pipelines,        *)
(* clocks, lanes, faults and bounds: delete a run under way, start one     *)
(* over another, report an end with another run's stream, re-date a queued *)
(* run, overtake an older one, overfill a lane, or queue more retries in a *)
(* day than the budget.                                                    *)
(***************************************************************************)
EXTENDS RunQueueProofs

-----------------------------------------------------------------------------
(* What each action does to one entry.                                      *)

\* What a retry is decided from.
SameRetry(e, f) == f.retry = e.retry /\ f.retried = e.retried

\* Everything but what waits in the queue.
SameButQueued(e, f) == SameRun(e, f) /\ SameRetry(e, f) /\ f.sweep = e.sweep

\* An entry that waits runs nothing.
OneRun(e) == e.queued # None => e.running = None

\* The tick's first section takes the sweeps off and leaves the rest of an entry alone.
LEMMA BeginEntry ==
    ASSUME TypeInv, TickBegin, NEW k \in Keys
    PROVE  /\ entries'[k] = None <=> entries[k] = None
           /\ entries[k] # None =>
                 /\ SameRun(entries[k], entries'[k]) /\ SameRetry(entries[k], entries'[k])
                 /\ entries'[k].queued = entries[k].queued
<1>1. CASE entries[k] = None
  BY <1>1 DEF TickBegin, SweptEntries
<1>2. CASE entries[k] # None
  <2> DEFINE e == entries[k]
             f == [e EXCEPT !.sweep = FALSE]
  <2>1. e \in NamedEntry
    BY <1>2 DEF TypeInv
  <2>2. entries'[k] = e \/ entries'[k] = f
    BY DEF TickBegin, SweptEntries
  <2> HIDE DEF e
  <2>3. f \in Entry
    BY <2>1, Zenon DEF NamedEntry, Entry
  <2>4. SameRun(e, f) /\ SameRetry(e, f) /\ f.queued = e.queued /\ f # None
    BY <2>1, <2>3, NoneIsNoEntry DEF SameRun, SameRetry, NamedEntry, Entry
  <2> HIDE DEF f
  <2> QED BY <1>2, <2>2, <2>4 DEF SameRun, SameRetry, e
<1> QED BY <1>1, <1>2

\* A run the runner would not stop holds its pipeline: what waited is dropped, and no more.
LEMMA StuckEntry ==
    ASSUME TypeInv, NEW j \in Keys, Stuck(j), NEW k \in Keys
    PROVE  /\ entries'[k] = None <=> entries[k] = None
           /\ entries[k] # None =>
                 /\ SameButQueued(entries[k], entries'[k])
                 /\ entries'[k].queued \in {entries[k].queued, None}
<1>1. CASE entries'[k] = entries[k]
  BY <1>1 DEF SameButQueued, SameRun, SameRetry
<1>2. CASE k = j /\ entries[k] # None
  <2> DEFINE e == entries[k]
             f == [e EXCEPT !.stuck = TRUE, !.queued = None, !.lastFailed = TRUE]
  <2>1. e \in NamedEntry
    BY <1>2 DEF TypeInv
  <2>2. entries'[k] = f
    BY <1>2 DEF Stuck, TypeInv
  <2> HIDE DEF e
  <2>3. f \in Entry
    BY <2>1, Zenon DEF NamedEntry, Entry, MaybeTime
  <2>4. SameButQueued(e, f) /\ f.queued = None /\ f # None
    BY <2>1, <2>3, NoneIsNoEntry DEF SameButQueued, SameRun, SameRetry, NamedEntry, Entry
  <2> HIDE DEF f
  <2> QED BY <1>2, <2>2, <2>4 DEF e
<1> QED BY <1>1, <1>2 DEF Stuck, TypeInv

\* run_now queues a run for a pipeline that has none, and no more.
LEMMA RunNowEntry ==
    ASSUME TypeInv, NEW j \in Keys, RunNow(j), NEW k \in Keys
    PROVE  /\ entries'[k] = None <=> entries[k] = None
           /\ entries[k] # None =>
                 /\ SameButQueued(entries[k], entries'[k])
                 /\ entries'[k].queued = entries[k].queued \/ Free(entries[k])
<1>1. CASE k # j
  BY <1>1 DEF RunNow, TypeInv, SameButQueued, SameRun, SameRetry
<1>2. CASE k = j
  <2> DEFINE e == entries[k]
             f == [e EXCEPT !.queued = now]
  <2>1. e \in NamedEntry /\ now \in MaybeTime /\ Free(e)
    BY <1>2 DEF RunNow, TypeInv, TypeOK, MaybeTime
  <2>2. entries'[k] = f
    BY <1>2 DEF RunNow, TypeInv
  <2> HIDE DEF e
  <2>3. f \in Entry
    BY <2>1, Zenon DEF NamedEntry, Entry
  <2>4. SameButQueued(e, f) /\ f # None /\ e # None
    BY <2>1, <2>3, NoneIsNoEntry DEF SameButQueued, SameRun, SameRetry, NamedEntry, Entry
  <2> HIDE DEF f
  <2> QED BY <2>1, <2>2, <2>4 DEF e
<1> QED BY <1>1, <1>2

\* What is armed keeps its place in the queue.
LEMMA ArmKeeps ==
    ASSUME NEW e \in Entry, NEW r, NEW t
    PROVE  Arm(e, r, t).queued = e.queued /\ Arm(e, r, t).sweep = e.sweep
BY DEF Arm, Entry

\* A start that failed ends its run; the entry's retry is armed at the tick's time, or left alone.
LEMMA FailedEntry ==
    ASSUME TypeInv, NEW k \in Keys, NEW t \in Int, FailedToStart(k, t), entries[k] # None
    PROVE  LET e == entries[k]
               f == entries'[k]
           IN  /\ f # None /\ f.running = None /\ f.queued = e.queued /\ f.sweep = e.sweep
               /\ SameRetry(e, f) \/ (e.run \in Int /\ SameRetry(Arm(e, e.run, t), f))
<1> DEFINE e == entries[k]
           a == IF e.run = None THEN e ELSE Arm(e, e.run, t)
           g == [a EXCEPT !.running = None, !.lastFailed = TRUE]
<1>1. e \in NamedEntry
  BY DEF TypeInv
<1>2. entries'[k] = g
  BY DEF FailedToStart, TypeInv
<1> HIDE DEF e
<1>3. a \in Entry /\ a.queued = e.queued /\ a.sweep = e.sweep
  BY <1>1, ArmType, ArmKeeps DEF NamedEntry, Entry, MaybeTime
<1>4. a = e \/ (e.run \in Int /\ a = Arm(e, e.run, t))
  BY <1>1 DEF NamedEntry, Entry, MaybeTime
<1> HIDE DEF a
<1>5. g \in Entry
  BY <1>3, Zenon DEF Entry, MaybeTime
<1>6. g # None /\ g.running = None /\ g.queued = e.queued /\ g.sweep = e.sweep /\ SameRetry(a, g)
  BY <1>3, <1>5, NoneIsNoEntry DEF SameRetry, Entry
<1> HIDE DEF g
<1> QED BY <1>2, <1>4, <1>6 DEF e

-----------------------------------------------------------------------------
(* The budget of retries.  An entry remembers in `retried` only those of    *)
(* its queued retries that were less than a day old when it was last armed, *)
(* so RetryWindow needs to know that what it forgot is a day old: now, and  *)
(* in the second section of a tick, which queues retries at the time of the *)
(* first, also then, for an entry whose retry that section may queue.       *)

\* An entry beside the times R of the retries queued for it, while the tick at `at` is in phase pc.
Fits(e, R, pc, at, n) ==
    /\ e.retried \subseteq R
    /\ e.retry # None => Cardinality(e.retried) < RetriesPerDay
    /\ \A r \in R \ e.retried :
          /\ n - r >= Day
          /\ pc = "sweep" /\ (e.running # None \/ RetryDue(e, at)) => at - r >= Day

\* What keeps the retry and starts no run fits as before.
LEMMA FitsSame ==
    ASSUME NEW e, NEW f, NEW R, NEW pc, NEW at, NEW n,
           Fits(e, R, pc, at, n), SameRetry(e, f), f.running = e.running \/ f.running = None
    PROVE  Fits(f, R, pc, at, n)
BY DEF Fits, SameRetry, RetryDue

\* arm forgets retries that are a day old at the time it is given: the tick's own time, for a run
\* that ended in the runner or did not start, or the wall clock, in a plan, for an idle entry.
LEMMA FitsArm ==
    ASSUME NEW e \in Entry, NEW R \in SUBSET Int, NEW pc, NEW at \in Int, NEW n \in Int, at <= n,
           Fits(e, R, pc, at, n), NEW run \in Int, NEW t \in Int,
           \/ t = n /\ e.running = None
           \/ t = at /\ (pc = "sweep" => e.running # None)
    PROVE  Fits(Arm(e, run, t), R, pc, at, n)
<1> DEFINE a == Arm(e, run, t)
           kept == {x \in e.retried : t - x < Day}
<1>1. CASE e.armedFor = run
  BY <1>1 DEF Arm
<1>2. CASE e.armedFor # run
  <2>1. a.retried = kept /\ a.running = e.running
    BY <1>2 DEF Arm, Entry
  <2>2. a.retry # None => Cardinality(kept) < RetriesPerDay /\ a.retry >= t
    <3> SUFFICES ASSUME a.retry # None PROVE Cardinality(kept) < RetriesPerDay /\ a.retry >= t
      OBVIOUS
    <3>1. /\ ~(e.attempts >= Len(Backoff)) /\ Cardinality(kept) < RetriesPerDay
          /\ a.retry = t + Backoff[e.attempts + 1]
      BY <1>2 DEF Arm, Entry
    <3>2. e.attempts \in Nat
      BY DEF Entry
    <3>3. e.attempts + 1 \in 1..Len(Backoff)
      <4>1. ~(e.attempts >= Len(Backoff)) /\ Len(Backoff) \in Nat
        BY <3>1, TimesAssumption
      <4> QED BY <3>2, <4>1
    <3>4. Backoff[e.attempts + 1] \in Nat
      <4>1. Backoff \in Seq(Nat)
        BY TimesAssumption
      <4>2. \A i \in 1..Len(Backoff) : Backoff[i] \in Nat
        BY <4>1
      <4> QED BY <3>3, <4>2
    <3> QED BY <3>1, <3>4
  <2>3. a.retry \in MaybeTime
    BY ArmType DEF Entry
  <2> HIDE DEF a
  <2>4. kept \subseteq R
    BY DEF Fits
  <2>5. ASSUME NEW r \in R \ kept
        PROVE  /\ n - r >= Day
               /\ pc = "sweep" /\ (a.running # None \/ RetryDue(a, at)) => at - r >= Day
    <3>1. r \in Int /\ Day \in Nat
      BY TimesAssumption
    <3>2. CASE r \in e.retried
      <4>1. t - r >= Day
        BY <2>5, <3>1, <3>2
      <4> QED BY <2>1, <2>2, <2>3, <3>1, <4>1 DEF RetryDue, MaybeTime
    <3>3. CASE r \notin e.retried
      <4>1. n - r >= Day /\ (pc = "sweep" /\ e.running # None => at - r >= Day)
        BY <3>3, <2>5 DEF Fits
      <4> QED BY <2>1, <2>2, <2>3, <3>1, <4>1 DEF RetryDue, MaybeTime
    <3> QED BY <3>2, <3>3
  <2> QED BY <2>1, <2>2, <2>4, <2>5 DEF Fits, a
<1> QED BY <1>1, <1>2

\* Rules that changed bring a retry forward to the wall clock at the earliest.
LEMMA FitsForward ==
    ASSUME NEW e \in NamedEntry, NEW R \in SUBSET Int, NEW pc, NEW at \in Int, NEW n \in Int, at <= n,
           Fits(e, R, pc, at, n), NEW changed
    PROVE  Fits(BroughtForward(e, changed, n), R, pc, at, n)
<1> DEFINE f == BroughtForward(e, changed, n)
<1>1. CASE f = e
  BY <1>1
<1>2. CASE e.retry # None /\ f = [e EXCEPT !.retry = Smaller(@, n)]
  <2>1. /\ e \in Entry /\ e.retry \in Int
        /\ f.retry = Smaller(e.retry, n) /\ f.retried = e.retried /\ f.running = e.running
    BY <1>2 DEF NamedEntry, Entry, MaybeTime
  <2> HIDE DEF f
  <2>2. RetryDue(f, at) => RetryDue(e, at) \/ n = at
    BY <2>1, <1>2 DEF RetryDue, Smaller
  <2> QED BY <1>2, <2>1, <2>2 DEF Fits, f
<1> QED BY <1>1, <1>2 DEF BroughtForward

\* What a plan makes of one entry of the queue, or of a pipeline new to it.
LEMMA PlanEntry ==
    ASSUME TypeInv, NEW wanted \in Plans, NEW changed, NEW k \in Keys, wanted[k] # None
    PROVE  LET e == PlannedEntry(k, wanted[k], now)
               f == PlannedEntries(wanted, changed, now)[k]
           IN  /\ f # None /\ f.queued = e.queued /\ f.sweep = e.sweep /\ SameRun(e, f)
               /\ entries[k] # None => SameButQueued(entries[k], e) /\ e.queued = entries[k].queued
               /\ entries[k] = None =>
                     /\ e.queued = None /\ e.running = None /\ e.sweep
                     /\ e.retry = None /\ e.retried = {}
               /\ \A R \in SUBSET Int :
                     tickAt <= now /\ Fits(e, R, tickPc, tickAt, now) => Fits(f, R, tickPc, tickAt, now)
<1> DEFINE e == PlannedEntry(k, wanted[k], now)
           g == Judged(e, k, now)
           h == BroughtForward(g, changed, now)
<1>1. wanted[k] \in Planned /\ LogRead /\ now \in Int /\ tickAt \in Int
  BY PlansAssumption DEF TypeInv, TypeOK, LogRead
<1>2. /\ e \in NamedEntry
      /\ entries[k] # None => SameButQueued(entries[k], e) /\ e.queued = entries[k].queued
      /\ entries[k] = None => /\ e.queued = None /\ e.running = None /\ e.sweep
                              /\ e.retry = None /\ e.retried = {}
  <2>1. CASE entries[k] = None
    <3>1. e = NewEntry(k, wanted[k], now)
      BY <2>1, Zenon DEF PlannedEntry
    <3>2. e \in NamedEntry
      BY <1>1, <3>1, NamedNewEntry
    <3> QED BY <2>1, <3>1, <3>2 DEF NewEntry
  <2>2. CASE entries[k] # None
    <3>1. entries[k] \in NamedEntry
      BY <2>2 DEF TypeInv
    <3>2. e = entries[k] \/ e = ChangedEntry(entries[k], wanted[k], now)
      BY <2>2, Zenon DEF PlannedEntry
    <3>3. ChangedEntry(entries[k], wanted[k], now) \in NamedEntry
      BY <1>1, <3>1, NamedChangedEntry
    <3>4. /\ SameButQueued(entries[k], ChangedEntry(entries[k], wanted[k], now))
          /\ ChangedEntry(entries[k], wanted[k], now).queued = entries[k].queued
      BY <3>1 DEF ChangedEntry, SameButQueued, SameRun, SameRetry, NamedEntry, Entry
    <3>5. SameButQueued(entries[k], entries[k])
      BY DEF SameButQueued, SameRun, SameRetry
    <3> HIDE DEF e
    <3> QED BY <2>2, <3>1, <3>2, <3>3, <3>4, <3>5
  <2> QED BY <2>1, <2>2
<1>3. e # None /\ e \in Entry
  BY <1>2, NoneIsNoEntry DEF NamedEntry
<1>4. PlannedEntries(wanted, changed, now)[k] = h
  BY <1>3 DEF PlannedEntries
<1> HIDE DEF e
<1>5. \/ g = e
      \/ e.running = None /\ failed[k] \in Int /\ g = Arm(e, failed[k], now)
      \/ g = ClearRetry(e)
  BY <1>1 DEF Judged, LogRead, MaybeTime
<1>6. g \in NamedEntry /\ SameRun(e, g)
  BY <1>1, <1>2, NamedJudged, SameRunPlan
<1>7. g.queued = e.queued /\ g.sweep = e.sweep
  <2>1. Arm(e, failed[k], now).queued = e.queued /\ Arm(e, failed[k], now).sweep = e.sweep
    BY <1>3, ArmKeeps
  <2>2. ClearRetry(e).queued = e.queued /\ ClearRetry(e).sweep = e.sweep
    BY <1>3 DEF ClearRetry, Entry
  <2> QED BY <1>5, <2>1, <2>2, Zenon
<1>8. ASSUME NEW R \in SUBSET Int, tickAt <= now, Fits(e, R, tickPc, tickAt, now)
      PROVE  Fits(g, R, tickPc, tickAt, now)
  <2>1. CASE e.running = None /\ failed[k] \in Int /\ g = Arm(e, failed[k], now)
    BY <1>1, <1>3, <1>8, <2>1, FitsArm
  <2>2. CASE g = ClearRetry(e)
    <3>1. g.retry = None /\ g.retried = e.retried /\ g.running = e.running
      BY <1>3, <2>2 DEF ClearRetry, Entry
    <3> QED BY <1>8, <3>1 DEF Fits, RetryDue
  <2> QED BY <1>5, <1>8, <2>1, <2>2
<1> HIDE DEF g
<1>9. h \in NamedEntry /\ SameRun(g, h) /\ h.queued = g.queued /\ h.sweep = g.sweep
  <2>1. h \in NamedEntry /\ SameRun(g, h)
    BY <1>1, <1>6, NamedBroughtForward, SameRunPlan
  <2> QED BY <1>6, <2>1 DEF BroughtForward, NamedEntry, Entry
<1>10. ASSUME NEW R \in SUBSET Int, tickAt <= now, Fits(g, R, tickPc, tickAt, now)
       PROVE  Fits(h, R, tickPc, tickAt, now)
  BY <1>1, <1>6, <1>10, FitsForward
<1>11. h # None /\ SameRun(e, h)
  BY <1>6, <1>9, NoneIsNoEntry DEF NamedEntry, SameRun
<1> HIDE DEF h
<1> QED BY <1>2, <1>4, <1>7, <1>8, <1>9, <1>10, <1>11 DEF e

\* A run's end, for the entry that held it.
LEMMA EndedEntry ==
    ASSUME NEW e \in NamedEntry, e.running # None, NEW ended, NEW t \in Int
    PROVE  LET f == EndRun(e, ended, t)
           IN  /\ f \in NamedEntry /\ f.running = None /\ f.queued = e.queued /\ f.sweep = e.sweep
               /\ SameRetry(e, f) \/ (e.run \in Int /\ SameRetry(Arm(e, e.run, t), f))
<1> DEFINE a == IF ended = "gone" THEN Arm(e, e.run, t) ELSE e
           f == EndRun(e, ended, t)
<1>1. e.run \in Int /\ e \in Entry
  BY DEF NamedEntry
<1>2. a \in Entry /\ a.queued = e.queued /\ a.sweep = e.sweep
  BY <1>1, ArmType, ArmKeeps
<1>3. f = [a EXCEPT !.running = None, !.runStream = None, !.lastFailed = ended # "finished"]
  BY DEF EndRun
<1>4. a = e \/ a = Arm(e, e.run, t)
  OBVIOUS
<1>5. f \in NamedEntry
  BY NamedEndRun
<1> HIDE DEF a, f
<1>6. f.running = None /\ f.queued = e.queued /\ f.sweep = e.sweep /\ SameRetry(a, f)
  BY <1>2, <1>3 DEF SameRetry, Entry
<1> QED BY <1>1, <1>4, <1>5, <1>6 DEF f

\* queue_due leaves the retry, the run and a run that waits already alone.
LEMMA QueueDueEntry ==
    ASSUME NEW e \in NamedEntry, OneRun(e), NEW t \in Int
    PROVE  LET f == QueueDue(e, t)
           IN  /\ f \in NamedEntry /\ OneRun(f) /\ SameButQueued(e, f)
               /\ e.queued # None => f.queued = e.queued
<1> DEFINE f == QueueDue(e, t)
<1>1. f \in NamedEntry
  BY NamedQueueDue
<1>2. f = e \/ f = [e EXCEPT !.queued = IF Free(e) THEN e.next ELSE @, !.next = NextAfter(e.clock, t)]
  BY DEF QueueDue
<1> HIDE DEF f
<1>3. SameButQueued(e, f) /\ (~Free(e) => f.queued = e.queued)
  BY <1>2 DEF SameButQueued, SameRun, SameRetry, NamedEntry, Entry
<1> QED BY <1>1, <1>3 DEF f, OneRun, Free, SameButQueued, SameRun

\* queue_retries takes a retry that is due, and queues it for a free entry.
LEMMA QueueRetryEntry ==
    ASSUME NEW e \in NamedEntry, OneRun(e), NEW t \in Int
    PROVE  LET f == QueueRetry(e, t)
           IN  /\ f \in NamedEntry /\ OneRun(f) /\ SameRun(e, f) /\ f.sweep = e.sweep
               /\ e.queued # None => f.queued = e.queued
               /\ \/ SameRetry(e, f)
                  \/ f.retry = None /\ f.retried = e.retried
                  \/ RetryDue(e, t) /\ f.retry = None /\ f.retried = e.retried \cup {t}
<1> DEFINE f == QueueRetry(e, t)
           queue == [e EXCEPT !.queued = e.retry, !.retry = None, !.retried = @ \cup {t}]
           drop == [e EXCEPT !.retry = None]
<1>1. f \in NamedEntry
  BY NamedQueueRetry
<1>2. \/ f = e \/ f = drop
      \/ RetryDue(e, t) /\ Free(e) /\ f = queue
  BY Zenon DEF QueueRetry
<1> HIDE DEF f
<1>3. CASE f = e
  BY <1>1, <1>3 DEF SameRun, SameRetry, f
<1>4. CASE f = drop
  <2>1. /\ SameRun(e, f) /\ f.sweep = e.sweep /\ f.queued = e.queued
        /\ f.retry = None /\ f.retried = e.retried
    BY <1>4 DEF SameRun, NamedEntry, Entry
  <2> QED BY <1>1, <2>1 DEF OneRun, SameRun, f
<1>5. CASE RetryDue(e, t) /\ Free(e) /\ f = queue
  <2>1. /\ SameRun(e, f) /\ f.sweep = e.sweep
        /\ f.retry = None /\ f.retried = e.retried \cup {t}
    BY <1>5 DEF SameRun, NamedEntry, Entry
  <2> QED BY <1>1, <1>5, <2>1 DEF OneRun, SameRun, Free, f
<1> QED BY <1>2, <1>3, <1>4, <1>5

\* The entry a due retry is looked for in: its run ended when it is over, its clock moved on.
AfterEnds(k, t) ==
    QueueDue(IF EndsNow(k, t) THEN EndRun(entries[k], polled[k], t) ELSE entries[k], t)

\* What settle finds of an entry before it looks for retries.
LEMMA AfterEndsEntry ==
    ASSUME TypeInv, NEW k \in Keys, NEW t \in Int, entries[k] # None, OneRun(entries[k])
    PROVE  LET e == entries[k]
               d == AfterEnds(k, t)
           IN  /\ d \in NamedEntry /\ OneRun(d) /\ d.sweep = e.sweep
               /\ e.queued # None => d.queued = e.queued
               /\ d.running = e.running \/ d.running = None
               /\ \/ SameRetry(e, d)
                  \/ Running(k) /\ e.run \in Int /\ SameRetry(Arm(e, e.run, t), d)
<1> DEFINE e == entries[k]
           c == IF EndsNow(k, t) THEN EndRun(entries[k], polled[k], t) ELSE entries[k]
<1>1. e \in NamedEntry
  BY DEF TypeInv
<1>2. /\ c \in NamedEntry /\ OneRun(c) /\ c.sweep = e.sweep /\ c.queued = e.queued
      /\ c.running = e.running \/ c.running = None
      /\ SameRetry(e, c) \/ (Running(k) /\ e.run \in Int /\ SameRetry(Arm(e, e.run, t), c))
  <2>1. CASE EndsNow(k, t)
    <3>1. e.running # None /\ Running(k)
      BY <2>1 DEF EndsNow, Running
    <3> QED BY <1>1, <2>1, <3>1, EndedEntry DEF OneRun
  <2>2. CASE ~EndsNow(k, t)
    BY <1>1, <2>2 DEF SameRetry
  <2> QED BY <2>1, <2>2
<1> HIDE DEF c, e
<1>3. /\ QueueDue(c, t) \in NamedEntry /\ OneRun(QueueDue(c, t)) /\ SameButQueued(c, QueueDue(c, t))
      /\ c.queued # None => QueueDue(c, t).queued = c.queued
  BY <1>2, QueueDueEntry
<1>4. AfterEnds(k, t) = QueueDue(c, t)
  BY DEF AfterEnds, c
<1> QED BY <1>2, <1>3, <1>4 DEF SameButQueued, SameRun, SameRetry, e

\* What settle makes of one entry: a run that waits keeps its date until it starts or is refused.
LEMMA SettleEntry ==
    ASSUME TypeInv, TickSettle, NEW k \in Keys, entries[k] # None, OneRun(entries[k])
    PROVE  LET e == entries[k]
               d == AfterEnds(k, tickAt)
               q == Due(tickAt)[k]
               f == entries'[k]
           IN  /\ q = QueueRetry(d, tickAt) /\ q # None /\ q \in NamedEntry /\ OneRun(q)
               /\ e.queued # None => q.queued = e.queued
               /\ f # None /\ OneRun(f) /\ SameRetry(q, f) /\ f.sweep = e.sweep /\ f.lane = q.lane
               /\ f.queued # None =>
                     f = q /\ k \notin Refused(Due(tickAt), tickAt) /\ k \notin StartsNow(Due(tickAt), tickAt)
               /\ f.queued = q.queued \/ (f.queued = None /\ (f.running # None => f.run = q.queued))
               /\ k \in StartsNow(Due(tickAt), tickAt) => ~e.sweep
<1> DEFINE t == tickAt
           e == entries[k]
           d == AfterEnds(k, t)
           q == Due(t)[k]
           f == entries'[k]
<1>1. t \in Int /\ Due(t) \in [Keys -> NamedEntry \cup {None}]
  BY NamedDue DEF TypeInv, TypeOK
<1>2. /\ d \in NamedEntry /\ OneRun(d) /\ d.sweep = e.sweep
      /\ e.queued # None => d.queued = e.queued
  BY <1>1, AfterEndsEntry
<1>3. q = QueueRetry(d, t)
  BY DEF Due, AfterEnds
<1>4. f = IF k \in Refused(Due(t), t) THEN RefuseRun(q)
          ELSE IF k \in StartsNow(Due(t), t) THEN StartRun(q, t) ELSE q
  BY DEF TickSettle, Settled
<1>5. /\ k \in Refused(Due(t), t) => q.running = None
      /\ k \in StartsNow(Due(t), t) => ~q.sweep
  BY DEF Refused, Waiting, StartsNow, Starts
<1> HIDE DEF d, e
<1>6. /\ q \in NamedEntry /\ OneRun(q) /\ q.sweep = e.sweep
      /\ e.queued # None => q.queued = e.queued
  BY <1>1, <1>2, <1>3, QueueRetryEntry
<1>7. q # None /\ q \in Entry
  BY <1>6, NoneIsNoEntry DEF NamedEntry
<1> HIDE DEF q, f
<1>8. CASE k \in Refused(Due(t), t)
  <2>1. f = RefuseRun(q)
    BY <1>4, <1>8
  <2>2. f \in NamedEntry
    BY <1>6, <2>1, NamedRefuse
  <2>3. /\ f.queued = None /\ f.running = q.running /\ SameRetry(q, f) /\ f.sweep = q.sweep
        /\ f.lane = q.lane
    BY <1>7, <2>1 DEF RefuseRun, SameRetry, Entry
  <2>4. f # None
    BY <2>2, NoneIsNoEntry DEF NamedEntry
  <2> QED BY <1>3, <1>5, <1>6, <1>7, <1>8, <2>3, <2>4 DEF OneRun, e, d, q, f
<1>9. CASE k \notin Refused(Due(t), t) /\ k \in StartsNow(Due(t), t)
  <2>1. f = StartRun(q, t)
    BY <1>4, <1>9
  <2>2. q.queued # None
    BY <1>1, <1>9, StartsQueued DEF q
  <2>3. f \in NamedEntry
    BY <1>1, <1>6, <2>1, <2>2, NamedStart
  <2>4. /\ f.queued = None /\ f.run = q.queued /\ SameRetry(q, f) /\ f.sweep = q.sweep
        /\ f.lane = q.lane
    BY <1>7, <2>1 DEF StartRun, SameRetry, Entry
  <2>5. f # None
    BY <2>3, NoneIsNoEntry DEF NamedEntry
  <2> QED BY <1>3, <1>5, <1>6, <1>7, <1>9, <2>4, <2>5 DEF OneRun, e, d, q, f
<1>10. CASE k \notin Refused(Due(t), t) /\ k \notin StartsNow(Due(t), t)
  <2>1. f = q
    BY <1>4, <1>10
  <2> QED BY <1>3, <1>6, <1>7, <1>10, <2>1 DEF SameRetry, e, d, q, f
<1> QED BY <1>8, <1>9, <1>10

-----------------------------------------------------------------------------
(* A queued run keeps its date.  The inductive part: an entry never waits   *)
(* and runs at once.                                                        *)

\* An entry that waits for a run has none in the runner.
QueueInv == \A k \in Keys : entries[k] # None => OneRun(entries[k])

\* What one step may do to an entry that waits.
KeepsDate(e, f) ==
    e.queued # None =>
        \/ f.queued = e.queued
        \/ f.queued = None /\ (f.running # None => f.run = e.queued)

\* No step makes an entry wait and run at once, nor re-dates what waits in it.
LEMMA QueueEntryStep ==
    ASSUME TypeInv, QueueInv, [Next]_vars, NEW k \in Keys, entries'[k] # None
    PROVE  /\ OneRun(entries'[k])
           /\ entries[k] # None => KeepsDate(entries[k], entries'[k])
<1> DEFINE Goal == /\ OneRun(entries'[k])
                   /\ entries[k] # None => KeepsDate(entries[k], entries'[k])
<1>1. entries[k] # None => OneRun(entries[k])
  BY DEF QueueInv
<1>2. CASE entries'[k] = entries[k]
  BY <1>1, <1>2 DEF KeepsDate
<1>3. CASE TickBegin
  BY <1>1, <1>3, BeginEntry DEF OneRun, KeepsDate, SameRun
<1>4. CASE TickSettle
  <2>1. entries[k] # None
    BY <1>4, SettleRuns
  <2> QED BY <1>1, <1>4, <2>1, SettleEntry DEF KeepsDate
<1>5. ASSUME NEW j \in Keys, TickDelete(j) PROVE Goal
  <2>1. CASE Stuck(j)
    BY <1>1, <2>1, StuckEntry DEF OneRun, KeepsDate, SameButQueued, SameRun
  <2>2. CASE UNCHANGED entries
    BY <1>1, <2>2 DEF KeepsDate
  <2> QED BY <1>5, <2>1, <2>2 DEF TickDelete
<1>6. ASSUME NEW start \in toStart, TickStart(start) PROVE Goal
  <2>1. start.key \in Keys /\ tickAt \in Int
    BY DEF TypeInv, TypeOK, RunStart
  <2>2. CASE FailedToStart(start.key, tickAt) /\ k = start.key
    <3>1. entries[k] # None
      BY <2>2 DEF FailedToStart
    <3> QED BY <2>1, <2>2, <3>1, FailedEntry DEF OneRun, KeepsDate
  <2>3. CASE FailedToStart(start.key, tickAt) /\ k # start.key
    BY <1>2, <2>1, <2>3, FailedRuns
  <2>4. CASE UNCHANGED entries
    BY <1>1, <2>4 DEF KeepsDate
  <2> QED BY <1>6, <2>2, <2>3, <2>4 DEF TickStart
<1>7. ASSUME NEW wanted \in Plans, NEW fingerprint \in Fingerprints, PassPlan(wanted, fingerprint)
      PROVE  Goal
  <2> DEFINE changed == rules # None /\ rules # fingerprint
  <2>1. entries'[k] = PlannedEntries(wanted, changed, now)[k] /\ now \in Int
    BY <1>7 DEF PassPlan, TypeInv, TypeOK
  <2> HIDE DEF changed
  <2>2. wanted[k] # None
    BY <2>1, PlanRuns
  <2>3. /\ entries'[k].queued = PlannedEntry(k, wanted[k], now).queued
        /\ entries'[k].running = PlannedEntry(k, wanted[k], now).running
    BY <2>1, <2>2, PlanEntry DEF SameRun
  <2>4. CASE entries[k] = None
    BY <2>2, <2>3, <2>4, PlanEntry DEF OneRun
  <2>5. CASE entries[k] # None
    <3>1. /\ PlannedEntry(k, wanted[k], now).queued = entries[k].queued
          /\ PlannedEntry(k, wanted[k], now).running = entries[k].running
      BY <2>2, <2>5, PlanEntry DEF SameButQueued, SameRun
    <3> QED BY <1>1, <2>3, <2>5, <3>1 DEF OneRun, KeepsDate
  <2> QED BY <2>4, <2>5
<1>8. ASSUME NEW j \in Keys, RunNow(j) PROVE Goal
  <2>1. entries[k] # None /\ SameRun(entries[k], entries'[k])
        /\ (entries'[k].queued = entries[k].queued \/ Free(entries[k]))
    BY <1>8, RunNowEntry DEF SameButQueued
  <2> QED BY <1>1, <2>1 DEF OneRun, KeepsDate, Free, SameRun
<1>9. CASE Crash
  BY <1>9 DEF Crash, EmptyQueue
<1>10. ASSUME \/ TickTakeEnds \/ TickEnd \/ PassRead \/ RunnerRestarts \/ Advance \/ UNCHANGED vars
              \/ \E j \in Keys : TickSweep(j) \/ TickPoll(j) \/ TickClean(j) \/ RunFinishes(j)
              \/ \E end \in toTell : TickTell(end)
       PROVE  Goal
  <2>1. UNCHANGED entries
    BY <1>10 DEF TickTakeEnds, TickEnd, PassRead, RunnerRestarts, Advance, TickSweep, TickPoll,
                 TickClean, RunFinishes, TickTell, vars, queueVars
  <2> QED BY <1>2, <2>1
<1> HIDE DEF Goal
<1>11. Goal
  BY <1>3, <1>4, <1>5, <1>6, <1>7, <1>8, <1>9, <1>10 DEF Next, Tick, Pass, Outside, Goal
<1> QED BY <1>11 DEF Goal

\* Together with the types this is inductive.
LEMMA QueueInvariant == Spec => [](TypeInv /\ QueueInv)
<1>1. Init => QueueInv
  BY DEF Init, QueueInv
<1>2. TypeInv /\ QueueInv /\ [Next]_vars => QueueInv'
  <2> SUFFICES ASSUME TypeInv, QueueInv, [Next]_vars, NEW k \in Keys, entries'[k] # None
               PROVE  OneRun(entries'[k])
    BY DEF QueueInv, OneRun
  <2> QED BY QueueEntryStep
<1> QED BY <1>1, <1>2, TypeInvInit, TypeStep, PTL DEF Spec

\* The date the clock, a retry or run_now gave a queued run is the id it starts under, whatever
\* plans, ticks and failures come between (run_now's get_or_insert, `queued.is_none()`).
THEOREM QueuedKept == Spec => QueuedKeepsItsRun
<1> DEFINE Kept_ == \A k \in Keys :
               entries[k] # None /\ entries[k].queued # None /\ entries'[k] # None =>
                   \/ entries'[k].queued = entries[k].queued
                   \/ /\ entries'[k].queued = None
                      /\ entries'[k].running # None => entries'[k].run = entries[k].queued
<1>1. TypeInv /\ QueueInv /\ [Next]_vars => [Kept_]_vars
  <2> SUFFICES ASSUME TypeInv, QueueInv, [Next]_vars PROVE Kept_
    OBVIOUS
  <2> QED BY QueueEntryStep DEF KeepsDate
<1> HIDE DEF Kept_
<1>2. Spec => [][Kept_]_vars
  BY <1>1, QueueInvariant, PTL DEF Spec
<1> QED BY <1>2 DEF QueuedKeepsItsRun, Kept_

-----------------------------------------------------------------------------
(* Which step starts a run, and in which order.                             *)

\* Only settle gives an entry a run.
LEMMA OnlySettleStarts ==
    ASSUME TypeInv, [Next]_vars, ~TickSettle, NEW k \in Keys, Running(k)'
    PROVE  Running(k)
<1>1. CASE entries'[k] = entries[k]
  BY <1>1 DEF Running
<1>2. CASE TickBegin
  BY <1>2, BeginEntry DEF Running, SameRun
<1>3. ASSUME NEW j \in Keys, TickDelete(j) PROVE Running(k)
  <2>1. CASE Stuck(j)
    BY <2>1, StuckEntry DEF Running, SameButQueued, SameRun
  <2>2. CASE UNCHANGED entries
    BY <1>1, <2>2
  <2> QED BY <1>3, <2>1, <2>2 DEF TickDelete
<1>4. ASSUME NEW start \in toStart, TickStart(start) PROVE Running(k)
  <2>1. start.key \in Keys /\ tickAt \in Int
    BY DEF TypeInv, TypeOK, RunStart
  <2>2. CASE FailedToStart(start.key, tickAt)
    BY <1>1, <2>1, <2>2, FailedRuns
  <2>3. CASE UNCHANGED entries
    BY <1>1, <2>3
  <2> QED BY <1>4, <2>2, <2>3 DEF TickStart
<1>5. ASSUME NEW wanted \in Plans, NEW fingerprint \in Fingerprints, PassPlan(wanted, fingerprint)
      PROVE  Running(k)
  <2> DEFINE changed == rules # None /\ rules # fingerprint
  <2>1. entries'[k] = PlannedEntries(wanted, changed, now)[k] /\ now \in Int
    BY <1>5 DEF PassPlan, TypeInv, TypeOK
  <2> HIDE DEF changed
  <2> QED BY <2>1, PlanRuns DEF Running, SameRun
<1>6. ASSUME NEW j \in Keys, RunNow(j) PROVE Running(k)
  BY <1>6, RunNowEntry DEF Running, SameButQueued, SameRun
<1>7. CASE Crash
  BY <1>7 DEF Crash, EmptyQueue, Running
<1>8. ASSUME \/ TickTakeEnds \/ TickEnd \/ PassRead \/ RunnerRestarts \/ Advance \/ UNCHANGED vars
             \/ \E j \in Keys : TickSweep(j) \/ TickPoll(j) \/ TickClean(j) \/ RunFinishes(j)
             \/ \E end \in toTell : TickTell(end)
      PROVE  Running(k)
  <2>1. UNCHANGED entries
    BY <1>8 DEF TickTakeEnds, TickEnd, PassRead, RunnerRestarts, Advance, TickSweep, TickPoll,
                TickClean, RunFinishes, TickTell, vars, queueVars
  <2> QED BY <1>1, <2>1
<1> QED BY <1>2, <1>3, <1>4, <1>5, <1>6, <1>7, <1>8 DEF Next, Tick, Pass, Outside

\* What a lane has room for, beside what is under way in it.
LEMMA RoomLeft ==
    ASSUME NEW q, NEW lane, NEW t
    PROVE  /\ Room(q, lane, t) \in Nat /\ Limit(lane) \in Nat
           /\ IsFiniteSet(Busy(q, lane)) /\ Cardinality(Busy(q, lane)) \in Nat
           /\ Room(q, lane, t) > 0 => Cardinality(Busy(q, lane)) + Room(q, lane, t) = Limit(lane)
<1>1. IsFiniteSet(Busy(q, lane)) /\ Cardinality(Busy(q, lane)) \in Nat
  BY KeysAssumption, FS_Subset, FS_CardinalityType DEF Busy
<1>2. Limit(lane) \in Nat
  BY LimitsAssumption DEF Limit, Larger
<1>3. Room(q, lane, t) = IF Fresh(t) THEN Larger(Limit(lane) - Cardinality(Busy(q, lane)), 0) ELSE 0
  BY DEF Room
<1> QED BY <1>1, <1>2, <1>3 DEF Larger

\* A run of a lane that precedes another has no more runs before it.
LEMMA OlderStarts ==
    ASSUME NEW q \in [Keys -> NamedEntry \cup {None}], NEW lane, NEW t,
           NEW k \in Starts(q, lane, t), NEW j \in Waiting(q, lane) \ Refused(q, t),
           q[j].queued < q[k].queued
    PROVE  j \in Starts(q, lane, t)
<1> DEFINE next == Waiting(q, lane) \ Refused(q, t)
           Before(i) == {x \in next : Precedes(q, x, i)}
           room == Room(q, lane, t)
<1>1. k \in next /\ j \in next /\ next \subseteq Keys /\ Cardinality(Before(k)) < room
  BY DEF Starts, Waiting
<1>2. \A i \in next : q[i].queued \in Int
  BY DEF Waiting, NamedEntry, Entry, MaybeTime
<1>3. Before(j) \subseteq Before(k)
  BY <1>1, <1>2 DEF Precedes
<1>4. IsFiniteSet(Before(k))
  BY <1>1, KeysAssumption, FS_Subset
<1>5. Cardinality(Before(j)) <= Cardinality(Before(k)) /\ IsFiniteSet(Before(j))
  BY <1>3, <1>4, FS_Subset
<1>6. Cardinality(Before(j)) \in Nat /\ Cardinality(Before(k)) \in Nat
  BY <1>4, <1>5, FS_CardinalityType
<1>7. room \in Int
  BY RoomLeft
<1> HIDE DEF room
<1>8. Cardinality(Before(j)) < room
  BY <1>1, <1>5, <1>6, <1>7
<1> QED BY <1>1, <1>8 DEF Starts, room

\* In a lane the run due longest starts first, for every number of pipelines and every limit: no
\* run starts while one of an older due time waits beside it.
THEOREM OldestStartsFirst == Spec => OldestFirst
<1> DEFINE Ordered == \A j, k \in Keys :
               /\ entries[k] # None /\ entries'[k] # None /\ entries'[j] # None
               /\ ~Running(k) /\ entries'[k].running # None
               /\ entries'[j].lane = entries'[k].lane /\ ~entries'[j].sweep
               /\ entries'[j].queued # None
               => entries'[k].run <= entries'[j].queued
<1>1. TypeInv /\ QueueInv /\ [Next]_vars => [Ordered]_vars
  <2> SUFFICES ASSUME TypeInv, QueueInv, [Next]_vars, NEW j \in Keys, NEW k \in Keys,
                      entries[k] # None, entries'[k] # None, entries'[j] # None,
                      ~Running(k), entries'[k].running # None,
                      entries'[j].lane = entries'[k].lane, ~entries'[j].sweep,
                      entries'[j].queued # None
               PROVE  entries'[k].run <= entries'[j].queued
    OBVIOUS
  <2> DEFINE t == tickAt
             q == Due(t)
  <2>1. TickSettle
    BY OnlySettleStarts DEF Running
  <2>2. q \in [Keys -> NamedEntry \cup {None}] /\ t \in Int
    BY NamedDue DEF TypeInv, TypeOK
  <2>3. entries[j] # None /\ OneRun(entries[j]) /\ OneRun(entries[k])
    BY <2>1, SettleRuns DEF QueueInv
  <2>4. k \in StartsNow(q, t) /\ entries'[k].run = q[k].queued
    BY <2>1, SettleRuns
  <2>5. entries'[k].lane = q[k].lane
    BY <2>1, <2>3, SettleEntry
  <2>6. /\ entries'[j] = q[j] /\ q[j] # None /\ OneRun(q[j])
        /\ j \notin Refused(q, t) /\ j \notin StartsNow(q, t)
    BY <2>1, <2>3, SettleEntry
  <2> HIDE DEF q, t
  <2>7. PICK lane \in {"batch", "short"} : k \in Starts(q, lane, t)
    BY <2>4 DEF StartsNow
  <2>8. q[k].lane = lane /\ q[k].queued \in Int
    BY <2>2, <2>7 DEF Starts, Waiting, NamedEntry, Entry, MaybeTime
  <2>9. j \in Waiting(q, lane) \ Refused(q, t) /\ q[j].queued \in Int
    BY <2>2, <2>5, <2>6, <2>8 DEF Waiting, OneRun, NamedEntry, Entry, MaybeTime
  <2>10. j \notin Starts(q, lane, t)
    BY <2>6, <2>7 DEF StartsNow
  <2>11. ~(q[j].queued < q[k].queued)
    BY <2>2, <2>7, <2>9, <2>10, OlderStarts
  <2> QED BY <2>4, <2>6, <2>8, <2>9, <2>11
<1> HIDE DEF Ordered
<1>2. Spec => [][Ordered]_vars
  BY <1>1, QueueInvariant, PTL DEF Spec
<1> QED BY <1>2 DEF OldestFirst, Ordered

-----------------------------------------------------------------------------
(* The tick deletes no run under way.  A key on one of its lists was put    *)
(* there before an await, so what has to be inductive is that nothing       *)
(* starts under such a key meanwhile: only settle starts runs, after the    *)
(* sweeps are done, and not for an entry whose own sweep is still due.      *)

\* A run whose pipeline went away is swept before its pipeline, planned again, runs.
GoneInv == \A k \in gone : entries[k] # None => entries[k].sweep /\ entries[k].running = None

\* What the tick sweeps or cleans up runs nothing; what it deletes has ended, and a run that
\* follows has not been sent.
SpareInv ==
    /\ GoneInv
    /\ \A k \in toSweep \cup toClean : ~Running(k)
    /\ \A k \in toDelete : Running(k) => Starting(k)

\* Settle starts nothing under a key that is gone, and sends to the deletes only what ended.
LEMMA SpareSettle ==
    ASSUME HoldInv, QueueInv, SpareInv, TickSettle
    PROVE  SpareInv'
<1>1. TypeInv /\ gone \subseteq Keys
  BY DEF HoldInv, TypeInv, TypeOK
<1>2. /\ tickPc = "sweep" /\ toSweep' = {} /\ toDelete' = {k \in Keys : EndsNow(k, tickAt)}
      /\ UNCHANGED <<gone, toClean>>
  BY DEF TickSettle
<1>3. toClean = {}
  BY <1>2 DEF HoldInv, PhaseInv
<1>4. GoneInv'
  <2> SUFFICES ASSUME NEW k \in gone, entries'[k] # None
               PROVE  entries'[k].sweep /\ entries'[k].running = None
    BY <1>2 DEF GoneInv
  <2>1. k \in Keys /\ entries[k] # None
    BY <1>1, SettleRuns
  <2>2. entries[k].sweep /\ ~Running(k) /\ OneRun(entries[k])
    BY <2>1 DEF SpareInv, GoneInv, Running, QueueInv
  <2>3. entries'[k].sweep /\ k \notin StartsNow(Due(tickAt), tickAt)
    BY <1>1, <2>1, <2>2, SettleEntry
  <2> QED BY <1>1, <2>1, <2>2, <2>3, SettleRuns
<1>5. ASSUME NEW k \in toDelete', Running(k)' PROVE Starting(k)'
  <2> DEFINE q == Due(tickAt)
  <2>1. k \in Keys /\ EndsNow(k, tickAt)
    BY <1>2
  <2>2. k \in StartsNow(q, tickAt)
    BY <1>1, <1>5, <2>1, SettleRuns DEF Running, EndsNow
  <2>3. [key |-> k, run |-> q[k].queued, stream |-> q[k].stream] \in toStart'
    BY <2>2 DEF TickSettle
  <2>4. [key |-> k, run |-> q[k].queued, stream |-> q[k].stream].key = k
    OBVIOUS
  <2> QED BY <2>3, <2>4 DEF Starting
<1> QED BY <1>2, <1>3, <1>4, <1>5 DEF SpareInv

\* The lists taken at the tick's start name nothing that runs.
LEMMA SpareBegin ==
    ASSUME HoldInv, SpareInv, TickBegin
    PROVE  SpareInv'
<1>1. TypeInv /\ gone \subseteq Keys
  BY DEF HoldInv, TypeInv, TypeOK
<1>2. toClean' = {} /\ toDelete' = {} /\ gone' = {} /\ toSweep' = Sweeps
  BY DEF TickBegin, HoldInv, PhaseInv
<1>3. ASSUME NEW k \in toSweep' PROVE ~Running(k)'
  <2>1. k \in Keys /\ ~Running(k)
    BY <1>1, <1>2 DEF Sweeps, SpareInv, GoneInv, Running
  <2> QED BY <1>1, <2>1, BeginEntry DEF Running, SameRun
<1> QED BY <1>2, <1>3 DEF SpareInv, GoneInv

\* Entries that start nothing and keep their sweeps, and lists that only shrink, stay apart.
LEMMA SpareQuiet ==
    ASSUME HoldInv, SpareInv,
           \A k \in Keys : entries'[k] # None =>
               entries[k] # None /\ entries'[k].sweep = entries[k].sweep
               /\ (entries'[k].running # None => entries[k].running # None),
           gone' = gone, toSweep' \subseteq toSweep, toClean' \subseteq toClean,
           toDelete' \subseteq toDelete, toStart' = toStart
    PROVE  SpareInv'
<1>1. gone \subseteq Keys /\ toSweep \subseteq Keys /\ toClean \subseteq Keys /\ toDelete \subseteq Keys
  BY DEF HoldInv, TypeInv, TypeOK
<1>2. \A k \in Keys : Running(k)' => Running(k)
  BY DEF Running
<1>3. GoneInv'
  BY <1>1 DEF SpareInv, GoneInv
<1> QED BY <1>1, <1>2, <1>3 DEF SpareInv, Starting

\* A start that fails goes to the cleanup and runs no more.
LEMMA SpareStart ==
    ASSUME HoldInv, SpareInv, NEW start \in toStart, TickStart(start)
    PROVE  SpareInv'
<1> DEFINE k == start.key
<1>1. TypeInv /\ k \in Keys /\ tickAt \in Int /\ gone \subseteq Keys
  BY DEF HoldInv, TypeInv, TypeOK, RunStart
<1>2. /\ tickPc = "tell" /\ toDelete' = {} /\ toSweep' = {} /\ toClean = {} /\ gone' = gone
  BY DEF TickStart, MayStart, HoldInv, PhaseInv
<1>3. CASE UNCHANGED <<entries, toClean>>
  BY <1>2, <1>3 DEF SpareInv, GoneInv, Running
<1>4. CASE FailedToStart(k, tickAt) /\ toClean' = {k}
  <2>1. ~Running(k)' /\ \A j \in Keys \ {k} : entries'[j] = entries[j]
    BY <1>1, <1>4, FailedRuns
  <2>2. entries[k] = None => entries'[k] = None
    BY <1>4 DEF FailedToStart
  <2>3. entries[k] # None => entries'[k].sweep = entries[k].sweep
    BY <1>1, <1>4, FailedEntry
  <2> HIDE DEF k
  <2>4. GoneInv'
    <3> SUFFICES ASSUME NEW j \in gone, entries'[j] # None
                 PROVE  entries'[j].sweep /\ entries'[j].running = None
      BY <1>2 DEF GoneInv
    <3>1. CASE j = k
      BY <2>1, <2>2, <2>3, <3>1 DEF SpareInv, GoneInv, Running
    <3>2. CASE j # k
      BY <1>1, <2>1, <3>2 DEF SpareInv, GoneInv
    <3> QED BY <3>1, <3>2
  <2> QED BY <1>2, <1>4, <2>1, <2>4 DEF SpareInv
<1> QED BY <1>3, <1>4 DEF TickStart

\* A plan drops a run into `gone`, and what it adds is swept first.
LEMMA SparePlan ==
    ASSUME HoldInv, SpareInv, NEW wanted \in Plans, NEW fingerprint \in Fingerprints,
           PassPlan(wanted, fingerprint)
    PROVE  SpareInv'
<1> DEFINE changed == rules # None /\ rules # fingerprint
<1>1. /\ entries' = PlannedEntries(wanted, changed, now) /\ gone' = gone \cup DroppedRuns(wanted)
      /\ UNCHANGED <<toSweep, toDelete, toStart, toClean>>
  BY DEF PassPlan, tickVars
<1>2. TypeInv /\ now \in Int /\ gone \subseteq Keys /\ toSweep \subseteq Keys
      /\ toClean \subseteq Keys /\ toDelete \subseteq Keys
  BY DEF HoldInv, TypeInv, TypeOK
<1> HIDE DEF changed
<1>3. ASSUME NEW k \in Keys PROVE Running(k)' => Running(k)
  BY <1>1, <1>2, PlanRuns DEF Running, SameRun
<1>4. GoneInv'
  <2> SUFFICES ASSUME NEW k \in gone', entries'[k] # None
               PROVE  entries'[k].sweep /\ entries'[k].running = None
    BY DEF GoneInv
  <2>1. k \in Keys /\ wanted[k] # None /\ k \in gone
    <3>1. k \in Keys
      BY <1>1, <1>2 DEF DroppedRuns
    <3>2. wanted[k] # None
      BY <1>1, <1>2, <3>1, PlanRuns
    <3> QED BY <1>1, <3>1, <3>2 DEF DroppedRuns
  <2>2. CASE entries[k] = None
    BY <1>1, <1>2, <2>1, <2>2, PlanEntry DEF SameRun
  <2>3. CASE entries[k] # None
    <3>1. entries[k].sweep /\ entries[k].running = None
      BY <2>1, <2>3 DEF SpareInv, GoneInv
    <3> QED BY <1>1, <1>2, <2>1, <2>3, <3>1, PlanEntry DEF SameRun, SameButQueued
  <2> QED BY <2>2, <2>3
<1> QED BY <1>1, <1>2, <1>3, <1>4 DEF SpareInv, Starting

\* Every step keeps the lists of the tick apart from the runs under way.
LEMMA SpareStep ==
    ASSUME HoldInv, QueueInv, SpareInv, [Next]_vars
    PROVE  SpareInv'
<1>1. TypeInv
  BY DEF HoldInv
<1>2. ASSUME NEW j \in Keys, TickDelete(j) PROVE SpareInv'
  <2>1. toDelete' \subseteq toDelete /\ UNCHANGED <<gone, toSweep, toClean, toStart>>
    BY <1>2 DEF TickDelete
  <2>2. \A k \in Keys : entries'[k] # None =>
               entries[k] # None /\ entries'[k].sweep = entries[k].sweep
               /\ (entries'[k].running # None => entries[k].running # None)
    <3>1. CASE UNCHANGED entries
      BY <3>1
    <3>2. CASE Stuck(j)
      BY <1>1, <3>2, StuckEntry DEF SameButQueued, SameRun
    <3> QED BY <1>2, <3>1, <3>2 DEF TickDelete
  <2> QED BY <2>1, <2>2, SpareQuiet
<1>3. ASSUME NEW j \in Keys, RunNow(j) PROVE SpareInv'
  <2>1. UNCHANGED <<gone, toSweep, toDelete, toClean, toStart>>
    BY <1>3 DEF RunNow, tickVars
  <2>2. \A k \in Keys : entries'[k] # None =>
               entries[k] # None /\ entries'[k].sweep = entries[k].sweep
               /\ (entries'[k].running # None => entries[k].running # None)
    BY <1>1, <1>3, RunNowEntry DEF SameButQueued, SameRun
  <2> QED BY <2>1, <2>2, SpareQuiet
<1>4. CASE Crash
  BY <1>4 DEF Crash, EmptyQueue, SpareInv, GoneInv
<1>5. ASSUME \/ TickTakeEnds \/ TickEnd \/ PassRead \/ RunnerRestarts \/ Advance \/ UNCHANGED vars
             \/ \E j \in Keys : TickSweep(j) \/ TickPoll(j) \/ TickClean(j) \/ RunFinishes(j)
             \/ \E end \in toTell : TickTell(end)
      PROVE  SpareInv'
  <2>1. /\ UNCHANGED <<entries, gone, toDelete, toStart>>
        /\ toSweep' \subseteq toSweep /\ toClean' \subseteq toClean
    BY <1>5 DEF TickTakeEnds, TickEnd, PassRead, RunnerRestarts, Advance, TickSweep, TickPoll,
                TickClean, RunFinishes, TickTell, vars, queueVars, tickVars
  <2> QED BY <2>1, SpareQuiet
<1> QED BY <1>2, <1>3, <1>4, <1>5, SpareBegin, SpareSettle, SpareStart, SparePlan
        DEF Next, Tick, Pass, Outside

\* It holds in every behaviour.
LEMMA SpareInvariant == Spec => [](HoldInv /\ QueueInv /\ SpareInv)
<1>1. Init => SpareInv
  BY DEF Init, SpareInv, GoneInv
<1>2. HoldInv /\ QueueInv /\ SpareInv /\ [Next]_vars => SpareInv'
  BY SpareStep
<1> QED BY <1>1, <1>2, HoldInvariant, QueueInvariant, PTL DEF Spec

\* The tick never deletes a run that is under way: a delete it decided on before an await, in a
\* sweep, for an ended run or after a failed start, never hits the run that came after.
THEOREM TicksSpareRunning == Spec => TickSparesRunning
<1> DEFINE Spares == \A k \in Keys :
               Running(k) /\ ~Starting(k) /\ runner[k] # None /\ runner'[k] = None =>
                   tickVars' = tickVars
<1>1. HoldInv /\ SpareInv /\ [Next]_vars => [Spares]_vars
  <2> SUFFICES ASSUME HoldInv, SpareInv, [Next]_vars, NEW k \in Keys,
                      Running(k), ~Starting(k), runner[k] # None, runner'[k] = None
               PROVE  tickVars' = tickVars
    OBVIOUS
  <2>1. runner \in [Keys -> Stream \cup {None}]
    BY DEF HoldInv, TypeInv, TypeOK
  <2>2. ASSUME NEW j \in Keys, TickSweep(j) \/ TickDelete(j) \/ TickClean(j) PROVE FALSE
    <3>1. j \in toSweep \cup toDelete \cup toClean
      BY <2>2 DEF TickSweep, TickDelete, TickClean, IsFirst
    <3>2. j # k
      BY <3>1 DEF SpareInv
    <3>3. runner'[k] = runner[k]
      BY <2>1, <2>2, <3>2 DEF TickSweep, TickDelete, TickClean, Delete
    <3> QED BY <3>3
  <2>3. ASSUME NEW start \in toStart, TickStart(start) PROVE FALSE
    <3>1. start.key # k
      BY DEF Starting
    <3>2. runner'[k] = runner[k]
      BY <2>1, <2>3, <3>1 DEF TickStart, Load
    <3> QED BY <3>2
  <2>4. ASSUME TickBegin \/ TickSettle \/ TickTakeEnds \/ TickEnd \/ Crash
               \/ (\E j \in Keys : TickPoll(j)) \/ \E end \in toTell : TickTell(end)
        PROVE  FALSE
    <3>1. runner' = runner
      BY <2>4 DEF TickBegin, TickSettle, TickTakeEnds, TickEnd, Crash, TickPoll, TickTell
    <3> QED BY <3>1
  <2>5. ASSUME \/ Pass \/ RunnerRestarts \/ Advance \/ UNCHANGED vars
               \/ \E j \in Keys : RunFinishes(j) \/ RunNow(j)
        PROVE  tickVars' = tickVars
    BY <2>5 DEF Pass, PassRead, PassPlan, RunnerRestarts, Advance, RunFinishes, RunNow, vars
  <2> QED BY <2>2, <2>3, <2>4, <2>5 DEF Next, Tick, Outside
<1> HIDE DEF Spares
<1>2. Spec => [][Spares]_vars
  BY <1>1, SpareInvariant, PTL DEF Spec
<1> QED BY <1>2 DEF TickSparesRunning, Spares

-----------------------------------------------------------------------------
(* What an end reports.                                                     *)

\* The end of a run is reported with the id and the stream of the run the runner holds, for every
\* order of plans, starts and ends: it needs that the runner holds the run the queue names.
THEOREM EndsNamed == Spec => EndsNameWhatRan
<1> DEFINE Named == \A end \in ends' \ ends :
               runner[end.key] # None => /\ end.run = runner[end.key].run
                                         /\ end.stream = runner[end.key].stream
<1>1. HoldInv /\ [Next]_vars => [Named]_vars
  <2> SUFFICES ASSUME HoldInv, [Next]_vars, NEW end \in ends' \ ends, runner[end.key] # None
               PROVE  end.run = runner[end.key].run /\ end.stream = runner[end.key].stream
    OBVIOUS
  <2>1. TickSettle
    <3>1. ASSUME \/ TickBegin \/ TickTakeEnds \/ TickEnd \/ Pass \/ Outside \/ Advance \/ UNCHANGED vars
                 \/ \E j \in Keys : TickSweep(j) \/ TickPoll(j) \/ TickDelete(j) \/ TickClean(j) \/ RunNow(j)
                 \/ \E other \in toTell : TickTell(other)
                 \/ \E start \in toStart : TickStart(start)
          PROVE  ends' \subseteq ends
      BY <3>1 DEF TickBegin, TickTakeEnds, TickEnd, Pass, PassRead, PassPlan, Outside, RunnerRestarts,
                  Crash, EmptyQueue, RunFinishes, Advance, TickSweep, TickPoll, TickDelete, TickClean,
                  RunNow, TickTell, TickStart, vars, queueVars
    <3> QED BY <3>1 DEF Next, Tick
  <2>2. PICK k \in Keys : EndsNow(k, tickAt) /\ end = EndReport(k)
    BY <2>1 DEF TickSettle
  <2>3. end.key = k /\ end.run = entries[k].run /\ end.stream = entries[k].runStream
    BY <2>2 DEF EndReport
  <2>4. Running(k) /\ ~Starting(k)
    BY <2>1, <2>2 DEF EndsNow, TickSettle, HoldInv, PhaseInv, Starting
  <2> QED BY <2>3, <2>4 DEF HoldInv, RunnerHoldsNamedRun
<1> HIDE DEF Named
<1>2. Spec => [][Named]_vars
  BY <1>1, HoldInvariant, PTL DEF Spec
<1> QED BY <1>2 DEF EndsNameWhatRan, Named

-----------------------------------------------------------------------------
(* No day holds more retries than the budget.                               *)

\* RetryWindow for the retries of one entry.
Window(R) ==
    \A t \in R : Cardinality({r \in R : r <= t /\ t - r < Day}) <= RetriesPerDay

\* Every retry was queued by a tick that has begun, and every entry fits the retries queued for it.
RetryInv ==
    /\ tickAt <= now
    /\ \A k \in Keys :
          /\ IsFiniteSet(retryTimes[k]) /\ Window(retryTimes[k])
          /\ \A r \in retryTimes[k] : r <= tickAt
          /\ entries[k] # None => Fits(entries[k], retryTimes[k], tickPc, tickAt, now)

\* A retry queued at t, the newest time of all, by an entry with budget left, fits the window.
LEMMA WindowGrows ==
    ASSUME NEW R \in SUBSET Int, IsFiniteSet(R), Window(R), NEW t \in Int, \A r \in R : r <= t,
           NEW kept \in SUBSET R, Cardinality(kept) < RetriesPerDay,
           \A r \in R \ kept : t - r >= Day
    PROVE  Window(R \cup {t})
<1> DEFINE Seen(S, u) == {r \in S : r <= u /\ u - r < Day}
<1>1. CASE t \in R
  <2>1. R \cup {t} = R
    BY <1>1
  <2> QED BY <2>1
<1>2. CASE t \notin R
  <2> SUFFICES ASSUME NEW u \in R \cup {t} PROVE Cardinality(Seen(R \cup {t}, u)) <= RetriesPerDay
    BY DEF Window
  <2>1. CASE u \in R
    <3>1. u < t /\ u \in Int
      BY <1>2, <2>1
    <3>2. Seen(R \cup {t}, u) = Seen(R, u)
      BY <3>1
    <3>3. Cardinality(Seen(R, u)) <= RetriesPerDay
      BY <2>1 DEF Window
    <3> HIDE DEF Seen
    <3> QED BY <3>2, <3>3
  <2>2. CASE u = t
    <3>1. Seen(R \cup {t}, u) \subseteq kept \cup {t}
      <4> SUFFICES ASSUME NEW r \in R, r \notin kept, u - r < Day PROVE FALSE
        OBVIOUS
      <4>1. t - r >= Day /\ r \in Int
        OBVIOUS
      <4> QED BY <2>2, <4>1, TimesAssumption
    <3>2. IsFiniteSet(kept)
      BY FS_Subset
    <3>3. IsFiniteSet(kept \cup {t}) /\ Cardinality(kept \cup {t}) <= Cardinality(kept) + 1
      <4>1. IsFiniteSet(kept \cup {t})
            /\ Cardinality(kept \cup {t}) = IF t \in kept THEN Cardinality(kept) ELSE Cardinality(kept) + 1
        BY <3>2, FS_AddElement
      <4>2. Cardinality(kept) \in Nat
        BY <3>2, FS_CardinalityType
      <4> QED BY <4>1, <4>2
    <3> HIDE DEF Seen
    <3>4. /\ Cardinality(Seen(R \cup {t}, u)) <= Cardinality(kept \cup {t})
          /\ IsFiniteSet(Seen(R \cup {t}, u))
      BY <3>1, <3>3, FS_Subset
    <3>5. Cardinality(kept) \in Nat /\ Cardinality(kept \cup {t}) \in Nat
          /\ Cardinality(Seen(R \cup {t}, u)) \in Nat
      BY <3>2, <3>3, <3>4, FS_CardinalityType
    <3> QED BY <3>3, <3>4, <3>5, BudgetAssumption
  <2> QED BY <2>1, <2>2
<1> QED BY <1>1, <1>2

\* What settle finds due is queued at the time of its tick, within the window.
LEMMA RetrySettle ==
    ASSUME TypeInv, QueueInv, RetryInv, TickSettle
    PROVE  RetryInv'
<1> DEFINE t == tickAt
<1>1. /\ t \in Int /\ now \in Int /\ t <= now /\ Day \in Nat
      /\ tickPc = "sweep" /\ tickPc' = "delete" /\ tickAt' = tickAt /\ now' = now
  BY TimesAssumption DEF TypeInv, TypeOK, RetryInv, TickSettle
<1> SUFFICES ASSUME NEW k \in Keys
             PROVE  /\ IsFiniteSet(retryTimes'[k]) /\ Window(retryTimes'[k])
                    /\ \A r \in retryTimes'[k] : r <= t
                    /\ entries'[k] # None => Fits(entries'[k], retryTimes'[k], "delete", t, now)
  BY <1>1 DEF RetryInv
<1> DEFINE R == retryTimes[k]
           q == Due(t)[k]
<1>2. R \in SUBSET Int /\ IsFiniteSet(R) /\ Window(R) /\ \A r \in R : r <= t
  BY DEF TypeInv, TypeOK, RetryInv
<1>3. retryTimes'[k] = IF entries[k] # None /\ q.retried # entries[k].retried /\ t \in q.retried
                       THEN R \cup {t} ELSE R
  BY DEF TickSettle
<1>4. CASE entries[k] = None
  <2>1. entries'[k] = None
    BY <1>4, SettleRuns
  <2> QED BY <1>2, <1>3, <1>4, <2>1
<1>5. CASE entries[k] # None
  <2> DEFINE e == entries[k]
             d == AfterEnds(k, t)
             f == entries'[k]
  <2>1. e \in NamedEntry /\ e \in Entry /\ OneRun(e) /\ Fits(e, R, "sweep", t, now)
    BY <1>1, <1>5 DEF TypeInv, NamedEntry, QueueInv, RetryInv
  <2>2. q = QueueRetry(d, t) /\ f # None /\ SameRetry(q, f)
    BY <1>5, <2>1, SettleEntry
  <2>3. /\ d \in NamedEntry /\ OneRun(d)
        /\ d.running = e.running \/ d.running = None
        /\ \/ SameRetry(e, d)
           \/ e.running # None /\ e.run \in Int /\ SameRetry(Arm(e, e.run, t), d)
    BY <1>1, <1>5, <2>1, AfterEndsEntry DEF Running
  <2> HIDE DEF e, d, f, q, R, t
  <2>4. Fits(d, R, "sweep", t, now)
    <3>1. CASE SameRetry(e, d)
      BY <2>1, <2>3, <3>1, FitsSame
    <3>2. CASE e.running # None /\ e.run \in Int /\ SameRetry(Arm(e, e.run, t), d)
      <4>1. Fits(Arm(e, e.run, t), R, "sweep", t, now) /\ Arm(e, e.run, t).running = e.running
        BY <1>1, <1>2, <2>1, <3>2, FitsArm, ArmType
      <4> QED BY <2>3, <3>2, <4>1, FitsSame
    <3> QED BY <2>3, <3>1, <3>2
  <2>5. \/ SameRetry(d, q)
        \/ q.retry = None /\ q.retried = d.retried
        \/ RetryDue(d, t) /\ q.retry = None /\ q.retried = d.retried \cup {t}
    BY <1>1, <2>2, <2>3, QueueRetryEntry
  <2>6. CASE q.retried = d.retried /\ (q.retry = None \/ q.retry = d.retry)
    <3>1. retryTimes'[k] = R
      BY <1>3, <2>4, <2>6 DEF Fits
    <3>2. Fits(f, R, "delete", t, now)
      BY <2>2, <2>4, <2>6 DEF Fits, SameRetry
    <3> QED BY <1>2, <3>1, <3>2 DEF f
  <2>7. CASE RetryDue(d, t) /\ q.retry = None /\ q.retried = d.retried \cup {t}
    <3>1. retryTimes'[k] = R \cup {t}
      BY <1>3, <1>5, <2>1, <2>7 DEF Fits, e
    <3>2. /\ d.retried \in SUBSET R /\ Cardinality(d.retried) < RetriesPerDay
          /\ \A r \in R \ d.retried : t - r >= Day /\ now - r >= Day
      BY <2>4, <2>7 DEF Fits, RetryDue
    <3>3. Window(R \cup {t})
      BY <1>1, <1>2, <3>2, WindowGrows
    <3>4. IsFiniteSet(R \cup {t})
      BY <1>2, FS_AddElement
    <3>5. Fits(f, R \cup {t}, "delete", t, now)
      BY <2>2, <2>7, <3>2 DEF Fits, SameRetry
    <3>6. \A r \in R \cup {t} : r <= t
      BY <1>1, <1>2
    <3> QED BY <3>1, <3>3, <3>4, <3>5, <3>6 DEF f
  <2> QED BY <2>5, <2>6, <2>7 DEF SameRetry
<1> QED BY <1>4, <1>5

\* A new tick takes the wall clock for its time.
LEMMA RetryBegin == ASSUME TypeInv, RetryInv, TickBegin PROVE RetryInv'
<1>1. /\ tickAt \in Int /\ now \in Int /\ tickAt <= now
      /\ tickAt' = now /\ now' = now /\ tickPc' = "sweep" /\ retryTimes' = retryTimes
  BY DEF TypeInv, TypeOK, RetryInv, TickBegin, histVars
<1> SUFFICES ASSUME NEW k \in Keys
             PROVE  /\ \A r \in retryTimes[k] : r <= now
                    /\ entries'[k] # None => Fits(entries'[k], retryTimes[k], "sweep", now, now)
  BY <1>1 DEF RetryInv
<1>2. \A r \in retryTimes[k] : r <= now
  <2>1. \A r \in retryTimes[k] : r \in Int /\ r <= tickAt
    BY DEF TypeInv, TypeOK, RetryInv
  <2> QED BY <1>1, <2>1
<1>3. ASSUME entries'[k] # None PROVE Fits(entries'[k], retryTimes[k], "sweep", now, now)
  <2>1. entries[k] # None /\ SameRetry(entries[k], entries'[k])
    BY <1>3, BeginEntry
  <2> QED BY <2>1 DEF RetryInv, Fits, SameRetry
<1> QED BY <1>2, <1>3

\* A start that fails is armed at the tick's time, after its retries were queued.
LEMMA RetryStart ==
    ASSUME TypeInv, RetryInv, NEW start \in toStart, TickStart(start)
    PROVE  RetryInv'
<1>1. /\ start.key \in Keys /\ tickAt \in Int /\ now \in Int /\ tickAt <= now
      /\ tickPc = "tell" /\ UNCHANGED <<tickAt, tickPc, now, retryTimes>>
  BY DEF TypeInv, TypeOK, RunStart, RetryInv, TickStart, MayStart
<1> SUFFICES ASSUME NEW k \in Keys, entries'[k] # None
             PROVE  Fits(entries'[k], retryTimes[k], tickPc, tickAt, now)
  BY <1>1 DEF RetryInv
<1>2. CASE entries'[k] = entries[k]
  BY <1>2 DEF RetryInv
<1>3. CASE FailedToStart(start.key, tickAt) /\ k = start.key
  <2>1. entries[k] # None
    BY <1>3 DEF FailedToStart
  <2> DEFINE e == entries[k]
             f == entries'[k]
             R == retryTimes[k]
  <2>2. e \in Entry /\ R \in SUBSET Int /\ Fits(e, R, tickPc, tickAt, now)
    BY <2>1 DEF TypeInv, TypeOK, RetryInv
  <2>3. f.running = None /\ (SameRetry(e, f) \/ (e.run \in Int /\ SameRetry(Arm(e, e.run, tickAt), f)))
    BY <1>1, <1>3, <2>1, FailedEntry
  <2> HIDE DEF e, f, R
  <2>4. CASE SameRetry(e, f)
    BY <2>2, <2>3, <2>4, FitsSame DEF f, R
  <2>5. CASE e.run \in Int /\ SameRetry(Arm(e, e.run, tickAt), f)
    <3>1. Fits(Arm(e, e.run, tickAt), R, tickPc, tickAt, now)
      BY <1>1, <2>2, <2>5, FitsArm
    <3> QED BY <2>3, <2>5, <3>1, FitsSame DEF f, R
  <2> QED BY <2>3, <2>4, <2>5
<1>4. CASE FailedToStart(start.key, tickAt) /\ k # start.key
  BY <1>1, <1>2, <1>4, FailedRuns
<1> QED BY <1>2, <1>3, <1>4 DEF TickStart

\* A plan arms idle entries at the wall clock; an entry it adds has queued no retry.
LEMMA RetryPlan ==
    ASSUME TypeInv, RetryInv, NEW wanted \in Plans, NEW fingerprint \in Fingerprints,
           PassPlan(wanted, fingerprint)
    PROVE  RetryInv'
<1> DEFINE changed == rules # None /\ rules # fingerprint
<1>1. /\ tickAt \in Int /\ now \in Int /\ tickAt <= now /\ UNCHANGED <<tickAt, tickPc, now>>
      /\ entries' = PlannedEntries(wanted, changed, now)
      /\ retryTimes' = [k \in Keys |-> IF entries[k] = None \/ wanted[k] = None THEN {}
                                       ELSE retryTimes[k]]
  BY DEF TypeInv, TypeOK, RetryInv, PassPlan, tickVars
<1> HIDE DEF changed
<1> SUFFICES ASSUME NEW k \in Keys
             PROVE  /\ IsFiniteSet(retryTimes'[k]) /\ Window(retryTimes'[k])
                    /\ \A r \in retryTimes'[k] : r <= tickAt
                    /\ entries'[k] # None => Fits(entries'[k], retryTimes'[k], tickPc, tickAt, now)
  BY <1>1 DEF RetryInv
<1>2. retryTimes[k] \in SUBSET Int /\ IsFiniteSet(retryTimes[k]) /\ Window(retryTimes[k])
      /\ \A r \in retryTimes[k] : r <= tickAt
  BY DEF TypeInv, TypeOK, RetryInv
<1>3. IsFiniteSet({}) /\ Window({}) /\ {} \in SUBSET Int
  BY FS_EmptySet DEF Window
<1>4. CASE wanted[k] = None
  <2>1. entries'[k] = None /\ retryTimes'[k] = {}
    BY <1>1, <1>4, PlanRuns
  <2> QED BY <1>3, <2>1
<1>5. CASE wanted[k] # None
  <2> DEFINE e == PlannedEntry(k, wanted[k], now)
  <2>1. \A R \in SUBSET Int :
           Fits(e, R, tickPc, tickAt, now) => Fits(entries'[k], R, tickPc, tickAt, now)
    BY <1>1, <1>5, PlanEntry
  <2>2. CASE entries[k] = None
    <3>1. e.running = None /\ e.retry = None /\ e.retried = {}
      BY <1>5, <2>2, PlanEntry
    <3> HIDE DEF e
    <3>2. Fits(e, {}, tickPc, tickAt, now)
      BY <3>1 DEF Fits
    <3> QED BY <1>1, <1>3, <2>1, <2>2, <3>2
  <2>3. CASE entries[k] # None
    <3>1. SameButQueued(entries[k], e)
      BY <1>5, <2>3, PlanEntry
    <3> HIDE DEF e
    <3>2. Fits(e, retryTimes[k], tickPc, tickAt, now)
      <4>1. Fits(entries[k], retryTimes[k], tickPc, tickAt, now)
        BY <2>3 DEF RetryInv
      <4> QED BY <3>1, <4>1, FitsSame DEF SameButQueued, SameRun
    <3> QED BY <1>1, <1>2, <1>5, <2>1, <2>3, <3>2
  <2> QED BY <2>2, <2>3
<1> QED BY <1>4, <1>5

\* What is a day old stays so.
LEMMA StaysOld ==
    ASSUME NEW n \in Int, NEW m \in Int, n <= m, NEW r \in Int, NEW day \in Nat, n - r >= day
    PROVE  m - r >= day
OBVIOUS

\* Steps that queue and arm nothing, and time that passes.
LEMMA RetryQuiet ==
    ASSUME TypeInv, RetryInv, UNCHANGED <<tickAt, retryTimes>>,
           now' \in Int, now <= now', tickPc' = "sweep" => tickPc = "sweep",
           \A k \in Keys : entries'[k] # None =>
               /\ entries[k] # None
               /\ SameRetry(entries[k], entries'[k]) /\ entries'[k].running = entries[k].running
    PROVE  RetryInv'
<1>1. tickAt \in Int /\ now \in Int /\ Day \in Nat /\ tickAt <= now'
  BY TimesAssumption DEF TypeInv, TypeOK, RetryInv
<1> SUFFICES ASSUME NEW k \in Keys, entries'[k] # None
             PROVE  Fits(entries'[k], retryTimes[k], tickPc', tickAt, now')
  BY <1>1 DEF RetryInv
<1>2. Fits(entries[k], retryTimes[k], tickPc, tickAt, now)
  BY DEF RetryInv
<1>3. Fits(entries'[k], retryTimes[k], tickPc, tickAt, now)
  BY <1>2, FitsSame
<1>4. \A r \in retryTimes[k] : r \in Int
  BY DEF TypeInv, TypeOK
<1>5. ASSUME NEW r \in retryTimes[k] \ entries'[k].retried PROVE now' - r >= Day
  <2>1. now - r >= Day /\ r \in Int
    BY <1>3, <1>4 DEF Fits
  <2> QED BY <1>1, <2>1, StaysOld, Zenon
<1> QED BY <1>3, <1>5 DEF Fits

\* Every step keeps the invariant of the retries.
LEMMA RetryStep == ASSUME TypeInv, QueueInv, RetryInv, [Next]_vars PROVE RetryInv'
<1>1. now \in Int
  BY DEF TypeInv, TypeOK
<1>2. ASSUME NEW j \in Keys, TickDelete(j) PROVE RetryInv'
  <2>1. UNCHANGED <<tickAt, retryTimes, now, tickPc>>
    BY <1>2 DEF TickDelete
  <2>2. \A k \in Keys : entries'[k] # None =>
               /\ entries[k] # None
               /\ SameRetry(entries[k], entries'[k]) /\ entries'[k].running = entries[k].running
    <3>1. CASE UNCHANGED entries
      BY <3>1 DEF SameRetry
    <3>2. CASE Stuck(j)
      BY <3>2, StuckEntry DEF SameButQueued, SameRun
    <3> QED BY <1>2, <3>1, <3>2 DEF TickDelete
  <2> QED BY <1>1, <2>1, <2>2, RetryQuiet
<1>3. ASSUME NEW j \in Keys, RunNow(j) PROVE RetryInv'
  <2>1. UNCHANGED <<tickAt, retryTimes, now, tickPc>>
    BY <1>3 DEF RunNow, tickVars, histVars
  <2>2. \A k \in Keys : entries'[k] # None =>
               /\ entries[k] # None
               /\ SameRetry(entries[k], entries'[k]) /\ entries'[k].running = entries[k].running
    BY <1>3, RunNowEntry DEF SameButQueued, SameRun
  <2> QED BY <1>1, <2>1, <2>2, RetryQuiet
<1>4. CASE Crash
  <2>1. /\ entries' = [k \in Keys |-> None] /\ retryTimes' = [k \in Keys |-> {}]
        /\ UNCHANGED <<tickAt, now>>
    BY <1>4 DEF Crash, EmptyQueue
  <2>2. IsFiniteSet({}) /\ Window({})
    BY FS_EmptySet DEF Window
  <2> QED BY <2>1, <2>2 DEF RetryInv
<1>5. ASSUME \/ TickTakeEnds \/ TickEnd \/ PassRead \/ RunnerRestarts \/ Advance \/ UNCHANGED vars
             \/ \E j \in Keys : TickSweep(j) \/ TickPoll(j) \/ TickClean(j) \/ RunFinishes(j)
             \/ \E end \in toTell : TickTell(end)
      PROVE  RetryInv'
  <2>1. /\ UNCHANGED <<entries, tickAt, retryTimes>>
        /\ now' = now \/ now' = now + 1
        /\ tickPc' = "sweep" => tickPc = "sweep"
    BY <1>5 DEF TickTakeEnds, TickEnd, PassRead, RunnerRestarts, Advance, TickSweep, TickPoll,
                TickClean, RunFinishes, TickTell, vars, queueVars, tickVars, histVars
  <2>2. now' \in Int /\ now <= now'
    BY <1>1, <2>1
  <2>3. \A k \in Keys : entries'[k] # None =>
               /\ entries[k] # None
               /\ SameRetry(entries[k], entries'[k]) /\ entries'[k].running = entries[k].running
    BY <2>1 DEF SameRetry
  <2> QED BY <2>1, <2>2, <2>3, RetryQuiet
<1> QED BY <1>2, <1>3, <1>4, <1>5, RetryBegin, RetrySettle, RetryStart, RetryPlan
        DEF Next, Tick, Pass, Outside

\* No day-long window holds more than RETRIES_PER_DAY queued retries of one entry, for every
\* backoff, day, budget and clock: whatever armed them, however rules brought them forward, and
\* however long a tick takes between its two sections (Entry::arm, queue_retries).
THEOREM RetriesBounded == Spec => []RetryWindow
<1>1. Init => RetryInv
  <2>1. IsFiniteSet({}) /\ Window({})
    BY FS_EmptySet DEF Window
  <2> QED BY <2>1 DEF Init, RetryInv
<1>2. TypeInv /\ QueueInv /\ RetryInv /\ [Next]_vars => RetryInv'
  BY RetryStep
<1>3. RetryInv => RetryWindow
  BY DEF RetryInv, Window, RetryWindow
<1> QED BY <1>1, <1>2, <1>3, QueueInvariant, PTL DEF Spec

-----------------------------------------------------------------------------
(* One run per pipeline.  A start is decided in settle, while the runner    *)
(* may still hold the run it follows, so what has to be inductive is that   *)
(* the deletes of the same tick come to every such run first.               *)

\* Where a start is to be sent the runner holds nothing, or what the tick deletes before it, or
\* what an earlier delete or Portal left there.
StartFree ==
    \A s \in toStart : runner[s.key] # None => s.key \in toDelete \cup unremoved

\* settle starts a run where none runs, or where one ends and goes to the deletes.
LEMMA FreeSettle ==
    ASSUME HoldInv, QueueInv, SpareInv, TickSettle
    PROVE  StartFree'
<1> DEFINE q == Due(tickAt)
<1>1. TypeInv /\ tickAt \in Int /\ q \in [Keys -> NamedEntry \cup {None}]
  BY NamedDue DEF HoldInv, TypeInv, TypeOK
<1>2. /\ toDelete' = {k \in Keys : EndsNow(k, tickAt)} /\ UNCHANGED <<runner, unremoved>>
      /\ toSweep = {} /\ toDelete = {} /\ toClean = {}
  BY DEF TickSettle, HoldInv, PhaseInv
<1> SUFFICES ASSUME NEW s \in toStart', runner[s.key] # None
             PROVE  (EndsNow(s.key, tickAt) /\ s.key \in Keys) \/ s.key \in unremoved
  BY <1>2 DEF StartFree
<1>3. s.key \in StartsNow(q, tickAt)
  BY DEF TickSettle
<1> DEFINE k == s.key
<1> HIDE DEF q, k
<1>4. k \in Keys
  BY <1>1, <1>3, StartsQueued, Zenon DEF k
<1>5. CASE Running(k)
  <2>1. k \in StartsNow(Due(tickAt), tickAt)
    BY <1>3 DEF k, q
  <2>2. EndsNow(k, tickAt)
    BY <1>1, <1>4, <1>5, <2>1, SettleRuns
  <2> QED BY <1>4, <2>2 DEF k
<1>6. CASE ~Running(k)
  <2>1. k \in gone \cup unremoved
    BY <1>2, <1>4, <1>6 DEF HoldInv, TrackedInv, k
  <2>2. k \notin gone
    <3> SUFFICES ASSUME k \in gone PROVE FALSE
      OBVIOUS
    <3>1. k \in StartsNow(Due(tickAt), tickAt)
      BY <1>3 DEF k, q
    <3>2. entries[k] # None
      BY <1>1, <1>4, <3>1, SettleRuns
    <3>3. OneRun(entries[k]) /\ entries[k].sweep
      BY <1>4, <3>2 DEF QueueInv, SpareInv, GoneInv
    <3> QED BY <1>1, <1>4, <3>1, <3>2, <3>3, SettleEntry
  <2> QED BY <2>1, <2>2 DEF k
<1> QED BY <1>5, <1>6

\* A delete of the tick takes its key off the list only with the run gone, or kept by the runner.
LEMMA FreeDelete ==
    ASSUME HoldInv, StartFree, NEW k \in Keys, TickSweep(k) \/ TickDelete(k) \/ TickClean(k)
    PROVE  StartFree'
<1>1. /\ \A j \in Keys : runner'[j] # None => runner'[j] = runner[j]
      /\ runner'[k] # None => k \in unremoved'
      /\ \A j \in Keys \ {k} : j \in unremoved' <=> j \in unremoved
  BY DeleteTracks DEF TickSweep, TickDelete, TickClean
<1>2. toStart' = toStart /\ toDelete \ {k} \subseteq toDelete'
  BY DEF TickSweep, TickDelete, TickClean
<1>3. \A s \in toStart : s.key \in Keys
  BY DEF HoldInv, TypeInv, TypeOK, RunStart
<1> QED BY <1>1, <1>2, <1>3 DEF StartFree

\* A start touches its own key alone, and no other start has it.
LEMMA FreeStart ==
    ASSUME HoldInv, StartFree, NEW start \in toStart, TickStart(start)
    PROVE  StartFree'
<1>1. /\ toStart' = toStart \ {start} /\ toDelete' = toDelete
      /\ Load(start) \/ UNCHANGED <<runner, unremoved>>
  BY DEF TickStart
<1>2. \A s \in toStart' : s.key \in Keys /\ s.key # start.key
  BY <1>1 DEF HoldInv, StartInv, TypeInv, TypeOK, RunStart
<1>3. \A k \in Keys \ {start.key} : runner'[k] = runner[k] /\ (k \in unremoved => k \in unremoved')
  BY <1>1 DEF Load, HoldInv, TypeInv, TypeOK
<1> QED BY <1>1, <1>2, <1>3 DEF StartFree

\* Every step keeps the place of a start free.
LEMMA FreeStep ==
    ASSUME HoldInv, QueueInv, SpareInv, StartFree, [Next]_vars
    PROVE  StartFree'
<1>1. CASE TickBegin
  <2>1. toStart' = {}
    BY <1>1 DEF TickBegin, HoldInv, PhaseInv
  <2> QED BY <2>1 DEF StartFree
<1>2. ASSUME NEW k \in Keys, RunFinishes(k) PROVE StartFree'
  <2>1. UNCHANGED <<toStart, toDelete, unremoved>>
    BY <1>2 DEF RunFinishes, tickVars, histVars
  <2>2. \A j \in Keys : runner'[j] # None => runner[j] # None
    BY <1>2 DEF RunFinishes, HoldInv, TypeInv, TypeOK
  <2>3. \A s \in toStart : s.key \in Keys
    BY DEF HoldInv, TypeInv, TypeOK, RunStart
  <2> QED BY <2>1, <2>2, <2>3 DEF StartFree
<1>3. CASE RunnerRestarts \/ Crash
  <2>1. \A s \in toStart : s.key \in Keys
    BY DEF HoldInv, TypeInv, TypeOK, RunStart
  <2> QED BY <1>3, <2>1 DEF RunnerRestarts, Crash, StartFree, tickVars
<1>4. ASSUME \/ TickTakeEnds \/ TickEnd \/ Pass \/ Advance \/ UNCHANGED vars
             \/ \E j \in Keys : TickPoll(j) \/ RunNow(j)
             \/ \E end \in toTell : TickTell(end)
      PROVE  StartFree'
  <2>1. UNCHANGED <<toStart, toDelete, unremoved, runner>>
    BY <1>4 DEF TickTakeEnds, TickEnd, Pass, PassRead, PassPlan, Advance, TickPoll, RunNow, TickTell,
                vars, tickVars, histVars
  <2> QED BY <2>1 DEF StartFree
<1> QED BY <1>1, <1>2, <1>3, <1>4, FreeSettle, FreeDelete, FreeStart DEF Next, Tick, Outside

\* It holds in every behaviour.
LEMMA FreeInvariant == Spec => [](HoldInv /\ StartFree)
<1>1. Init => StartFree
  BY DEF Init, StartFree
<1>2. HoldInv /\ QueueInv /\ SpareInv /\ StartFree /\ [Next]_vars => StartFree'
  BY FreeStep
<1> QED BY <1>1, <1>2, SpareInvariant, PTL DEF Spec

\* One run per pipeline: a start never takes the place of a run the runner still holds, unless it
\* was left there by a delete that failed or a Portal that died (tick's order: ends, then starts).
THEOREM OneRunEach == Spec => NeverTwoRuns
<1> DEFINE Alone == \A k \in Keys :
               runner[k] # None /\ runner'[k] # None /\ k \notin unremoved =>
                   runner'[k].run = runner[k].run /\ runner'[k].stream = runner[k].stream
<1>1. HoldInv /\ StartFree /\ [Next]_vars => [Alone]_vars
  <2> SUFFICES ASSUME HoldInv, StartFree, [Next]_vars, NEW k \in Keys,
                      runner[k] # None, runner'[k] # None, k \notin unremoved
               PROVE  runner'[k].run = runner[k].run /\ runner'[k].stream = runner[k].stream
    OBVIOUS
  <2> DEFINE Goal == runner'[k].run = runner[k].run /\ runner'[k].stream = runner[k].stream
  <2>1. runner \in [Keys -> Stream \cup {None}] /\ toStart \subseteq RunStart
    BY DEF HoldInv, TypeInv, TypeOK
  <2>2. ASSUME NEW j \in Keys, TickSweep(j) \/ TickDelete(j) \/ TickClean(j) PROVE Goal
    <3>1. runner'[k] = runner[k]
      BY <2>2, DeleteTracks DEF TickSweep, TickDelete, TickClean
    <3> QED BY <3>1
  <2>3. ASSUME NEW start \in toStart, TickStart(start) PROVE Goal
    <3>1. start.key # k
      BY <2>3 DEF TickStart, MayStart, HoldInv, PhaseInv, StartFree
    <3>2. runner'[k] = runner[k]
      BY <2>1, <2>3, <3>1 DEF TickStart, Load
    <3> QED BY <3>2
  <2>4. ASSUME NEW j \in Keys, RunFinishes(j) PROVE Goal
    BY <2>1, <2>4 DEF RunFinishes, Stream
  <2>5. CASE RunnerRestarts
    BY <2>5 DEF RunnerRestarts
  <2>6. ASSUME \/ TickBegin \/ TickSettle \/ TickTakeEnds \/ TickEnd \/ Crash \/ Pass \/ Advance
               \/ UNCHANGED vars \/ (\E j \in Keys : TickPoll(j) \/ RunNow(j))
               \/ \E end \in toTell : TickTell(end)
        PROVE  Goal
    <3>1. runner' = runner
      BY <2>6 DEF TickBegin, TickSettle, TickTakeEnds, TickEnd, Crash, Pass, PassRead, PassPlan,
                  Advance, TickPoll, RunNow, TickTell, vars
    <3> QED BY <3>1
  <2> QED BY <2>2, <2>3, <2>4, <2>5, <2>6 DEF Next, Tick, Outside
<1> HIDE DEF Alone
<1>2. Spec => [][Alone]_vars
  BY <1>1, FreeInvariant, PTL DEF Spec
<1> QED BY <1>2 DEF NeverTwoRuns, Alone

-----------------------------------------------------------------------------
(* The lanes keep their limits.  The runs of a lane that start are those    *)
(* with fewer than Room before them, so their ranks are distinct numbers    *)
(* below Room.                                                              *)

\* The runs a lane chooses from, and how many of them precede one.
Candidates(q, lane, t) == Waiting(q, lane) \ Refused(q, t)
Rank(q, lane, t, k) == Cardinality({j \in Candidates(q, lane, t) : Precedes(q, j, k)})

\* The ranks of the runs a lane chooses from are distinct numbers below their number.
LEMMA RanksDiffer ==
    ASSUME NEW q \in [Keys -> NamedEntry \cup {None}], NEW lane, NEW t
    PROVE  /\ IsFiniteSet(Candidates(q, lane, t)) /\ Cardinality(Candidates(q, lane, t)) \in Nat
           /\ Starts(q, lane, t)
                = {k \in Candidates(q, lane, t) : Rank(q, lane, t, k) < Room(q, lane, t)}
           /\ \A k \in Candidates(q, lane, t) :
                 Rank(q, lane, t, k) \in 0..(Cardinality(Candidates(q, lane, t)) - 1)
           /\ \A j, k \in Candidates(q, lane, t) :
                 Rank(q, lane, t, j) = Rank(q, lane, t, k) => j = k
<1> DEFINE next == Candidates(q, lane, t)
           Before(i) == {x \in next : Precedes(q, x, i)}
           R(i) == Rank(q, lane, t, i)
<1>1. next \subseteq Keys /\ Starts(q, lane, t) = {k \in next : R(k) < Room(q, lane, t)}
  BY DEF Starts, Candidates, Rank, Waiting
<1>2. \A i \in next : q[i].queued \in Int /\ i \in Nat
  BY KeysAssumption DEF Candidates, Waiting, NamedEntry, Entry, MaybeTime
<1>3. \A i : R(i) = Cardinality(Before(i))
  BY DEF Rank
<1>4. IsFiniteSet(next) /\ Cardinality(next) \in Nat
  BY <1>1, KeysAssumption, FS_Subset, FS_CardinalityType
<1> HIDE DEF next, R
<1>5. ASSUME NEW i \in next
      PROVE  IsFiniteSet(Before(i)) /\ R(i) \in Nat /\ R(i) < Cardinality(next)
  <2>1. i \notin Before(i)
    BY <1>2 DEF Precedes
  <2> HIDE DEF Before
  <2>2. Before(i) \in SUBSET next /\ Before(i) # next
    BY <2>1 DEF Before
  <2>3. IsFiniteSet(Before(i)) /\ Cardinality(Before(i)) \in Nat
    BY <1>4, <2>2, FS_Subset, FS_CardinalityType
  <2>4. Cardinality(Before(i)) <= Cardinality(next) /\ Cardinality(Before(i)) # Cardinality(next)
    BY <1>4, <2>2, FS_Subset
  <2> QED BY <1>3, <1>4, <2>3, <2>4
<1>6. ASSUME NEW j \in next, NEW k \in next, Precedes(q, j, k) PROVE R(j) # R(k)
  <2>1. Before(j) \subseteq Before(k)
    BY <1>2, <1>6 DEF Precedes
  <2>2. j \in Before(k) /\ j \notin Before(j)
    BY <1>2, <1>6 DEF Precedes
  <2> HIDE DEF Before
  <2> QED BY <1>3, <1>5, <2>1, <2>2, FS_Subset
<1>7. ASSUME NEW j \in next, NEW k \in next, j # k PROVE Precedes(q, j, k) \/ Precedes(q, k, j)
  BY <1>2, <1>7 DEF Precedes
<1>8. ASSUME NEW k \in next PROVE R(k) \in 0..(Cardinality(next) - 1)
  <2>1. R(k) \in Nat /\ R(k) < Cardinality(next)
    BY <1>5
  <2> QED BY <1>4, <2>1
<1>9. \A j, k \in next : R(j) = R(k) => j = k
  BY <1>6, <1>7
<1> QED BY <1>1, <1>4, <1>8, <1>9 DEF next, R

\* A lane starts no more runs than it has room for.
LEMMA StartsFit ==
    ASSUME NEW q \in [Keys -> NamedEntry \cup {None}], NEW lane, NEW t
    PROVE  /\ IsFiniteSet(Starts(q, lane, t))
           /\ Cardinality(Starts(q, lane, t)) <= Room(q, lane, t)
<1> DEFINE room == Room(q, lane, t)
           started == Starts(q, lane, t)
           R(k) == Rank(q, lane, t, k)
           f == [k \in started |-> R(k)]
<1>1. room \in Nat
  BY RoomLeft
<1>2. /\ \A k \in started : R(k) \in Nat /\ R(k) < room
      /\ \A j, k \in started : R(j) = R(k) => j = k
  BY RanksDiffer
<1> HIDE DEF started, R, room
<1>3. f \in [started -> 0..(room - 1)]
  BY <1>1, <1>2
<1>4. \A j, k \in started : f[j] = f[k] => j = k
  BY <1>2
<1> HIDE DEF f
<1>5. f \in Injection(started, 0..(room - 1))
  BY <1>3, <1>4 DEF Injection, IsInjective
<1>6. IsFiniteSet(0..(room - 1)) /\ Cardinality(0..(room - 1)) = room
  BY <1>1, FS_Interval
<1>7. IsFiniteSet(started) /\ Cardinality(started) <= Cardinality(0..(room - 1))
  BY <1>5, <1>6, FS_Injection
<1> QED BY <1>6, <1>7 DEF started, room

\* A lane that leaves a run waiting starts as many as it has room for: the ranks of the runs it
\* chooses from leave no number out.
LEMMA StartsFill ==
    ASSUME NEW q \in [Keys -> NamedEntry \cup {None}], NEW lane, NEW t,
           NEW j \in Candidates(q, lane, t), j \notin Starts(q, lane, t)
    PROVE  Room(q, lane, t) <= Cardinality(Starts(q, lane, t))
<1> DEFINE room == Room(q, lane, t)
           started == Starts(q, lane, t)
           next == Candidates(q, lane, t)
           n == Cardinality(next)
           R(k) == Rank(q, lane, t, k)
           f == [k \in next |-> R(k)]
           g == [k \in started |-> R(k)]
<1>1. room \in Nat
  BY RoomLeft
<1>2. /\ IsFiniteSet(next) /\ n \in Nat /\ started = {k \in next : R(k) < room}
      /\ \A k \in next : R(k) \in 0..(n - 1)
      /\ \A i, k \in next : R(i) = R(k) => i = k
  BY RanksDiffer
<1>3. IsFiniteSet(started)
  BY StartsFit
<1>4. j \in next /\ j \notin started
  OBVIOUS
<1> HIDE DEF room, started, next, n, R
<1>5. room <= n - 1
  <2>1. R(j) \in 0..(n - 1) /\ ~(R(j) < room)
    BY <1>2, <1>4
  <2> QED BY <1>1, <1>2, <2>1
<1>6. f \in Surjection(next, 0..(n - 1))
  <2>1. f \in [next -> 0..(n - 1)] /\ \A i, k \in next : f[i] = f[k] => i = k
    BY <1>2
  <2>2. IsFiniteSet(0..(n - 1)) /\ Cardinality(0..(n - 1)) = n
    BY <1>2, FS_Interval
  <2> HIDE DEF f
  <2>3. f \in Injection(next, 0..(n - 1))
    BY <2>1 DEF Injection, IsInjective
  <2>4. Cardinality(next) = Cardinality(0..(n - 1))
    BY <2>2 DEF n
  <2> QED BY <2>2, <2>3, <2>4, FS_Injection
<1>7. \A r \in 0..(room - 1) : \E k \in started : R(k) = r
  <2> SUFFICES ASSUME NEW r \in 0..(room - 1) PROVE \E k \in started : R(k) = r
    OBVIOUS
  <2>1. r \in 0..(n - 1) /\ r < room
    BY <1>1, <1>2, <1>5
  <2>2. PICK k \in next : f[k] = r
    BY <1>6, <2>1 DEF Surjection
  <2>3. R(k) = r
    BY <2>2
  <2> QED BY <1>2, <2>1, <2>3
<1>8. g \in Surjection(started, 0..(room - 1))
  <2>1. \A k \in started : R(k) \in 0..(room - 1)
    <3>1. \A k \in started : R(k) \in 0..(n - 1) /\ R(k) < room
      BY <1>2
    <3> QED BY <1>1, <1>2, <3>1
  <2> QED BY <1>7, <2>1 DEF Surjection
<1>9. Cardinality(0..(room - 1)) <= Cardinality(started)
  BY <1>3, <1>8, FS_Surjection
<1>10. Cardinality(0..(room - 1)) = room
  BY <1>1, FS_Interval
<1> QED BY <1>9, <1>10 DEF room, started

\* After a settle a lane runs what it ran before, without what ended, and what it starts.
LEMMA BusyAfterSettle ==
    ASSUME TypeInv, QueueInv, TickSettle, NEW lane \in {"batch", "short"}
    PROVE  Busy(entries', lane) \subseteq Busy(Due(tickAt), lane) \cup Starts(Due(tickAt), lane, tickAt)
<1> DEFINE t == tickAt
           q == Due(t)
<1> SUFFICES ASSUME NEW k \in Busy(entries', lane), k \notin Starts(q, lane, t)
             PROVE  k \in Busy(q, lane)
  OBVIOUS
<1>1. k \in Keys /\ entries'[k] # None /\ entries'[k].lane = lane /\ entries'[k].running # None
  BY DEF Busy
<1>2. entries[k] # None /\ OneRun(entries[k])
  BY <1>1, SettleRuns DEF QueueInv
<1>3. entries'[k].lane = q[k].lane /\ q[k] \in NamedEntry /\ q[k] # None
  BY <1>1, <1>2, SettleEntry
<1>4. k \notin StartsNow(q, t)
  BY <1>1, <1>3 DEF StartsNow, Starts, Waiting
<1>5. entries'[k] = q[k] \/ (k \in Refused(q, t) /\ entries'[k] = RefuseRun(q[k]))
  BY <1>1, <1>4 DEF TickSettle, Settled
<1> HIDE DEF q
<1>6. RefuseRun(q[k]).running = q[k].running
  BY <1>3 DEF RefuseRun, NamedEntry, Entry
<1> QED BY <1>1, <1>3, <1>5, <1>6 DEF Busy

\* Only settle decides on a start.
LEMMA OnlySettleDecides ==
    ASSUME HoldInv, [Next]_vars, ~TickSettle
    PROVE  toStart' \subseteq toStart
BY DEF HoldInv, PhaseInv, Next, Tick, Pass, Outside, TickBegin, TickTakeEnds, TickEnd, TickSweep,
       TickPoll, TickDelete, TickClean, TickTell, TickStart, PassRead, PassPlan, RunnerRestarts,
       Crash, RunFinishes, Advance, RunNow, vars, tickVars

\* What a settle starts fits its lane, for every number of pipelines and every limit: with it the
\* lane has no more runs under way than its limit (settle: `limit - running`).
THEOREM LanesKeepLimits == Spec => LaneKeepsLimit
<1> DEFINE Within == \A start \in toStart' \ toStart, lane \in {"batch", "short"} :
               lane = entries'[start.key].lane => Cardinality(Busy(entries', lane)) <= Limit(lane)
<1>1. HoldInv /\ QueueInv /\ [Next]_vars => [Within]_vars
  <2> SUFFICES ASSUME HoldInv, QueueInv, [Next]_vars, NEW start \in toStart' \ toStart
               PROVE  Cardinality(Busy(entries', entries'[start.key].lane))
                        <= Limit(entries'[start.key].lane)
    OBVIOUS
  <2> DEFINE t == tickAt
             q == Due(t)
             lane == entries'[start.key].lane
             busy == Busy(q, lane)
             started == Starts(q, lane, t)
  <2>1. TypeInv /\ TickSettle
    BY OnlySettleDecides DEF HoldInv
  <2>2. q \in [Keys -> NamedEntry \cup {None}]
    BY <2>1, NamedDue DEF TypeInv, TypeOK
  <2>3. start.key \in StartsNow(q, t)
    BY <2>1 DEF TickSettle
  <2>4. start.key \in Keys
    BY <2>2, <2>3, StartsQueued, Zenon
  <2>5. entries[start.key] # None /\ OneRun(entries[start.key])
    BY <2>1, <2>3, <2>4, SettleRuns DEF QueueInv
  <2>6. lane = q[start.key].lane
    BY <2>1, <2>4, <2>5, SettleEntry
  <2> HIDE DEF q, lane
  <2>7. start.key \in started /\ lane \in {"batch", "short"}
    BY <2>3, <2>6 DEF StartsNow, Starts, Waiting
  <2>8. Busy(entries', lane) \subseteq busy \cup started
    BY <2>1, <2>7, BusyAfterSettle DEF q
  <2>9. /\ IsFiniteSet(started) /\ Cardinality(started) <= Room(q, lane, t)
        /\ Cardinality(started) \in Nat
    BY <2>2, StartsFit, FS_CardinalityType
  <2>10. /\ Room(q, lane, t) \in Nat /\ Limit(lane) \in Nat
         /\ IsFiniteSet(busy) /\ Cardinality(busy) \in Nat
         /\ Room(q, lane, t) > 0 => Cardinality(busy) + Room(q, lane, t) = Limit(lane)
    BY RoomLeft
  <2>11. Cardinality(started) > 0
    BY <2>7, <2>9, FS_EmptySet
  <2> HIDE DEF busy, started, t
  <2>12. /\ IsFiniteSet(busy \cup started)
         /\ Cardinality(busy \cup started)
              = Cardinality(busy) + Cardinality(started) - Cardinality(busy \cap started)
         /\ Cardinality(busy \cap started) \in Nat /\ Cardinality(busy \cup started) \in Nat
    <3>1. IsFiniteSet(busy \cap started)
      BY <2>9, FS_Subset
    <3> QED BY <2>9, <2>10, <3>1, FS_Union, FS_CardinalityType
  <2>13. /\ Cardinality(Busy(entries', lane)) <= Cardinality(busy \cup started)
         /\ Cardinality(Busy(entries', lane)) \in Nat
    BY <2>8, <2>12, FS_Subset, FS_CardinalityType
  <2>14. Cardinality(Busy(entries', lane)) <= Limit(lane)
    BY <2>9, <2>10, <2>11, <2>12, <2>13
  <2> QED BY <2>14 DEF lane
<1> HIDE DEF Within
<1>2. Spec => [][Within]_vars
  BY <1>1, SpareInvariant, PTL DEF Spec
<1> QED BY <1>2 DEF LaneKeepsLimit, Within

\* What a settle finds running and what it starts run after it.
LEMMA SettleKeepsBusy ==
    ASSUME TypeInv, TickSettle, NEW lane \in {"batch", "short"}
    PROVE  Busy(Due(tickAt), lane) \cup Starts(Due(tickAt), lane, tickAt) \subseteq Busy(entries', lane)
<1> DEFINE t == tickAt
           q == Due(t)
<1>1. t \in Int /\ q \in [Keys -> NamedEntry \cup {None}]
  BY NamedDue DEF TypeInv, TypeOK
<1>2. \A k \in Keys : entries'[k] = IF k \in Refused(q, t) THEN RefuseRun(q[k])
                                    ELSE IF k \in StartsNow(q, t) THEN StartRun(q[k], t) ELSE q[k]
  BY DEF TickSettle, Settled
<1>3. \A k \in StartsNow(q, t) : entries'[k] # None /\ entries'[k].running # None
  <2>1. \A k \in StartsNow(q, t) : k \in Keys
    BY <1>1, StartsQueued, Zenon
  <2> QED BY <2>1, SettleRuns
<1> HIDE DEF q
<1>4. ASSUME NEW k \in Busy(q, lane) PROVE k \in Busy(entries', lane)
  <2>1. k \in Keys /\ q[k] # None /\ q[k].lane = lane /\ q[k].running # None
    BY DEF Busy
  <2>2. entries'[k] = q[k]
    BY <1>2, <2>1 DEF Refused, Waiting, StartsNow, Starts
  <2> QED BY <2>1, <2>2 DEF Busy
<1>5. ASSUME NEW k \in Starts(q, lane, t) PROVE k \in Busy(entries', lane)
  <2>1. k \in Keys /\ q[k] # None /\ q[k].lane = lane /\ k \notin Refused(q, t)
    BY DEF Starts, Waiting
  <2>2. k \in StartsNow(q, t)
    BY DEF StartsNow
  <2>3. entries'[k] = StartRun(q[k], t)
    BY <1>2, <2>1, <2>2
  <2>4. q[k] \in Entry
    BY <1>1, <2>1 DEF NamedEntry
  <2>5. StartRun(q[k], t).lane = q[k].lane
    BY <2>4 DEF StartRun, Entry
  <2> QED BY <1>3, <2>1, <2>2, <2>3, <2>5 DEF Busy
<1> QED BY <1>4, <1>5 DEF q

\* No slot idles, for every number of pipelines and every limit: a settle of a fresh plan that
\* leaves a run waiting fills its lane, and a refused run takes no slot (settle, T-4426).
THEOREM SlotsAreUsed == Spec => NoSlotIdles
<1> DEFINE Full == \A k \in Keys, lane \in {"batch", "short"} :
               /\ tickPc = "sweep" /\ tickPc' = "delete" /\ Fresh(tickAt)
               /\ entries'[k] # None /\ entries'[k].lane = lane
               /\ entries'[k].queued # None /\ ~entries'[k].sweep
               => Cardinality(Busy(entries', lane)) >= Limit(lane)
<1>1. TypeInv /\ QueueInv /\ [Next]_vars => [Full]_vars
  <2> SUFFICES ASSUME TypeInv, QueueInv, [Next]_vars, NEW k \in Keys, NEW lane \in {"batch", "short"},
                      tickPc = "sweep", tickPc' = "delete", Fresh(tickAt),
                      entries'[k] # None, entries'[k].lane = lane,
                      entries'[k].queued # None, ~entries'[k].sweep
               PROVE  Cardinality(Busy(entries', lane)) >= Limit(lane)
    OBVIOUS
  <2> DEFINE t == tickAt
             q == Due(t)
             busy == Busy(q, lane)
             started == Starts(q, lane, t)
  <2>1. TickSettle
    BY DEF Next, Tick, Pass, Outside, TickBegin, TickTakeEnds, TickEnd, TickSweep, TickPoll, TickDelete,
           TickClean, TickTell, TickStart, PassRead, PassPlan, RunnerRestarts, Crash, RunFinishes,
           Advance, RunNow, vars, tickVars
  <2>2. q \in [Keys -> NamedEntry \cup {None}]
    BY NamedDue DEF TypeInv, TypeOK
  <2>3. entries[k] # None /\ OneRun(entries[k])
    BY <2>1, SettleRuns DEF QueueInv
  <2>4. /\ entries'[k] = q[k] /\ q[k] # None /\ OneRun(q[k])
        /\ k \notin Refused(q, t) /\ k \notin StartsNow(q, t)
    BY <2>1, <2>3, SettleEntry
  <2>5. busy \cup started \subseteq Busy(entries', lane)
    BY <2>1, SettleKeepsBusy
  <2>6. Room(q, lane, t) = Larger(Limit(lane) - Cardinality(busy), 0)
    BY DEF Room
  <2> HIDE DEF q, t
  <2>7. k \in Candidates(q, lane, t) /\ k \notin started
    BY <2>4 DEF Candidates, Waiting, OneRun, StartsNow
  <2>8. Room(q, lane, t) <= Cardinality(started)
    BY <2>2, <2>7, StartsFill
  <2>9. IsFiniteSet(started) /\ Cardinality(started) \in Nat
    BY <2>2, StartsFit, FS_CardinalityType
  <2>10. /\ Limit(lane) \in Nat /\ Room(q, lane, t) \in Nat
         /\ IsFiniteSet(busy) /\ Cardinality(busy) \in Nat
    BY RoomLeft
  <2>11. busy \cap started = {}
    BY DEF Busy, Starts, Waiting
  <2> HIDE DEF busy, started
  <2>12. Cardinality(busy \cup started) = Cardinality(busy) + Cardinality(started)
    BY <2>9, <2>10, <2>11, FS_Union, FS_EmptySet
  <2>13. /\ Cardinality(busy \cup started) <= Cardinality(Busy(entries', lane))
         /\ Cardinality(Busy(entries', lane)) \in Nat
    <3>1. IsFiniteSet(Busy(entries', lane))
      BY KeysAssumption, FS_Subset DEF Busy
    <3> QED BY <2>5, <3>1, FS_Subset, FS_CardinalityType
  <2> QED BY <2>6, <2>8, <2>9, <2>10, <2>12, <2>13 DEF Larger
<1> HIDE DEF Full
<1>2. Spec => [][Full]_vars
  BY <1>1, QueueInvariant, PTL DEF Spec
<1> QED BY <1>2 DEF NoSlotIdles, Full

=============================================================================
