--------------------------- MODULE RunQueueProofs ---------------------------
(***************************************************************************)
(* The run queue for any pipelines, clocks, lanes, faults and bounds.      *)
(***************************************************************************)
EXTENDS RunQueue, FiniteSetTheorems, WellFoundedInduction, TLAPS

-----------------------------------------------------------------------------
(* The operators the queue is built from.                                   *)

\* A set of minutes has an earliest one.
LEMMA EarliestMember ==
    ASSUME NEW S \in SUBSET Nat, S # {}
    PROVE  Earliest(S) \in S /\ \A y \in S : Earliest(S) <= y
<1>1. PICK x \in S : \A y \in S : ~(<<y, x>> \in OpToRel(<, Nat))
  BY NatLessThanWellFounded, WFMin, Zenon
<1>2. \A y \in S : x <= y
  <2> SUFFICES ASSUME NEW y \in S, y < x PROVE FALSE
    OBVIOUS
  <2>1. <<y, x>> \in {ss \in Nat \X Nat : ss[1] < ss[2]}
    OBVIOUS
  <2> QED BY <1>1, <2>1 DEF OpToRel
<1> QED BY <1>2 DEF Earliest

\* A clock's next run is a time, or there is none.
LEMMA NextAfterType ==
    ASSUME NEW clock \in Clock, NEW t \in Int
    PROVE  NextAfter(clock, t) \in MaybeTime
<1>1. CASE clock.kind = "once"
  BY <1>1 DEF NextAfter, MaybeTime
<1>2. CASE clock.kind = "every"
  <2>1. clock.every \in Nat \ {0} /\ clock.phase \in Nat
    BY <1>2 DEF Clock
  <2>2. (t - clock.phase) \div clock.every \in Int
    BY <2>1
  <2> QED BY <1>2, <2>1, <2>2 DEF NextAfter, MaybeTime
<1>3. CASE clock.kind = "cron"
  <2>1. clock.fires \in SUBSET Nat
    BY <1>3 DEF Clock
  <2> DEFINE later == {m \in clock.fires : t < m /\ m <= t + CronScan}
  <2>2. CASE later = {}
    BY <1>3, <2>2 DEF CronNextAfter, NextAfter, MaybeTime
  <2>3. CASE later # {}
    <3>1. Earliest(later) \in Nat
      BY <2>1, <2>3, EarliestMember
    <3> QED BY <1>3, <2>3, <3>1 DEF CronNextAfter, NextAfter, MaybeTime
  <2> QED BY <2>2, <2>3
<1> QED BY <1>1, <1>2, <1>3 DEF Clock

\* When a clock fires: at every whole number of its periods after its phase, or at its minutes.
Fires(clock, m) ==
    \/ clock.kind = "every" /\ \E i \in Int : m = i * clock.every + clock.phase
    \/ clock.kind = "cron" /\ m \in clock.fires

\* A cron line is scanned for CronScan and no further.
Scanned(clock, t, m) == clock.kind = "cron" => m <= t + CronScan

\* Multiplying with a positive number keeps an order.
LEMMA TimesKeepsOrder ==
    ASSUME NEW a \in Int, NEW b \in Int, NEW e \in Nat \ {0}
    PROVE  a <= b <=> a * e <= b * e
<1>1. ASSUME NEW c \in Int, NEW d \in Int, c <= d PROVE c * e <= d * e
  <2>1. (d - c) * e \in Nat
    BY <1>1
  <2>2. (d - c) * e = d * e - c * e
    OBVIOUS
  <2> QED BY <2>1, <2>2
<1>2. ASSUME b < a PROVE b * e < a * e
  <2>1. b + 1 <= a /\ b + 1 \in Int
    BY <1>2
  <2>2. (b + 1) * e <= a * e
    BY <1>1, <2>1
  <2>3. (b + 1) * e = b * e + e /\ b * e \in Int /\ a * e \in Int
    OBVIOUS
  <2> QED BY <2>2, <2>3
<1> QED BY <1>1, <1>2

\* Division rounds down, for times before the epoch too (div_euclid).
LEMMA DivisionRoundsDown ==
    ASSUME NEW x \in Int, NEW e \in Nat \ {0}
    PROVE  /\ x \div e \in Int
           /\ (x \div e) * e <= x /\ x < (x \div e + 1) * e
OBVIOUS

\* Clock::next_after, for every clock and time: it is after t, the clock fires then, and it does
\* not fire in between; there is none only when the clock never fires again, or, for a cron
\* line, not within the year its scan covers.  It is the arithmetic of the periods that this is
\* about: a cron line's scan is defined as its first match.
THEOREM NextAfterIsFirst ==
    ASSUME NEW clock \in Clock, NEW t \in Int
    PROVE  LET next == NextAfter(clock, t)
           IN  /\ next # None => next \in Int /\ next > t /\ Fires(clock, next)
               /\ \A m \in Int : m > t /\ Fires(clock, m) /\ Scanned(clock, t, m) => next # None /\ next <= m
<1> DEFINE next == NextAfter(clock, t)
<1>1. CASE clock.kind = "once"
  BY <1>1 DEF NextAfter, Fires
<1>2. CASE clock.kind = "every"
  <2> DEFINE e == clock.every
             p == clock.phase
             n == (t - p) \div e
  <2>1. e \in Nat \ {0} /\ p \in Nat /\ t - p \in Int
    BY <1>2 DEF Clock
  <2>2. next = (n + 1) * e + p
    BY <1>2 DEF NextAfter
  <2> HIDE DEF e, p, next
  <2>3. n \in Int /\ n * e <= t - p /\ t - p < (n + 1) * e
    BY <2>1, DivisionRoundsDown
  <2> HIDE DEF n
  <2>4. n + 1 \in Int /\ (n + 1) * e \in Int
    BY <2>1, <2>3
  <2>5. next \in Int /\ next > t
    BY <2>1, <2>2, <2>3, <2>4
  <2>6. Fires(clock, next)
    BY <1>2, <2>2, <2>4 DEF Fires, e, p
  <2>7. next # None
    BY <2>5, NoneAssumption
  <2>8. ASSUME NEW m \in Int, m > t, Fires(clock, m) PROVE next <= m
    <3>1. PICK i \in Int : m = i * e + p
      BY <1>2, <2>8 DEF Fires, e, p
    <3>2. i * e \in Int /\ n * e \in Int
      BY <2>1, <2>3
    <3>3. ~(i * e <= n * e)
      BY <2>1, <2>3, <2>8, <3>1, <3>2
    <3>4. n + 1 <= i
      BY <2>1, <2>3, <3>3, TimesKeepsOrder
    <3>5. (n + 1) * e <= i * e
      BY <2>1, <2>4, <3>4, TimesKeepsOrder
    <3> QED BY <2>1, <2>2, <2>4, <3>1, <3>2, <3>5
  <2> QED BY <1>2, <2>5, <2>6, <2>7, <2>8 DEF next, Scanned
<1>3. CASE clock.kind = "cron"
  <2> DEFINE later == {m \in clock.fires : t < m /\ m <= t + CronScan}
  <2>1. clock.fires \in SUBSET Nat /\ next = IF later = {} THEN None ELSE Earliest(later)
    BY <1>3 DEF Clock, CronNextAfter, NextAfter
  <2>2. \A m : Fires(clock, m) /\ m > t /\ Scanned(clock, t, m) <=> m \in later
    BY <1>3 DEF Fires, Scanned
  <2> HIDE DEF next
  <2>3. CASE later = {}
    BY <2>1, <2>2, <2>3 DEF next
  <2>4. CASE later # {}
    <3>1. next \in later /\ \A m \in later : next <= m
      BY <2>1, <2>4, EarliestMember
    <3>2. next \in Int /\ next > t /\ Fires(clock, next) /\ next # None
      BY <1>3, <2>1, <2>2, <3>1, NoneAssumption DEF Fires
    <3> QED BY <2>2, <3>1, <3>2 DEF next
  <2> QED BY <2>3, <2>4
<1> QED BY <1>1, <1>2, <1>3 DEF Clock

\* What a cron line's scan finds is within it.
LEMMA NextAfterScanned ==
    ASSUME NEW clock \in Clock, NEW t \in Int, NextAfter(clock, t) # None
    PROVE  Scanned(clock, t, NextAfter(clock, t))
<1> SUFFICES ASSUME clock.kind = "cron" PROVE NextAfter(clock, t) <= t + CronScan
  BY DEF Scanned
<1> DEFINE later == {m \in clock.fires : t < m /\ m <= t + CronScan}
<1>1. clock.fires \in SUBSET Nat /\ later # {} /\ NextAfter(clock, t) = Earliest(later)
  BY DEF Clock, CronNextAfter, NextAfter
<1>2. Earliest(later) \in later
  BY <1>1, EarliestMember
<1> QED BY <1>1, <1>2

\* missed, for every clock: a restart finds a due time exactly when the clock fired after the
\* newest run's last write and by now (of a cron line, within the year that is scanned from that
\* write), and then it is the earliest such time (T-5778).
THEOREM MissedIsExact ==
    ASSUME NEW clock \in Clock, NEW last \in Int, NEW t \in Int
    PROVE  LET due == Missed(clock, last, t)
               Since == {m \in Int : last < m /\ m <= t /\ Fires(clock, m) /\ Scanned(clock, last, m)}
           IN  /\ due = None <=> Since = {}
               /\ due # None => due \in Since /\ \A m \in Since : due <= m
<1> DEFINE next == NextAfter(clock, last)
           due == Missed(clock, last, t)
<1>1. /\ next # None => next \in Int /\ next > last /\ Fires(clock, next)
      /\ \A m \in Int : m > last /\ Fires(clock, m) /\ Scanned(clock, last, m) => next # None /\ next <= m
  BY NextAfterIsFirst
<1>2. due = IF next # None /\ next <= t THEN next ELSE None
  BY DEF Missed
<1> HIDE DEF next, due
<1>3. CASE next # None /\ next <= t
  <2>1. due = next /\ next \in Int /\ next > last /\ Fires(clock, next)
    BY <1>1, <1>2, <1>3
  <2>2. Scanned(clock, last, next)
    BY <1>3, NextAfterScanned DEF next
  <2> QED BY <1>1, <1>3, <2>1, <2>2 DEF due
<1>4. CASE ~(next # None /\ next <= t)
  <2>1. ASSUME NEW m \in Int, last < m, m <= t, Fires(clock, m), Scanned(clock, last, m) PROVE FALSE
    <3>1. next # None /\ next <= m /\ next \in Int
      BY <1>1, <2>1
    <3> QED BY <1>4, <2>1, <3>1
  <2> QED BY <1>2, <1>4, <2>1 DEF due
<1> QED BY <1>3, <1>4

\* Arming and clearing a retry keep an entry an entry, and leave its run alone.
LEMMA ArmType ==
    ASSUME NEW e \in Entry, NEW r \in Int, NEW t \in Int
    PROVE  /\ Arm(e, r, t) \in Entry
           /\ Arm(e, r, t).running = e.running
           /\ Arm(e, r, t).run = e.run /\ Arm(e, r, t).runStream = e.runStream
<1> DEFINE kept == {x \in e.retried : t - x < Day}
           earned == /\ ~(e.attempts >= Len(Backoff))
                     /\ Cardinality(kept) < RetriesPerDay
                     /\ e.next = None \/ t + Backoff[e.attempts + 1] < e.next
           at == IF earned THEN t + Backoff[e.attempts + 1] ELSE None
<1>1. e.attempts \in Nat /\ kept \in SUBSET Int
  BY DEF Entry
<1>2. at \in MaybeTime
  <2>1. CASE earned
    <3>1. e.attempts + 1 \in 1..Len(Backoff)
      BY <1>1, <2>1, TimesAssumption
    <3>2. Backoff[e.attempts + 1] \in Nat
      BY <3>1, TimesAssumption
    <3> QED BY <2>1, <3>2 DEF MaybeTime
  <2>2. CASE ~earned
    BY <2>2 DEF MaybeTime
  <2> QED BY <2>1, <2>2
<1>3. Arm(e, r, t) = IF e.armedFor = r THEN e
                     ELSE [e EXCEPT !.armedFor = r, !.retried = kept, !.attempts = @ + 1, !.retry = at]
  BY DEF Arm
<1> HIDE DEF at, earned, kept
<1>4. CASE e.armedFor = r
  BY <1>3, <1>4
<1>5. CASE e.armedFor # r
  <2>1. e.attempts + 1 \in Nat /\ r \in MaybeTime
    BY <1>1 DEF MaybeTime
  <2>2. [e EXCEPT !.armedFor = r, !.retried = kept, !.attempts = @ + 1, !.retry = at] \in Entry
    BY <1>1, <1>2, <2>1, Zenon DEF Entry
  <2> QED BY <1>3, <1>5, <2>2 DEF Entry
<1> QED BY <1>4, <1>5

\* An entry whose run, when there is one in the runner, has an id and a stream.
NamedEntry ==
    {e \in Entry : e.running # None => e.run \in Int /\ e.runStream \in Streams}

\* Entry::arm leaves an entry that names its run.
LEMMA NamedArm ==
    ASSUME NEW e \in NamedEntry, NEW r \in Int, NEW t \in Int
    PROVE  Arm(e, r, t) \in NamedEntry
BY ArmType DEF NamedEntry

\* So does clear_retry.
LEMMA NamedClearRetry == ASSUME NEW e \in NamedEntry PROVE ClearRetry(e) \in NamedEntry
<1>1. ClearRetry(e) \in Entry
  BY Zenon DEF ClearRetry, NamedEntry, Entry, MaybeTime
<1> QED BY <1>1 DEF ClearRetry, NamedEntry, Entry

\* So does queue_due.
LEMMA NamedQueueDue ==
    ASSUME NEW e \in NamedEntry, NEW t \in Int
    PROVE  QueueDue(e, t) \in NamedEntry
<1> DEFINE n == NextAfter(e.clock, t)
           q == IF Free(e) THEN e.next ELSE e.queued
<1>1. n \in MaybeTime /\ q \in MaybeTime
  BY NextAfterType DEF NamedEntry, Entry
<1>2. QueueDue(e, t) = IF e.next = None \/ e.next > t THEN e
                       ELSE [e EXCEPT !.queued = q, !.next = n]
  BY DEF QueueDue
<1> HIDE DEF n, q
<1>3. [e EXCEPT !.queued = q, !.next = n] \in Entry
  BY <1>1, Zenon DEF NamedEntry, Entry
<1>4. [e EXCEPT !.queued = q, !.next = n] \in NamedEntry
  BY <1>3 DEF NamedEntry, Entry
<1> QED BY <1>2, <1>4

\* So does queue_retries.
LEMMA NamedQueueRetry ==
    ASSUME NEW e \in NamedEntry, NEW t \in Int
    PROVE  QueueRetry(e, t) \in NamedEntry
<1>1. /\ [e EXCEPT !.queued = e.retry, !.retry = None, !.retried = @ \cup {t}] \in Entry
      /\ [e EXCEPT !.retry = None] \in Entry
  <2>1. e.retried \cup {t} \in SUBSET Int /\ e.retry \in MaybeTime /\ None \in MaybeTime
    BY DEF NamedEntry, Entry, MaybeTime
  <2> QED BY <2>1, Zenon DEF NamedEntry, Entry
<1>2. /\ [e EXCEPT !.queued = e.retry, !.retry = None, !.retried = @ \cup {t}] \in NamedEntry
      /\ [e EXCEPT !.retry = None] \in NamedEntry
  BY <1>1 DEF NamedEntry, Entry
<1> QED BY <1>2, Zenon DEF QueueRetry

\* An ended run leaves an entry that runs nothing.
LEMMA NamedEndRun ==
    ASSUME NEW e \in NamedEntry, e.running # None, NEW state, NEW t \in Int
    PROVE  EndRun(e, state, t) \in NamedEntry
<1> DEFINE f == IF state = "gone" THEN Arm(e, e.run, t) ELSE e
           g == [f EXCEPT !.running = None, !.runStream = None, !.lastFailed = state # "finished"]
<1>1. f \in NamedEntry
  BY NamedArm DEF NamedEntry
<1>2. EndRun(e, state, t) = g
  BY DEF EndRun
<1> HIDE DEF f
<1>3. None \in MaybeTime /\ None \in MaybeStream /\ (state # "finished") \in BOOLEAN
  BY DEF MaybeTime, MaybeStream
<1>4. g \in Entry
  BY <1>1, <1>3, Zenon DEF NamedEntry, Entry
<1>5. g.running = None
  BY <1>1 DEF NamedEntry, Entry
<1> QED BY <1>2, <1>4, <1>5 DEF NamedEntry

\* A refused run leaves its entry well formed.
LEMMA NamedRefuse == ASSUME NEW e \in NamedEntry PROVE RefuseRun(e) \in NamedEntry
<1>1. RefuseRun(e) \in Entry
  BY Zenon DEF RefuseRun, NamedEntry, Entry, MaybeTime
<1> QED BY <1>1 DEF RefuseRun, NamedEntry, Entry

\* A queued entry that starts names its run and the stream it runs.
LEMMA NamedStart ==
    ASSUME NEW e \in NamedEntry, e.queued # None, NEW t \in Int
    PROVE  StartRun(e, t) \in NamedEntry
<1>1. /\ e.queued \in Int /\ e.stream \in Streams /\ e.stream \in MaybeStream
      /\ None \in MaybeTime /\ t \in MaybeTime /\ e.queued \in MaybeTime
  BY DEF NamedEntry, Entry, MaybeTime, MaybeStream
<1>2. StartRun(e, t) \in Entry
  BY <1>1, Zenon DEF StartRun, NamedEntry, Entry
<1>3. StartRun(e, t).run = e.queued /\ StartRun(e, t).runStream = e.stream
  BY DEF StartRun, NamedEntry, Entry
<1> QED BY <1>1, <1>2, <1>3 DEF NamedEntry

-----------------------------------------------------------------------------
(* The plan.                                                                *)

\* What the pass read from the log has the shape the plan expects.
LogRead ==
    /\ ran \in [Keys -> MaybeTime] \cup {None}
    /\ streams \in [Keys -> MaybeStream] \cup {None}
    /\ failed \in [Keys -> MaybeTime] \cup {None}

\* A plan dates the next run with a time, or with none.
LEMMA FirstDueType ==
    ASSUME NEW p \in Planned, NEW t \in Int
    PROVE  FirstDue(p, t) \in MaybeTime
BY NextAfterType DEF FirstDue, Planned, MaybeTime

\* A clock has one of the two lanes.
LEMMA LaneType ==
    ASSUME NEW clock, NEW t PROVE LaneOf(clock, t) \in {"batch", "short"}
BY DEF LaneOf

\* A pipeline new to the queue enters well formed, whatever the log said.
LEMMA NamedNewEntry ==
    ASSUME LogRead, NEW k \in Keys, NEW p \in Planned, NEW t \in Int
    PROVE  NewEntry(k, p, t) \in NamedEntry
<1>1. FirstOfNew(k, p, t) \in MaybeTime
  <2>1. t \in MaybeTime /\ FirstDue(p, t) \in MaybeTime
    BY FirstDueType DEF MaybeTime
  <2>2. ASSUME ran # None, ran[k] # None PROVE Missed(p.clock, ran[k], t) \in MaybeTime
    <3>1. ran[k] \in Int /\ p.clock \in Clock
      BY <2>2 DEF LogRead, MaybeTime, Planned
    <3> QED BY <3>1, NextAfterType DEF Missed, MaybeTime
  <2> QED BY <2>1, <2>2, Zenon DEF FirstOfNew
<1>2. LaneOf(p.clock, t) \in {"batch", "short"}
  BY LaneType
<1>3. p.stream \in Streams /\ p.clock \in Clock
  BY DEF Planned
<1>4. None \in MaybeTime /\ None \in MaybeStream /\ 0 \in Nat /\ {} \in SUBSET Int
  BY DEF MaybeTime, MaybeStream
<1>5. NewEntry(k, p, t) \in Entry
  BY <1>1, <1>2, <1>3, <1>4, Zenon DEF NewEntry, Entry
<1>6. NewEntry(k, p, t).running = None
  BY DEF NewEntry
<1> QED BY <1>5, <1>6 DEF NamedEntry

\* A changed stream or clock keeps the run under way and its name.
LEMMA NamedChangedEntry ==
    ASSUME NEW e \in NamedEntry, NEW p \in Planned, NEW t \in Int
    PROVE  ChangedEntry(e, p, t) \in NamedEntry
<1> DEFINE n == IF p.replace /\ e.stream # p.stream THEN t ELSE FirstDue(p, t)
<1>1. n \in MaybeTime
  BY FirstDueType DEF MaybeTime
<1>2. LaneOf(p.clock, t) \in {"batch", "short"} /\ p.stream \in Streams /\ p.clock \in Clock
  BY LaneType DEF Planned
<1>3. ChangedEntry(e, p, t) = [e EXCEPT !.stuck = FALSE, !.stream = p.stream, !.clock = p.clock,
                                        !.lane = LaneOf(p.clock, t), !.next = n]
  BY DEF ChangedEntry
<1> HIDE DEF n
<1>4. ChangedEntry(e, p, t) \in Entry
  BY <1>1, <1>2, <1>3, Zenon DEF NamedEntry, Entry
<1>5. /\ ChangedEntry(e, p, t).running = e.running
      /\ ChangedEntry(e, p, t).run = e.run /\ ChangedEntry(e, p, t).runStream = e.runStream
  BY <1>3 DEF NamedEntry, Entry
<1> QED BY <1>4, <1>5 DEF NamedEntry

\* What the log says of the newest run keeps an entry well formed.
LEMMA NamedJudged ==
    ASSUME LogRead, NEW k \in Keys, NEW e \in NamedEntry, NEW t \in Int
    PROVE  Judged(e, k, t) \in NamedEntry
<1>1. ASSUME failed # None, failed[k] # None PROVE failed[k] \in Int
  BY <1>1 DEF LogRead, MaybeTime
<1>2. ASSUME failed # None, failed[k] # None PROVE Arm(e, failed[k], t) \in NamedEntry
  BY <1>1, <1>2, NamedArm
<1> QED BY <1>2, NamedClearRetry, Zenon DEF Judged

\* So do rules that changed.
LEMMA NamedBroughtForward ==
    ASSUME NEW e \in NamedEntry, NEW changed, NEW t \in Int
    PROVE  BroughtForward(e, changed, t) \in NamedEntry
<1> DEFINE f == [e EXCEPT !.retry = Smaller(@, t)]
<1>1. CASE e.retry # None
  <2>1. Smaller(e.retry, t) \in MaybeTime
    BY <1>1 DEF NamedEntry, Entry, MaybeTime, Smaller
  <2>2. f \in Entry
    BY <2>1, Zenon DEF NamedEntry, Entry
  <2>3. f \in NamedEntry
    BY <2>2 DEF NamedEntry, Entry
  <2> QED BY <2>3 DEF BroughtForward
<1>2. CASE e.retry = None
  BY <1>2 DEF BroughtForward
<1> QED BY <1>1, <1>2

\* The plan makes entries of entries.
LEMMA NamedPlan ==
    ASSUME LogRead, entries \in [Keys -> NamedEntry \cup {None}],
           NEW wanted \in [Keys -> Planned \cup {None}], NEW changed, NEW t \in Int
    PROVE  PlannedEntries(wanted, changed, t) \in [Keys -> NamedEntry \cup {None}]
<1> SUFFICES ASSUME NEW k \in Keys
             PROVE  LET e == PlannedEntry(k, wanted[k], t)
                    IN  (IF e = None THEN None ELSE BroughtForward(Judged(e, k, t), changed, t))
                           \in NamedEntry \cup {None}
  BY DEF PlannedEntries
<1>1. PlannedEntry(k, wanted[k], t) \in NamedEntry \cup {None}
  <2>1. CASE wanted[k] = None
    BY <2>1 DEF PlannedEntry
  <2>2. CASE wanted[k] # None /\ entries[k] = None
    <3>1. NewEntry(k, wanted[k], t) \in NamedEntry
      BY <2>2, NamedNewEntry
    <3> QED BY <2>2, <3>1, Zenon DEF PlannedEntry
  <2>3. CASE wanted[k] # None /\ entries[k] # None
    <3>1. entries[k] \in NamedEntry /\ ChangedEntry(entries[k], wanted[k], t) \in NamedEntry
      BY <2>3, NamedChangedEntry
    <3> QED BY <2>3, <3>1, Zenon DEF PlannedEntry
  <2> QED BY <2>1, <2>2, <2>3
<1> QED BY <1>1, NamedJudged, NamedBroughtForward, Zenon

-----------------------------------------------------------------------------
(* Type correctness.  The types alone are not inductive: a run that ends is *)
(* reported with the id and stream its entry holds, which only an entry     *)
(* that runs is sure to have.                                               *)

TypeInv == TypeOK /\ entries \in [Keys -> NamedEntry \cup {None}]

\* The type invariant and the named runs hold at the start.
LEMMA TypeInvInit == Init => TypeInv
<1> SUFFICES ASSUME Init PROVE TypeInv
  OBVIOUS
<1>1. TypeOK
  BY DEF Init, TypeOK, MaybeTime
<1> QED BY <1>1 DEF Init, TypeInv

\* The pass that reads the log keeps the types.
LEMMA TypePassRead == ASSUME TypeInv, PassRead PROVE TypeInv'
<1>1. /\ [k \in Keys |-> IF log[k] = None THEN None ELSE log[k].at] \in [Keys -> MaybeTime]
      /\ [k \in Keys |-> IF log[k] = None THEN None ELSE log[k].stream] \in [Keys -> MaybeStream]
      /\ [k \in Keys |-> IF log[k] # None /\ log[k].failed THEN log[k].run ELSE None]
            \in [Keys -> MaybeTime]
  BY DEF TypeInv, TypeOK, LogRow, MaybeTime, MaybeStream
<1>2. /\ ran' \in [Keys -> MaybeTime] \cup {None}
      /\ streams' \in [Keys -> MaybeStream] \cup {None}
      /\ failed' \in [Keys -> MaybeTime] \cup {None}
  BY <1>1, Zenon DEF PassRead, ReadOr, TypeInv, TypeOK
<1>3. unbound' \subseteq Keys /\ passPc' \in {"idle", "plan"}
  BY UnboundsAssumption DEF PassRead
<1> QED BY <1>2, <1>3 DEF PassRead, TypeInv, TypeOK, tickVars, histVars

\* So does the plan.
LEMMA TypePassPlan ==
    ASSUME TypeInv, NEW wanted \in Plans, NEW fingerprint \in Fingerprints,
           PassPlan(wanted, fingerprint)
    PROVE  TypeInv'
<1>1. entries' \in [Keys -> NamedEntry \cup {None}]
  <2>1. wanted \in [Keys -> Planned \cup {None}]
    BY PlansAssumption
  <2>2. LogRead /\ now \in Int
    BY DEF TypeInv, TypeOK, LogRead
  <2> QED BY <2>1, <2>2, NamedPlan, Zenon DEF PassPlan, TypeInv
<1>2. entries' \in [Keys -> Entry \cup {None}]
  BY <1>1 DEF NamedEntry
<1>3. gone' \subseteq Keys /\ failed' = None /\ plannedAt' \in MaybeTime /\ rules' \in Fingerprints
  BY DEF PassPlan, DroppedRuns, TypeInv, TypeOK, MaybeTime
<1>4. /\ ran' \in [Keys -> MaybeTime] \cup {None}
      /\ streams' \in [Keys -> MaybeStream] \cup {None}
  BY Zenon DEF PassPlan, Kept, TypeInv, TypeOK
<1>5. retryTimes' \in [Keys -> SUBSET Int] /\ passPc' = "idle"
  BY DEF PassPlan, TypeInv, TypeOK
<1> QED BY <1>1, <1>2, <1>3, <1>4, <1>5 DEF PassPlan, TypeInv, TypeOK, tickVars

\* The first locked section of a tick keeps the types.
LEMMA TypeTickBegin == ASSUME TypeInv, TickBegin PROVE TypeInv'
<1>1. entries' \in [Keys -> NamedEntry \cup {None}]
  <2>1. ASSUME NEW k \in Keys, entries[k] # None
        PROVE  [entries[k] EXCEPT !.sweep = FALSE] \in NamedEntry
    <3> DEFINE e == entries[k]
    <3>1. e \in NamedEntry
      BY <2>1 DEF TypeInv
    <3> HIDE DEF e
    <3>2. [e EXCEPT !.sweep = FALSE] \in Entry
      BY <3>1, Zenon DEF NamedEntry, Entry
    <3>3. [e EXCEPT !.sweep = FALSE] \in NamedEntry
      BY <3>1, <3>2 DEF NamedEntry, Entry
    <3> QED BY <3>3 DEF e
  <2> QED BY <2>1 DEF TickBegin, SweptEntries, TypeInv
<1>2. entries' \in [Keys -> Entry \cup {None}]
  BY <1>1 DEF NamedEntry
<1>3. /\ toSweep' \subseteq Keys /\ toPoll' \subseteq Keys /\ gone' = {} /\ tickAt' \in Int
      /\ polled' \in [Keys -> {"running", "finished", "gone", None}]
  BY DEF TickBegin, Sweeps, TypeInv, TypeOK
<1> QED BY <1>1, <1>2, <1>3 DEF TickBegin, TypeInv, TypeOK, histVars

\* A delete changes what the runner holds under one key.
LEMMA TypeDelete ==
    ASSUME TypeInv, NEW k \in Keys, NEW outcome, Delete(k, outcome)
    PROVE  runner' \in [Keys -> Stream \cup {None}] /\ unremoved' \subseteq Keys
BY DEF Delete, TypeInv, TypeOK

\* So does a sweep.
LEMMA TypeTickSweep == ASSUME TypeInv, NEW k \in Keys, TickSweep(k) PROVE TypeInv'
<1>1. runner' \in [Keys -> Stream \cup {None}] /\ unremoved' \subseteq Keys
  BY TypeDelete DEF TickSweep
<1> QED BY <1>1 DEF TickSweep, TypeInv, TypeOK, queueVars

\* So does a state the runner answers.
LEMMA TypeTickPoll == ASSUME TypeInv, NEW k \in Keys, TickPoll(k) PROVE TypeInv'
<1>1. polled' \in [Keys -> {"running", "finished", "gone", None}]
  <2>1. PICK state : state \in {"running", "finished", "gone"} /\ polled' = [polled EXCEPT ![k] = state]
    <3>1. StateOf(k) \in {"running", "finished", "gone"}
      BY Zenon DEF StateOf
    <3> QED BY <3>1 DEF TickPoll
  <2> QED BY <2>1 DEF TypeInv, TypeOK
<1> QED BY <1>1 DEF TickPoll, TypeInv, TypeOK, queueVars, histVars

\* The queue after the ends and the due times, and after its lanes are served.
LEMMA NamedDue ==
    ASSUME TypeInv, NEW t \in Int
    PROVE  Due(t) \in [Keys -> NamedEntry \cup {None}]
<1> SUFFICES ASSUME NEW k \in Keys, entries[k] # None
             PROVE  QueueRetry(QueueDue(IF EndsNow(k, t) THEN EndRun(entries[k], polled[k], t)
                                        ELSE entries[k], t), t) \in NamedEntry
  BY DEF Due
<1> DEFINE e == IF EndsNow(k, t) THEN EndRun(entries[k], polled[k], t) ELSE entries[k]
<1>1. entries[k] \in NamedEntry
  BY DEF TypeInv
<1>2. e \in NamedEntry
  BY <1>1, NamedEndRun DEF EndsNow, Running
<1> HIDE DEF e
<1>3. QueueDue(e, t) \in NamedEntry
  BY <1>2, NamedQueueDue
<1>4. QueueRetry(QueueDue(e, t), t) \in NamedEntry
  BY <1>3, NamedQueueRetry
<1> QED BY <1>4 DEF e

\* What a lane starts is queued and runs nothing.
LEMMA StartsQueued ==
    ASSUME NEW q \in [Keys -> NamedEntry \cup {None}], NEW t, NEW k \in StartsNow(q, t)
    PROVE  k \in Keys /\ q[k] \in NamedEntry /\ q[k].queued # None
<1>1. k \in Waiting(q, "batch") \cup Waiting(q, "short")
  BY DEF StartsNow, Starts
<1> QED BY <1>1 DEF Waiting

\* settle leaves every entry well formed.
LEMMA NamedSettled ==
    ASSUME NEW q \in [Keys -> NamedEntry \cup {None}], NEW t \in Int
    PROVE  Settled(q, t) \in [Keys -> NamedEntry \cup {None}]
<1> SUFFICES ASSUME NEW k \in Keys
             PROVE  (IF k \in Refused(q, t) THEN RefuseRun(q[k])
                     ELSE IF k \in StartsNow(q, t) THEN StartRun(q[k], t)
                     ELSE q[k]) \in NamedEntry \cup {None}
  BY DEF Settled
<1>1. CASE k \in Refused(q, t)
  <2>1. q[k] \in NamedEntry
    BY <1>1 DEF Refused, Waiting
  <2> QED BY <1>1, <2>1, NamedRefuse
<1>2. CASE k \notin Refused(q, t) /\ k \in StartsNow(q, t)
  BY <1>2, StartsQueued, NamedStart
<1>3. CASE k \notin Refused(q, t) /\ k \notin StartsNow(q, t)
  BY <1>3
<1> QED BY <1>1, <1>2, <1>3

\* settle keeps the types: each end and each start it hands on names its run and stream.
LEMMA TypeTickSettle == ASSUME TypeInv, TickSettle PROVE TypeInv'
<1> DEFINE q == Due(tickAt)
<1>1. tickAt \in Int /\ q \in [Keys -> NamedEntry \cup {None}]
  BY NamedDue DEF TypeInv, TypeOK
<1> HIDE DEF q
<1>2. entries' \in [Keys -> NamedEntry \cup {None}]
  BY <1>1, NamedSettled, Zenon DEF TickSettle, q
<1>3. entries' \in [Keys -> Entry \cup {None}]
  BY <1>2 DEF NamedEntry
<1>4. ends' \subseteq RunEnd
  <2>1. ASSUME NEW k \in Keys, EndsNow(k, tickAt) PROVE EndReport(k) \in RunEnd
    <3>1. entries[k] \in NamedEntry /\ entries[k].running # None
      BY <2>1 DEF EndsNow, Running, TypeInv
    <3>2. entries[k].run \in Int /\ entries[k].runStream \in Streams
      BY <3>1 DEF NamedEntry
    <3>3. (polled[k] = "finished") \in BOOLEAN
      OBVIOUS
    <3> QED BY <3>2, <3>3, Zenon DEF EndReport, RunEnd
  <2> QED BY <2>1 DEF TickSettle, TypeInv, TypeOK
<1>5. toStart' \subseteq RunStart
  <2>1. ASSUME NEW k \in StartsNow(q, tickAt)
        PROVE  [key |-> k, run |-> q[k].queued, stream |-> q[k].stream] \in RunStart
    <3>1. k \in Keys /\ q[k] \in NamedEntry /\ q[k].queued # None
      BY <1>1, <2>1, StartsQueued, Zenon
    <3>2. q[k].queued \in Int /\ q[k].stream \in Streams
      BY <3>1 DEF NamedEntry, Entry, MaybeTime
    <3> QED BY <3>1, <3>2 DEF RunStart
  <2>2. toStart' = {[key |-> k, run |-> q[k].queued, stream |-> q[k].stream] :
                       k \in StartsNow(q, tickAt)}
    BY Zenon DEF TickSettle, q
  <2> QED BY <2>1, <2>2
<1>6. retryTimes' \in [Keys -> SUBSET Int]
  BY <1>1 DEF TickSettle, TypeInv, TypeOK
<1>7. /\ toDelete' \subseteq Keys /\ tickPc' = "delete"
      /\ polled' \in [Keys -> {"running", "finished", "gone", None}]
  BY DEF TickSettle
<1> QED BY <1>2, <1>3, <1>4, <1>5, <1>6, <1>7 DEF TickSettle, TypeInv, TypeOK

\* The delete of an ended run keeps the types, also when it holds the pipeline.
LEMMA TypeTickDelete == ASSUME TypeInv, NEW k \in Keys, TickDelete(k) PROVE TypeInv'
<1>1. runner' \in [Keys -> Stream \cup {None}] /\ unremoved' \subseteq Keys
  BY TypeDelete DEF TickDelete
<1>2. entries' \in [Keys -> NamedEntry \cup {None}]
  <2>1. CASE UNCHANGED entries
    BY <2>1 DEF TypeInv
  <2>2. CASE Stuck(k) /\ entries[k] # None
    <3> DEFINE e == entries[k]
               f == [e EXCEPT !.stuck = TRUE, !.queued = None, !.lastFailed = TRUE]
    <3>1. e \in NamedEntry
      BY <2>2 DEF TypeInv
    <3>2. entries' = [entries EXCEPT ![k] = f]
      BY <2>2, <3>1 DEF Stuck, TypeInv
    <3> HIDE DEF e
    <3>3. f \in Entry
      BY <3>1, Zenon DEF NamedEntry, Entry, MaybeTime
    <3>4. f \in NamedEntry
      BY <3>1, <3>3 DEF NamedEntry, Entry
    <3> QED BY <3>2, <3>4 DEF TypeInv
  <2>3. CASE Stuck(k) /\ entries[k] = None
    BY <2>3 DEF Stuck, TypeInv
  <2> QED BY <2>1, <2>2, <2>3, Zenon DEF TickDelete
<1>3. entries' \in [Keys -> Entry \cup {None}]
  BY <1>2 DEF NamedEntry
<1> QED BY <1>1, <1>2, <1>3 DEF TickDelete, TypeInv, TypeOK

\* Taking the ends keeps the types.
LEMMA TypeTickTakeEnds == ASSUME TypeInv, TickTakeEnds PROVE TypeInv'
BY DEF TickTakeEnds, TypeInv, TypeOK, histVars

\* So does filing an end with the run log.
LEMMA TypeTickTell == ASSUME TypeInv, NEW end \in toTell, TickTell(end) PROVE TypeInv'
<1>1. log' \in [Keys -> LogRow \cup {None}]
  <2>1. end.key \in Keys /\ end.stream \in MaybeStream
    BY DEF TypeInv, TypeOK, RunEnd, MaybeStream
  <2>2. CASE log' = log
    BY <2>2 DEF TypeInv, TypeOK
  <2>3. CASE log[end.key] # None /\ log' = [log EXCEPT ![end.key].stream = end.stream]
    <3> DEFINE row == log[end.key]
               new == [row EXCEPT !.stream = end.stream]
    <3>1. row \in LogRow
      BY <2>1, <2>3 DEF TypeInv, TypeOK
    <3>2. log' = [log EXCEPT ![end.key] = new]
      BY <2>1, <2>3 DEF TypeInv, TypeOK
    <3> HIDE DEF row
    <3>3. new \in LogRow
      BY <2>1, <3>1, Zenon DEF LogRow
    <3> QED BY <3>2, <3>3 DEF TypeInv, TypeOK
  <2> QED BY <2>2, <2>3, Zenon DEF TickTell
<1>2. toTell' \subseteq RunEnd
  BY DEF TickTell, TypeInv, TypeOK
<1> QED BY <1>1, <1>2 DEF TickTell, TypeInv, TypeOK, queueVars, histVars

\* A start the runner took keeps the types.
LEMMA TypeLoad ==
    ASSUME TypeInv, NEW start \in RunStart, Load(start)
    PROVE  runner' \in [Keys -> Stream \cup {None}] /\ unremoved' \subseteq Keys
<1>1. [run |-> start.run, stream |-> start.stream, active |-> TRUE] \in Stream
  BY DEF RunStart, Stream
<1> QED BY <1>1 DEF Load, RunStart, TypeInv, TypeOK

\* failed_to_start leaves every entry well formed.
LEMMA TypeFailedToStart ==
    ASSUME TypeInv, NEW k \in Keys, NEW t \in Int, FailedToStart(k, t)
    PROVE  entries' \in [Keys -> NamedEntry \cup {None}]
<1>1. CASE entries[k] = None
  BY <1>1 DEF FailedToStart, TypeInv
<1>2. CASE entries[k] # None
  <2> DEFINE e == entries[k]
             f == IF e.run = None THEN e ELSE Arm(e, e.run, t)
             g == [f EXCEPT !.running = None, !.lastFailed = TRUE]
  <2>1. e \in NamedEntry
    BY <1>2 DEF TypeInv
  <2>2. entries' = [entries EXCEPT ![k] = g]
    BY <1>2 DEF FailedToStart
  <2> HIDE DEF e
  <2>3. f \in NamedEntry
    BY <2>1, NamedArm DEF NamedEntry, Entry, MaybeTime
  <2> HIDE DEF f
  <2>4. g \in Entry
    BY <2>3, Zenon DEF NamedEntry, Entry, MaybeTime
  <2>5. g.running = None
    BY <2>3 DEF NamedEntry, Entry
  <2>6. g \in NamedEntry
    BY <2>4, <2>5 DEF NamedEntry
  <2> QED BY <2>2, <2>6 DEF TypeInv
<1> QED BY <1>1, <1>2

\* A start keeps the types, taken, refused or unanswered.
LEMMA TypeTickStart == ASSUME TypeInv, NEW start \in toStart, TickStart(start) PROVE TypeInv'
<1>1. start \in RunStart /\ start.key \in Keys /\ tickAt \in Int
  BY DEF TypeInv, TypeOK, RunStart
<1>2. runner' \in [Keys -> Stream \cup {None}] /\ unremoved' \subseteq Keys
  BY <1>1, TypeLoad DEF TickStart, TypeInv, TypeOK
<1>3. entries' \in [Keys -> NamedEntry \cup {None}]
  BY <1>1, TypeFailedToStart DEF TickStart, TypeInv
<1>4. entries' \in [Keys -> Entry \cup {None}]
  BY <1>3 DEF NamedEntry
<1>5. toStart' \subseteq RunStart /\ toClean' \subseteq Keys
  BY <1>1 DEF TickStart, TypeInv, TypeOK
<1> QED BY <1>2, <1>3, <1>4, <1>5 DEF TickStart, TypeInv, TypeOK

\* So does the delete of a failed start.
LEMMA TypeTickClean == ASSUME TypeInv, NEW k \in Keys, TickClean(k) PROVE TypeInv'
<1>1. runner' \in [Keys -> Stream \cup {None}] /\ unremoved' \subseteq Keys
  BY TypeDelete DEF TickClean
<1> QED BY <1>1 DEF TickClean, TypeInv, TypeOK, queueVars

\* So does the end of a tick.
LEMMA TypeTickEnd == ASSUME TypeInv, TickEnd PROVE TypeInv'
BY DEF TickEnd, TypeInv, TypeOK, queueVars, histVars

\* run_now keeps the types.
LEMMA TypeRunNow == ASSUME TypeInv, NEW k \in Keys, RunNow(k) PROVE TypeInv'
<1> DEFINE e == entries[k]
           f == [e EXCEPT !.queued = now]
<1>1. e \in NamedEntry /\ now \in MaybeTime
  BY DEF RunNow, TypeInv, TypeOK, MaybeTime
<1>2. entries' = [entries EXCEPT ![k] = f]
  BY DEF RunNow, TypeInv
<1> HIDE DEF e
<1>3. f \in Entry
  BY <1>1, Zenon DEF NamedEntry, Entry
<1>4. f \in NamedEntry
  BY <1>1, <1>3 DEF NamedEntry, Entry
<1>5. entries' \in [Keys -> NamedEntry \cup {None}] /\ entries' \in [Keys -> Entry \cup {None}]
  BY <1>2, <1>3, <1>4 DEF TypeInv, TypeOK
<1> QED BY <1>5 DEF RunNow, TypeInv, TypeOK, tickVars, histVars

\* A run that ends and its last line keep the types.
LEMMA TypeRunFinishes == ASSUME TypeInv, NEW k \in Keys, RunFinishes(k) PROVE TypeInv'
<1>1. runner[k] \in Stream /\ now \in Int
  BY DEF RunFinishes, TypeInv, TypeOK
<1>2. runner' \in [Keys -> Stream \cup {None}]
  <2> DEFINE r == runner[k]
             d == [r EXCEPT !.active = FALSE]
  <2>1. runner' = [runner EXCEPT ![k] = d]
    BY DEF RunFinishes, TypeInv, TypeOK
  <2>2. r \in Stream
    BY <1>1
  <2> HIDE DEF r
  <2>3. d \in Stream
    BY <2>2, Zenon DEF Stream
  <2> QED BY <2>1, <2>3 DEF TypeInv, TypeOK
<1>3. log' \in [Keys -> LogRow \cup {None}]
  <2>1. PICK outside \in BOOLEAN :
          log' = [log EXCEPT ![k] =
                    [at |-> now, run |-> runner[k].run, failed |-> outside,
                     stream |-> IF log[k] # None /\ log[k].run = runner[k].run
                                THEN log[k].stream ELSE None]]
    BY DEF RunFinishes
  <2>2. runner[k].run \in Int
    BY <1>1 DEF Stream
  <2>3. (IF log[k] # None /\ log[k].run = runner[k].run THEN log[k].stream ELSE None) \in MaybeStream
    BY DEF TypeInv, TypeOK, LogRow, MaybeStream
  <2> QED BY <1>1, <2>1, <2>2, <2>3, Zenon DEF TypeInv, TypeOK, LogRow
<1> QED BY <1>2, <1>3 DEF RunFinishes, TypeInv, TypeOK, queueVars, tickVars, histVars

\* Restarts and time keep the types.
LEMMA TypeRest == ASSUME TypeInv, RunnerRestarts \/ Crash \/ Advance PROVE TypeInv'
<1>1. CASE RunnerRestarts
  BY <1>1 DEF RunnerRestarts, TypeInv, TypeOK, queueVars, tickVars
<1>2. CASE Crash
  BY <1>2 DEF Crash, EmptyQueue, TypeInv, TypeOK, MaybeTime
<1>3. CASE Advance
  BY <1>3 DEF Advance, TypeInv, TypeOK, queueVars, tickVars, histVars
<1> QED BY <1>1, <1>2, <1>3

\* Every step keeps the types.
LEMMA TypeStep == TypeInv /\ [Next]_vars => TypeInv'
<1> SUFFICES ASSUME TypeInv, [Next]_vars PROVE TypeInv'
  OBVIOUS
<1>1. CASE Tick
  BY <1>1, TypeTickBegin, TypeTickSettle, TypeTickTakeEnds, TypeTickEnd, TypeTickSweep,
     TypeTickPoll, TypeTickDelete, TypeTickClean, TypeTickTell, TypeTickStart DEF Tick
<1>2. CASE Pass
  BY <1>2, TypePassRead, TypePassPlan DEF Pass
<1>3. CASE Outside \/ Advance
  BY <1>3, TypeRest, TypeRunFinishes DEF Outside
<1>4. CASE \E k \in Keys : RunNow(k)
  BY <1>4, TypeRunNow
<1>5. CASE UNCHANGED vars
  BY <1>5 DEF vars, TypeInv, TypeOK, queueVars, tickVars, histVars
<1> QED BY <1>1, <1>2, <1>3, <1>4, <1>5 DEF Next

\* The types and the named runs hold in every behaviour.
LEMMA TypeInvariant == Spec => []TypeInv
BY TypeInvInit, TypeStep, PTL DEF Spec

\* The type invariant of the run queue holds in every behaviour; with it every run handed to the
\* runner and every end told to the listener carries an id and a stream, whatever a plan changed
\* between the start and the end (run, run_stream).
THEOREM TypeCorrect == Spec => []TypeOK
<1>1. TypeInv => TypeOK
  BY DEF TypeInv
<1> QED BY <1>1, TypeInvariant, PTL

-----------------------------------------------------------------------------
(* Which steps touch the run an entry holds.                                *)

SameRun(e, f) == f.running = e.running /\ f.run = e.run /\ f.runStream = e.runStream

\* Arming a retry does not touch the run an entry holds.
LEMMA SameRunArm ==
    ASSUME NEW e \in NamedEntry, NEW r \in Int, NEW t \in Int PROVE SameRun(e, Arm(e, r, t))
BY ArmType DEF NamedEntry, SameRun

\* Nor does what comes due.
LEMMA SameRunDue ==
    ASSUME NEW e \in NamedEntry, NEW t \in Int PROVE SameRun(e, QueueRetry(QueueDue(e, t), t))
<1>1. SameRun(e, QueueDue(e, t))
  BY DEF QueueDue, SameRun, NamedEntry, Entry
<1>2. QueueDue(e, t) \in NamedEntry
  BY NamedQueueDue
<1>3. SameRun(QueueDue(e, t), QueueRetry(QueueDue(e, t), t))
  <2> DEFINE f == QueueDue(e, t)
  <2>1. f \in Entry
    BY <1>2 DEF NamedEntry
  <2> HIDE DEF f
  <2>2. /\ SameRun(f, [f EXCEPT !.queued = f.retry, !.retry = None, !.retried = @ \cup {t}])
        /\ SameRun(f, [f EXCEPT !.retry = None]) /\ SameRun(f, f)
    BY <2>1 DEF SameRun, Entry
  <2>3. SameRun(f, QueueRetry(f, t))
    BY <2>2, Zenon DEF QueueRetry
  <2> QED BY <2>3 DEF f
<1> QED BY <1>1, <1>3 DEF SameRun

\* Nor do a changed stream, the log, or rules that changed.
LEMMA SameRunPlan ==
    ASSUME LogRead, NEW k \in Keys, NEW e \in NamedEntry, NEW p \in Planned, NEW changed,
           NEW t \in Int
    PROVE  /\ SameRun(e, ChangedEntry(e, p, t))
           /\ SameRun(e, Judged(e, k, t))
           /\ SameRun(e, BroughtForward(e, changed, t))
<1>1. SameRun(e, ChangedEntry(e, p, t))
  BY DEF ChangedEntry, SameRun, NamedEntry, Entry
<1>2. SameRun(e, Judged(e, k, t))
  <2>1. SameRun(e, ClearRetry(e)) /\ SameRun(e, e)
    BY DEF ClearRetry, SameRun, NamedEntry, Entry
  <2>2. ASSUME failed # None, failed[k] # None PROVE SameRun(e, Arm(e, failed[k], t))
    <3>1. failed[k] \in Int
      BY <2>2 DEF LogRead, MaybeTime
    <3> QED BY <3>1, SameRunArm
  <2> QED BY <2>1, <2>2, Zenon DEF Judged
<1>3. SameRun(e, BroughtForward(e, changed, t))
  BY DEF BroughtForward, SameRun, NamedEntry, Entry
<1> QED BY <1>1, <1>2, <1>3

\* A plan keeps the run of every pipeline it keeps, and a pipeline it adds has none.
LEMMA PlanRuns ==
    ASSUME TypeInv, NEW wanted \in Plans, NEW changed, NEW t \in Int, NEW k \in Keys
    PROVE  LET f == PlannedEntries(wanted, changed, t)[k]
           IN  /\ wanted[k] = None => f = None
               /\ wanted[k] # None /\ entries[k] = None /\ f # None => f.running = None
               /\ wanted[k] # None /\ entries[k] # None => f # None /\ SameRun(entries[k], f)
<1> DEFINE e == PlannedEntry(k, wanted[k], t)
           f == PlannedEntries(wanted, changed, t)[k]
<1>1. wanted[k] \in Planned \cup {None} /\ LogRead
  BY PlansAssumption DEF TypeInv, TypeOK, LogRead
<1>2. f = IF e = None THEN None ELSE BroughtForward(Judged(e, k, t), changed, t)
  BY DEF PlannedEntries
<1>3. ASSUME e \in NamedEntry, wanted[k] # None PROVE SameRun(e, BroughtForward(Judged(e, k, t), changed, t))
  <2>1. SameRun(e, Judged(e, k, t)) /\ Judged(e, k, t) \in NamedEntry
    BY <1>1, <1>3, SameRunPlan, NamedJudged
  <2>2. SameRun(Judged(e, k, t), BroughtForward(Judged(e, k, t), changed, t))
    BY <1>1, <1>3, <2>1, SameRunPlan
  <2> QED BY <2>1, <2>2 DEF SameRun
<1>4. ASSUME e \in NamedEntry, wanted[k] # None PROVE BroughtForward(Judged(e, k, t), changed, t) \in NamedEntry
  BY <1>1, <1>4, NamedJudged, NamedBroughtForward
<1>5. CASE wanted[k] = None
  BY <1>2, <1>5 DEF PlannedEntry
<1>6. CASE wanted[k] # None /\ entries[k] = None
  <2>1. e = NewEntry(k, wanted[k], t)
    BY <1>6, Zenon DEF PlannedEntry
  <2>2. e \in NamedEntry /\ e.running = None
    BY <1>1, <1>6, <2>1, NamedNewEntry DEF NewEntry
  <2> QED BY <1>2, <1>3, <1>6, <2>2 DEF SameRun
<1>7. CASE wanted[k] # None /\ entries[k] # None
  <2>1. entries[k] \in NamedEntry
    BY <1>7 DEF TypeInv
  <2>2. e = entries[k] \/ e = ChangedEntry(entries[k], wanted[k], t)
    BY <1>7, Zenon DEF PlannedEntry
  <2>3. e \in NamedEntry /\ SameRun(entries[k], e)
    <3>1. SameRun(entries[k], entries[k])
      BY DEF SameRun
    <3> QED BY <1>1, <1>7, <2>1, <2>2, <3>1, NamedChangedEntry, SameRunPlan
  <2>4. e # None /\ BroughtForward(Judged(e, k, t), changed, t) # None
    BY <1>4, <1>7, <2>3, NoneIsNoEntry DEF NamedEntry
  <2> QED BY <1>2, <1>3, <1>7, <2>3, <2>4 DEF SameRun
<1> QED BY <1>5, <1>6, <1>7

\* What settle does to one entry's run: an end takes it away, a start gives one, and otherwise
\* it stays.
LEMMA SettleRuns ==
    ASSUME TypeInv, TickSettle, NEW k \in Keys
    PROVE  /\ entries[k] = None => entries'[k] = None
           /\ entries[k] # None => entries'[k] # None
           /\ Running(k) /\ ~EndsNow(k, tickAt) =>
                 /\ k \notin StartsNow(Due(tickAt), tickAt)
                 /\ SameRun(entries[k], entries'[k])
           /\ k \notin StartsNow(Due(tickAt), tickAt) /\ entries[k] # None
                 /\ (EndsNow(k, tickAt) \/ ~Running(k)) => entries'[k].running = None
           /\ k \in StartsNow(Due(tickAt), tickAt) =>
                 /\ entries'[k] # None /\ entries'[k].running # None
                 /\ entries'[k].run = Due(tickAt)[k].queued
                 /\ entries'[k].runStream = Due(tickAt)[k].stream
<1> DEFINE t == tickAt
           q == Due(t)
           e == IF EndsNow(k, t) THEN EndRun(entries[k], polled[k], t) ELSE entries[k]
<1>1. t \in Int /\ q \in [Keys -> NamedEntry \cup {None}]
  BY NamedDue DEF TypeInv, TypeOK
<1>2. entries'[k] = IF k \in Refused(q, t) THEN RefuseRun(q[k])
                    ELSE IF k \in StartsNow(q, t) THEN StartRun(q[k], t) ELSE q[k]
  BY DEF TickSettle, Settled
<1>3. q[k] = IF entries[k] = None THEN None ELSE QueueRetry(QueueDue(e, t), t)
  BY DEF Due
<1>4. k \in Refused(q, t) => q[k] # None /\ q[k].running = None /\ k \notin StartsNow(q, t)
  BY DEF Refused, Waiting, StartsNow, Starts
<1>5. k \in StartsNow(q, t) =>
        /\ q[k] # None /\ q[k].running = None /\ q[k].queued # None /\ q[k] \in NamedEntry
  BY <1>1 DEF StartsNow, Starts, Waiting
<1>6. CASE entries[k] = None
  BY <1>2, <1>3, <1>4, <1>5, <1>6 DEF Running, EndsNow
<1>7. CASE entries[k] # None
  <2>1. entries[k] \in NamedEntry
    BY <1>7 DEF TypeInv
  <2>2. e \in NamedEntry /\ (EndsNow(k, t) => e.running = None)
    <3>1. CASE EndsNow(k, t)
      <4>1. entries[k].running # None
        BY <3>1 DEF EndsNow, Running
      <4>2. EndRun(entries[k], polled[k], t) \in NamedEntry
        BY <1>1, <2>1, <4>1, NamedEndRun
      <4>3. EndRun(entries[k], polled[k], t).running = None
        <5> DEFINE f == IF polled[k] = "gone" THEN Arm(entries[k], entries[k].run, t) ELSE entries[k]
        <5>1. f \in NamedEntry
          BY <1>1, <2>1, <4>1, NamedArm DEF NamedEntry
        <5>2. EndRun(entries[k], polled[k], t) =
                [f EXCEPT !.running = None, !.runStream = None,
                          !.lastFailed = polled[k] # "finished"]
          BY DEF EndRun
        <5> HIDE DEF f
        <5> QED BY <5>1, <5>2 DEF NamedEntry, Entry
      <4> QED BY <3>1, <4>2, <4>3
    <3>2. CASE ~EndsNow(k, t)
      BY <2>1, <3>2
    <3> QED BY <3>1, <3>2
  <2> HIDE DEF e
  <2>3. SameRun(e, q[k]) /\ q[k] \in NamedEntry /\ q[k] # None
    BY <1>1, <1>3, <1>7, <2>2, SameRunDue, NamedQueueDue, NamedQueueRetry, NoneIsNoEntry
       DEF NamedEntry
  <2>4. RefuseRun(q[k]) # None /\ RefuseRun(q[k]).running = q[k].running
    BY <2>3, NamedRefuse, NoneIsNoEntry DEF RefuseRun, NamedEntry, Entry
  <2>5. q[k].queued # None =>
          /\ StartRun(q[k], t) # None /\ StartRun(q[k], t).running # None
          /\ StartRun(q[k], t).run = q[k].queued /\ StartRun(q[k], t).runStream = q[k].stream
    <3> SUFFICES ASSUME q[k].queued # None
                 PROVE  /\ StartRun(q[k], t) # None /\ StartRun(q[k], t).running # None
                        /\ StartRun(q[k], t).run = q[k].queued
                        /\ StartRun(q[k], t).runStream = q[k].stream
      OBVIOUS
    <3>1. StartRun(q[k], t) \in NamedEntry
      BY <1>1, <2>3, NamedStart
    <3>2. StartRun(q[k], t).running = t /\ StartRun(q[k], t).run = q[k].queued
          /\ StartRun(q[k], t).runStream = q[k].stream
      BY <2>3 DEF StartRun, NamedEntry, Entry
    <3> QED BY <1>1, <3>1, <3>2, NoneIsNoEntry, NoneAssumption DEF NamedEntry
  <2> HIDE DEF q, t
  <2>6. CASE k \in Refused(q, t)
    BY <1>2, <1>4, <1>7, <2>2, <2>3, <2>4, <2>6 DEF SameRun, Running, e, q, t
  <2>7. CASE k \in StartsNow(q, t)
    BY <1>2, <1>4, <1>5, <1>7, <2>2, <2>3, <2>5, <2>7 DEF SameRun, Running, e, q, t
  <2>8. CASE k \notin Refused(q, t) /\ k \notin StartsNow(q, t)
    BY <1>2, <1>7, <2>2, <2>3, <2>8 DEF SameRun, Running, e, q, t
  <2> QED BY <2>6, <2>7, <2>8
<1> QED BY <1>6, <1>7

-----------------------------------------------------------------------------
(* No run is forgotten in the runner, and the runner holds the run the      *)
(* queue names.  Neither is inductive as it stands: a start the tick still  *)
(* has to send must belong to an entry that runs it, or to a run that is    *)
(* `gone`; each list of the tick is empty outside its phase; and `sweep`    *)
(* is too weak a promise, since a plan may drop an entry before its sweep.  *)

\* Each list is empty outside the tick's phase that works it off.
PhaseInv ==
    /\ tickPc # "sweep" => toSweep = {}
    /\ tickPc # "delete" => toDelete = {}
    /\ tickPc \in {"idle", "sweep"} => toStart = {}
    /\ tickPc # "tell" => toClean = {}
    /\ \A i, j \in toClean : i = j

\* A start the tick still has to send is the run its entry holds, or one that is gone by now.
StartInv ==
    /\ \A s, u \in toStart : s.key = u.key => s = u
    /\ \A s \in toStart :
          /\ Running(s.key) \/ s.key \in gone
          /\ Running(s.key) => entries[s.key].run = s.run /\ entries[s.key].runStream = s.stream

\* NoForgottenRun without the promise of a sweep.
TrackedInv ==
    \A k \in Keys : runner[k] # None =>
        Running(k) \/ k \in gone \cup toSweep \cup toDelete \cup toClean \cup unremoved

HoldInv == TypeInv /\ PhaseInv /\ StartInv /\ TrackedInv /\ RunnerHoldsNamedRun

\* No entry's run starts, ends or changes.
RunsKept ==
    \A k \in Keys : /\ Running(k)' <=> Running(k)
                    /\ Running(k) => SameRun(entries[k], entries'[k])

\* A step that leaves the entries alone keeps their runs.
LEMMA SameEntriesKeepRuns == ASSUME UNCHANGED entries PROVE RunsKept
BY DEF RunsKept, Running, SameRun

\* The sweeps take over what was gone.
LEMMA HoldTickBegin ==
    ASSUME HoldInv, TickBegin
    PROVE  PhaseInv' /\ StartInv' /\ TrackedInv' /\ RunnerHoldsNamedRun'
<1>1. RunsKept
  <2> SUFFICES ASSUME NEW k \in Keys, entries[k] # None
               PROVE  entries'[k] # None /\ SameRun(entries[k], entries'[k])
    BY DEF RunsKept, Running, SameRun, TickBegin, SweptEntries
  <2>1. entries[k] \in NamedEntry /\ entries'[k] \in NamedEntry \cup {None}
    BY TypeTickBegin DEF HoldInv, TypeInv
  <2>2. entries'[k] = entries[k] \/ entries'[k] = [entries[k] EXCEPT !.sweep = FALSE]
    BY DEF TickBegin, SweptEntries
  <2>3. SameRun(entries[k], entries'[k])
    BY <2>1, <2>2 DEF SameRun, NamedEntry, Entry
  <2>4. [entries[k] EXCEPT !.sweep = FALSE] \in Entry
    BY <2>1, Zenon DEF NamedEntry, Entry
  <2> QED BY <2>2, <2>3, <2>4, NoneIsNoEntry
<1>2. PhaseInv'
  BY DEF TickBegin, HoldInv, PhaseInv
<1>3. StartInv'
  BY DEF TickBegin, HoldInv, PhaseInv, StartInv
<1>4. TrackedInv'
  <2> SUFFICES ASSUME NEW k \in Keys, runner[k] # None
               PROVE  Running(k)' \/ k \in toSweep' \cup toDelete \cup toClean \cup unremoved
    BY DEF TrackedInv, TickBegin, histVars
  <2>1. gone \subseteq toSweep' /\ toSweep = {}
    BY DEF TickBegin, Sweeps, HoldInv, PhaseInv
  <2> QED BY <1>1, <2>1 DEF HoldInv, TrackedInv, RunsKept
<1>5. RunnerHoldsNamedRun'
  BY <1>1 DEF TickBegin, HoldInv, RunnerHoldsNamedRun, Starting, RunsKept, SameRun
<1> QED BY <1>2, <1>3, <1>4, <1>5

\* A delete leaves the runner without the run, or the run on the list of those it kept.
LEMMA DeleteTracks ==
    ASSUME HoldInv, NEW k \in Keys, NEW outcome, Delete(k, outcome)
    PROVE  /\ \A j \in Keys : runner'[j] # None => runner'[j] = runner[j]
           /\ runner'[k] # None => k \in unremoved'
           /\ \A j \in Keys \ {k} : j \in unremoved' <=> j \in unremoved
BY DEF Delete, HoldInv, TypeInv, TypeOK

\* A sweep deletes a leftover or leaves it on the list of those the runner kept.
LEMMA HoldTickSweep ==
    ASSUME HoldInv, NEW k \in Keys, TickSweep(k)
    PROVE  PhaseInv' /\ StartInv' /\ TrackedInv' /\ RunnerHoldsNamedRun'
<1>1. /\ \A j \in Keys : runner'[j] # None => runner'[j] = runner[j]
      /\ runner'[k] # None => k \in unremoved'
      /\ \A j \in Keys \ {k} : j \in unremoved' <=> j \in unremoved
  BY DeleteTracks DEF TickSweep
<1>2. PhaseInv' /\ StartInv'
  BY DEF TickSweep, HoldInv, PhaseInv, StartInv, Running, queueVars
<1>3. TrackedInv'
  BY <1>1 DEF TickSweep, HoldInv, TrackedInv, Running, queueVars
<1>4. RunnerHoldsNamedRun'
  BY <1>1 DEF TickSweep, HoldInv, RunnerHoldsNamedRun, Starting, Running, queueVars
<1> QED BY <1>2, <1>3, <1>4

\* settle gives every run it ends to a delete, and every run it starts to a start.
LEMMA HoldTickSettle ==
    ASSUME HoldInv, TickSettle
    PROVE  PhaseInv' /\ StartInv' /\ TrackedInv' /\ RunnerHoldsNamedRun'
<1> DEFINE q == Due(tickAt)
<1>1. TypeInv /\ tickAt \in Int /\ q \in [Keys -> NamedEntry \cup {None}]
  BY NamedDue DEF HoldInv, TypeInv, TypeOK
<1>2. toStart' = {[key |-> k, run |-> q[k].queued, stream |-> q[k].stream] :
                     k \in StartsNow(q, tickAt)}
  BY Zenon DEF TickSettle
<1>3. toDelete' = {k \in Keys : EndsNow(k, tickAt)} /\ UNCHANGED <<gone, toSweep, toClean, runner, unremoved>>
      /\ tickPc = "sweep" /\ tickPc' = "delete" /\ toSweep = {}
  BY DEF TickSettle
<1>4. \A k \in StartsNow(q, tickAt) : k \in Keys
  BY <1>1, StartsQueued, Zenon
<1>5. PhaseInv'
  BY <1>3 DEF HoldInv, PhaseInv
<1>6. StartInv'
  <2>1. \A s, u \in toStart' : s.key = u.key => s = u
    BY <1>2
  <2>2. ASSUME NEW s \in toStart'
        PROVE  Running(s.key)' /\ entries'[s.key].run = s.run /\ entries'[s.key].runStream = s.stream
    <3>1. PICK k \in StartsNow(q, tickAt) :
            s = [key |-> k, run |-> q[k].queued, stream |-> q[k].stream]
      BY <1>2
    <3>2. k \in Keys
      BY <1>4
    <3>3. /\ entries'[k] # None /\ entries'[k].running # None
          /\ entries'[k].run = q[k].queued /\ entries'[k].runStream = q[k].stream
      BY <1>1, <3>2, SettleRuns, Zenon
    <3> QED BY <3>1, <3>3 DEF Running
  <2> QED BY <2>1, <2>2 DEF StartInv
<1>7. TrackedInv'
  <2> SUFFICES ASSUME NEW k \in Keys, runner[k] # None
               PROVE  Running(k)' \/ k \in gone \cup toDelete' \cup toClean \cup unremoved
    BY <1>3 DEF TrackedInv
  <2>1. CASE Running(k)
    BY <1>1, <1>3, <2>1, SettleRuns DEF Running, SameRun
  <2>2. CASE ~Running(k)
    BY <1>3, <2>2 DEF HoldInv, TrackedInv, PhaseInv
  <2> QED BY <2>1, <2>2
<1>8. RunnerHoldsNamedRun'
  <2> SUFFICES ASSUME NEW k \in Keys, Running(k)', ~Starting(k)', runner[k] # None
               PROVE  runner[k].run = entries'[k].run /\ runner[k].stream = entries'[k].runStream
    BY <1>3 DEF RunnerHoldsNamedRun
  <2>1. k \notin StartsNow(q, tickAt)
    <3> SUFFICES ASSUME k \in StartsNow(q, tickAt) PROVE FALSE
      OBVIOUS
    <3>1. [key |-> k, run |-> q[k].queued, stream |-> q[k].stream] \in toStart'
      BY <1>2
    <3>2. [key |-> k, run |-> q[k].queued, stream |-> q[k].stream].key = k
      OBVIOUS
    <3> QED BY <3>1, <3>2 DEF Starting
  <2>2. Running(k) /\ ~EndsNow(k, tickAt) /\ SameRun(entries[k], entries'[k])
    BY <1>1, <2>1, SettleRuns DEF Running
  <2>3. ~Starting(k)
    BY <1>3 DEF HoldInv, PhaseInv, Starting
  <2> QED BY <2>2, <2>3 DEF HoldInv, RunnerHoldsNamedRun, SameRun
<1> QED BY <1>5, <1>6, <1>7, <1>8

\* A step that touches no run, no list of the tick and nothing in the runner.
LEMMA HoldQuiet ==
    ASSUME HoldInv, RunsKept,
           UNCHANGED <<gone, tickPc, toSweep, toDelete, toStart, toClean, runner, unremoved>>
    PROVE  PhaseInv' /\ StartInv' /\ TrackedInv' /\ RunnerHoldsNamedRun'
<1>1. PhaseInv'
  BY DEF HoldInv, PhaseInv
<1>2. StartInv'
  <2>1. \A s \in toStart : s.key \in Keys
    BY DEF HoldInv, TypeInv, TypeOK, RunStart
  <2> QED BY <2>1 DEF HoldInv, StartInv, RunsKept, SameRun
<1>3. TrackedInv'
  BY DEF HoldInv, TrackedInv, RunsKept
<1>4. RunnerHoldsNamedRun'
  BY DEF HoldInv, RunnerHoldsNamedRun, Starting, RunsKept, SameRun
<1> QED BY <1>1, <1>2, <1>3, <1>4

\* run_now queues, and touches no run.
LEMMA HoldRunNow ==
    ASSUME HoldInv, NEW k \in Keys, RunNow(k)
    PROVE  PhaseInv' /\ StartInv' /\ TrackedInv' /\ RunnerHoldsNamedRun'
<1>1. RunsKept
  <2>1. entries[k] \in NamedEntry /\ now \in MaybeTime
    BY DEF RunNow, HoldInv, TypeInv, TypeOK, MaybeTime
  <2>2. /\ entries'[k] = [entries[k] EXCEPT !.queued = now]
        /\ \A j \in Keys \ {k} : entries'[j] = entries[j]
    BY DEF RunNow, HoldInv, TypeInv
  <2>3. [entries[k] EXCEPT !.queued = now] \in Entry
    BY <2>1, Zenon DEF NamedEntry, Entry
  <2>4. SameRun(entries[k], entries'[k]) /\ entries'[k] # None /\ entries[k] # None
    BY <2>1, <2>2, <2>3, NoneIsNoEntry DEF SameRun, NamedEntry, Entry
  <2> QED BY <2>2, <2>4 DEF RunsKept, Running, SameRun
<1> QED BY <1>1, HoldQuiet DEF RunNow, tickVars, histVars

\* The delete of an ended run hits no run that came after it.
LEMMA HoldTickDelete ==
    ASSUME HoldInv, NEW k \in Keys, TickDelete(k)
    PROVE  PhaseInv' /\ StartInv' /\ TrackedInv' /\ RunnerHoldsNamedRun'
<1>1. /\ \A j \in Keys : runner'[j] # None => runner'[j] = runner[j]
      /\ runner'[k] # None => k \in unremoved'
      /\ \A j \in Keys \ {k} : j \in unremoved' <=> j \in unremoved
  BY DeleteTracks DEF TickDelete
<1>2. RunsKept
  <2>1. CASE UNCHANGED entries
    BY <2>1, SameEntriesKeepRuns
  <2>2. CASE Stuck(k) /\ entries[k] # None
    <3> DEFINE f == [entries[k] EXCEPT !.stuck = TRUE, !.queued = None, !.lastFailed = TRUE]
    <3>1. entries[k] \in NamedEntry
      BY <2>2 DEF HoldInv, TypeInv
    <3>2. entries'[k] = f /\ \A j \in Keys \ {k} : entries'[j] = entries[j]
      BY <2>2, <3>1 DEF Stuck, HoldInv, TypeInv
    <3>3. f \in Entry
      BY <3>1, Zenon DEF NamedEntry, Entry, MaybeTime
    <3>4. SameRun(entries[k], f) /\ f # None
      BY <3>1, <3>3, NoneIsNoEntry DEF SameRun, NamedEntry, Entry
    <3> HIDE DEF f
    <3> QED BY <2>2, <3>2, <3>4 DEF RunsKept, Running, SameRun
  <2>3. CASE Stuck(k) /\ entries[k] = None
    BY <2>3, SameEntriesKeepRuns DEF Stuck
  <2> QED BY <2>1, <2>2, <2>3, Zenon DEF TickDelete
<1>3. UNCHANGED <<gone, tickPc, toSweep, toStart, toClean>> /\ toDelete' = toDelete \ {k}
      /\ tickPc = "delete"
  BY DEF TickDelete
<1>4. PhaseInv'
  BY <1>3 DEF HoldInv, PhaseInv
<1>5. StartInv'
  <2>1. \A s \in toStart : s.key \in Keys
    BY DEF HoldInv, TypeInv, TypeOK, RunStart
  <2> QED BY <1>2, <1>3, <2>1 DEF HoldInv, StartInv, RunsKept, SameRun
<1>6. TrackedInv'
  BY <1>1, <1>2, <1>3 DEF HoldInv, TrackedInv, RunsKept
<1>7. RunnerHoldsNamedRun'
  BY <1>1, <1>2, <1>3 DEF HoldInv, RunnerHoldsNamedRun, Starting, RunsKept, SameRun
<1> QED BY <1>4, <1>5, <1>6, <1>7

\* Nor does the delete of a failed start.
LEMMA HoldTickClean ==
    ASSUME HoldInv, NEW k \in Keys, TickClean(k)
    PROVE  PhaseInv' /\ StartInv' /\ TrackedInv' /\ RunnerHoldsNamedRun'
<1>1. /\ \A j \in Keys : runner'[j] # None => runner'[j] = runner[j]
      /\ runner'[k] # None => k \in unremoved'
      /\ \A j \in Keys \ {k} : j \in unremoved' <=> j \in unremoved
  BY DeleteTracks DEF TickClean
<1>2. PhaseInv' /\ StartInv'
  BY DEF TickClean, HoldInv, PhaseInv, StartInv, Running, queueVars
<1>3. TrackedInv'
  <2>1. toClean \subseteq {k}
    BY DEF TickClean, HoldInv, PhaseInv
  <2> QED BY <1>1, <2>1 DEF TickClean, HoldInv, TrackedInv, Running, queueVars
<1>4. RunnerHoldsNamedRun'
  BY <1>1 DEF TickClean, HoldInv, RunnerHoldsNamedRun, Starting, Running, queueVars
<1> QED BY <1>2, <1>3, <1>4

\* The ends are taken once every delete is sent, the tick ends once every list is empty.
LEMMA HoldTickTurns ==
    ASSUME HoldInv, TickTakeEnds \/ TickEnd
    PROVE  PhaseInv' /\ StartInv' /\ TrackedInv' /\ RunnerHoldsNamedRun'
<1>1. /\ UNCHANGED <<entries, gone, toSweep, toDelete, toStart, toClean, runner, unremoved>>
      /\ \/ tickPc = "delete" /\ tickPc' = "tell" /\ toDelete = {}
         \/ tickPc = "tell" /\ tickPc' = "idle" /\ toStart = {} /\ toClean = {}
  BY DEF TickTakeEnds, TickEnd, queueVars, histVars
<1>2. PhaseInv'
  BY <1>1 DEF HoldInv, PhaseInv
<1>3. StartInv' /\ TrackedInv' /\ RunnerHoldsNamedRun'
  BY <1>1 DEF HoldInv, StartInv, TrackedInv, RunnerHoldsNamedRun, Starting, Running
<1> QED BY <1>2, <1>3

\* A start that failed ends the run its entry holds and touches no other.
LEMMA FailedRuns ==
    ASSUME TypeInv, NEW k \in Keys, NEW t \in Int, FailedToStart(k, t)
    PROVE  /\ ~Running(k)'
           /\ \A j \in Keys \ {k} : entries'[j] = entries[j]
<1>1. CASE entries[k] = None
  BY <1>1 DEF FailedToStart, Running
<1>2. CASE entries[k] # None
  <2> DEFINE e == entries[k]
             f == IF e.run = None THEN e ELSE Arm(e, e.run, t)
             g == [f EXCEPT !.running = None, !.lastFailed = TRUE]
  <2>1. e \in NamedEntry
    BY <1>2 DEF TypeInv
  <2>2. entries' = [entries EXCEPT ![k] = g]
    BY <1>2 DEF FailedToStart
  <2> HIDE DEF e
  <2>3. f \in NamedEntry
    BY <2>1, NamedArm DEF NamedEntry, Entry, MaybeTime
  <2> HIDE DEF f
  <2>4. g.running = None
    BY <2>3 DEF NamedEntry, Entry
  <2> HIDE DEF g
  <2> QED BY <2>2, <2>4 DEF TypeInv, Running
<1> QED BY <1>1, <1>2

\* A run the tick loads is the one its entry holds, or one that is gone by now.
LEMMA HoldTickStart ==
    ASSUME HoldInv, NEW start \in toStart, TickStart(start)
    PROVE  PhaseInv' /\ StartInv' /\ TrackedInv' /\ RunnerHoldsNamedRun'
<1> DEFINE k == start.key
<1>1. /\ start \in RunStart /\ k \in Keys /\ tickAt \in Int
      /\ \A s \in toStart : s.key \in Keys
  BY DEF HoldInv, TypeInv, TypeOK, RunStart
<1>2. /\ tickPc = "tell" /\ toClean = {} /\ toStart' = toStart \ {start}
      /\ UNCHANGED <<gone, tickPc, toSweep, toDelete>>
  BY DEF TickStart, MayStart
<1>3. \A s \in toStart' : s \in toStart /\ s.key # k
  BY <1>2 DEF HoldInv, StartInv
<1>4. /\ \A j \in Keys \ {k} : entries'[j] = entries[j] /\ runner'[j] = runner[j]
                               /\ (j \in unremoved' <=> j \in unremoved)
      /\ \/ UNCHANGED <<entries, toClean>>
            /\ runner'[k].run = start.run /\ runner'[k].stream = start.stream
         \/ ~Running(k)' /\ toClean' = {k}
  <2>1. CASE Load(start) /\ UNCHANGED <<entries, toClean>>
    BY <1>1, <2>1 DEF Load, HoldInv, TypeInv, TypeOK
  <2>2. CASE FailedToStart(k, tickAt) /\ toClean' = {k} /\ UNCHANGED <<runner, unremoved>>
    BY <1>1, <2>2, FailedRuns DEF HoldInv
  <2>3. CASE Load(start) /\ FailedToStart(k, tickAt) /\ toClean' = {k}
    <3>1. ~Running(k)' /\ \A j \in Keys \ {k} : entries'[j] = entries[j]
      BY <1>1, <2>3, FailedRuns DEF HoldInv
    <3> QED BY <1>1, <2>3, <3>1 DEF Load, HoldInv, TypeInv, TypeOK
  <2> QED BY <2>1, <2>2, <2>3, Zenon DEF TickStart
<1>5. Running(k) \/ k \in gone
  BY DEF HoldInv, StartInv
<1>6. Running(k) => entries[k].run = start.run /\ entries[k].runStream = start.stream
  BY DEF HoldInv, StartInv
<1> HIDE DEF k
<1>7. PhaseInv'
  BY <1>2, <1>4 DEF HoldInv, PhaseInv
<1>8. StartInv'
  BY <1>1, <1>2, <1>3, <1>4 DEF HoldInv, StartInv, Running
<1>9. TrackedInv'
  BY <1>1, <1>2, <1>4, <1>5 DEF HoldInv, TrackedInv, Running
<1>10. RunnerHoldsNamedRun'
  <2> SUFFICES ASSUME NEW j \in Keys, Running(j)', ~Starting(j)', runner'[j] # None
               PROVE  runner'[j].run = entries'[j].run /\ runner'[j].stream = entries'[j].runStream
    BY DEF RunnerHoldsNamedRun
  <2>1. CASE j = k
    BY <1>4, <1>6, <2>1 DEF Running
  <2>2. CASE j # k
    <3>1. ~Starting(j)
      BY <1>2, <2>2 DEF Starting, k
    <3> QED BY <1>4, <2>2, <3>1 DEF HoldInv, RunnerHoldsNamedRun, Running
  <2> QED BY <2>1, <2>2
<1> QED BY <1>7, <1>8, <1>9, <1>10

\* A plan that drops a pipeline leaves its run to the tick.
LEMMA HoldPassPlan ==
    ASSUME HoldInv, NEW wanted \in Plans, NEW fingerprint \in Fingerprints,
           PassPlan(wanted, fingerprint)
    PROVE  PhaseInv' /\ StartInv' /\ TrackedInv' /\ RunnerHoldsNamedRun'
<1> DEFINE changed == rules # None /\ rules # fingerprint
<1>1. /\ entries' = PlannedEntries(wanted, changed, now) /\ gone' = gone \cup DroppedRuns(wanted)
      /\ UNCHANGED <<tickPc, toSweep, toDelete, toStart, toClean, runner, unremoved>>
  BY DEF PassPlan, tickVars
<1>2. TypeInv /\ now \in Int
  BY DEF HoldInv, TypeInv, TypeOK
<1>3. ASSUME NEW k \in Keys
      PROVE  /\ Running(k)' => Running(k) /\ SameRun(entries[k], entries'[k])
             /\ Running(k) /\ ~Running(k)' => k \in gone'
  <2>1. /\ wanted[k] = None => entries'[k] = None
        /\ wanted[k] # None /\ entries[k] = None /\ entries'[k] # None => entries'[k].running = None
        /\ wanted[k] # None /\ entries[k] # None => entries'[k] # None /\ SameRun(entries[k], entries'[k])
    <3> HIDE DEF changed
    <3> QED BY <1>1, <1>2, PlanRuns
  <2> QED BY <1>1, <2>1 DEF Running, SameRun, DroppedRuns
<1>4. PhaseInv'
  BY <1>1 DEF HoldInv, PhaseInv
<1>5. StartInv'
  <2>1. \A s \in toStart : s.key \in Keys
    BY DEF HoldInv, TypeInv, TypeOK, RunStart
  <2>2. gone \subseteq gone'
    BY <1>1
  <2> HIDE DEF changed
  <2> QED BY <1>1, <1>3, <2>1, <2>2 DEF HoldInv, StartInv, SameRun
<1>6. TrackedInv'
  BY <1>1, <1>3 DEF HoldInv, TrackedInv
<1>7. RunnerHoldsNamedRun'
  BY <1>1, <1>3 DEF HoldInv, RunnerHoldsNamedRun, Starting, SameRun
<1> QED BY <1>4, <1>5, <1>6, <1>7

\* What happens outside the queue: a run reads to its end, the runner or the Portal restarts.
LEMMA HoldOutside ==
    ASSUME HoldInv, Outside
    PROVE  PhaseInv' /\ StartInv' /\ TrackedInv' /\ RunnerHoldsNamedRun'
<1>1. ASSUME NEW k \in Keys, RunFinishes(k)
      PROVE  PhaseInv' /\ StartInv' /\ TrackedInv' /\ RunnerHoldsNamedRun'
  <2>1. UNCHANGED <<entries, gone, tickPc, toSweep, toDelete, toStart, toClean, unremoved>>
    BY <1>1 DEF RunFinishes, queueVars, tickVars, histVars
  <2>2. \A j \in Keys : runner'[j] # None =>
            runner[j] # None /\ runner'[j].run = runner[j].run /\ runner'[j].stream = runner[j].stream
    <3>1. runner[k] \in Stream
      BY <1>1 DEF RunFinishes, HoldInv, TypeInv, TypeOK
    <3> QED BY <1>1, <3>1 DEF RunFinishes, HoldInv, TypeInv, TypeOK, Stream
  <2> QED BY <2>1, <2>2
          DEF HoldInv, PhaseInv, StartInv, TrackedInv, RunnerHoldsNamedRun, Starting, Running
<1>2. CASE RunnerRestarts
  BY <1>2 DEF RunnerRestarts, HoldInv, PhaseInv, StartInv, TrackedInv, RunnerHoldsNamedRun,
              Starting, Running, queueVars, tickVars
<1>3. CASE Crash
  BY <1>3 DEF Crash, EmptyQueue, HoldInv, PhaseInv, StartInv, TrackedInv, RunnerHoldsNamedRun,
              Starting, Running
<1> QED BY <1>1, <1>2, <1>3 DEF Outside

\* The inductive invariant holds at the start.
LEMMA HoldInvInit == Init => HoldInv
BY TypeInvInit DEF Init, HoldInv, PhaseInv, StartInv, TrackedInv, RunnerHoldsNamedRun, Running

\* Every step keeps it.
LEMMA HoldStep == HoldInv /\ [Next]_vars => HoldInv'
<1> SUFFICES ASSUME HoldInv, [Next]_vars PROVE HoldInv'
  OBVIOUS
<1>1. TypeInv'
  BY TypeStep DEF HoldInv
<1>2. ASSUME \/ \E k \in Keys : TickPoll(k)
             \/ \E end \in toTell : TickTell(end)
             \/ PassRead \/ Advance \/ UNCHANGED vars
      PROVE  PhaseInv' /\ StartInv' /\ TrackedInv' /\ RunnerHoldsNamedRun'
  <2>1. /\ UNCHANGED entries
        /\ UNCHANGED <<gone, tickPc, toSweep, toDelete, toStart, toClean, runner, unremoved>>
    BY <1>2 DEF TickPoll, TickTell, PassRead, Advance, vars, queueVars, tickVars, histVars
  <2> QED BY <2>1, SameEntriesKeepRuns, HoldQuiet
<1>3. PhaseInv' /\ StartInv' /\ TrackedInv' /\ RunnerHoldsNamedRun'
  <2>1. CASE Tick
    BY <1>2, <2>1, HoldTickBegin, HoldTickSettle, HoldTickTurns, HoldTickSweep, HoldTickDelete,
       HoldTickClean, HoldTickStart DEF Tick
  <2>2. CASE Pass
    BY <1>2, <2>2, HoldPassPlan DEF Pass
  <2>3. CASE Outside
    BY <2>3, HoldOutside
  <2>4. CASE Advance \/ UNCHANGED vars
    BY <1>2, <2>4
  <2>5. CASE \E k \in Keys : RunNow(k)
    BY <2>5, HoldRunNow
  <2> QED BY <2>1, <2>2, <2>3, <2>4, <2>5 DEF Next
<1> QED BY <1>1, <1>3 DEF HoldInv

\* It holds in every behaviour.
LEMMA HoldInvariant == Spec => []HoldInv
BY HoldInvInit, HoldStep, PTL DEF Spec

\* No stream of the queue is forgotten in the runner, whatever the plans, the faults and the
\* lengths of the calls: for every number of pipelines and every configuration.
THEOREM NothingForgotten == Spec => []NoForgottenRun
<1>1. HoldInv => NoForgottenRun
  BY DEF HoldInv, TrackedInv, NoForgottenRun
<1> QED BY <1>1, HoldInvariant, PTL

\* A run the queue names and whose start was sent is the run the runner holds, or the runner
\* holds none.
THEOREM RunnerHoldsNamed == Spec => []RunnerHoldsNamedRun
<1>1. HoldInv => RunnerHoldsNamedRun
  BY DEF HoldInv
<1> QED BY <1>1, HoldInvariant, PTL
=============================================================================
