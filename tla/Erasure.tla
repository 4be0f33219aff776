------------------------------ MODULE Erasure ------------------------------
(***************************************************************************)
(* A data subject's erasure (erasure.rs, api/erasures.rs): the log, the    *)
(* people who propose and decide, the approval's own first attempt, and    *)
(* the loop every replica runs, which each minute asks the stores that are *)
(* still pending and each hour sends the broker again what a restore from  *)
(* a backup brought back.                                                  *)
(*                                                                         *)
(* An attempt asks the stores of the row it READ, one after the other, and *)
(* saves each outcome with a statement of its own; an approval's attempt   *)
(* and the loops' run beside each other.  A store that fails may or may    *)
(* not have erased its part.  `exports` and `caches` are done from the     *)
(* start and stay so, and are left out.                                    *)
(***************************************************************************)
EXTENDS Integers, FiniteSets

CONSTANTS
    People,         \* owners of the space, with their own session and second factor
    Replicas,
    MaxErasures,    \* bound: proposals
    MaxAttempts,    \* MAX_ATTEMPTS
    Stores,         \* of STORES, the ones that keep anything
    Logged,         \* the erasures the log holds, completed, when the model starts
    Alike,          \* the erasures of one and the same subject and Entities
    OpenLimit,      \* LIMIT of the open erasures
    ReapplyEvery,   \* ticks between two re-applications
    MaxFaults,      \* bound: lost saves, restarts, restores
    None

ASSUME AttemptsAssumption == MaxAttempts \in Nat \ {0}
ASSUME TicksAssumption == ReapplyEvery \in Nat \ {0}
ASSUME BoundsAssumption == MaxErasures \in Nat /\ MaxFaults \in Nat /\ OpenLimit \in Nat
ASSUME ActorsAssumption == People \cap Replicas = {} /\ None \notin People

\* In the order of requested_at.
Erasures == 1..MaxErasures

\* STORES in the order of the map an attempt walks.
Place == [broker |-> 1, conversations |-> 2, portal |-> 3]

ASSUME LogAssumption ==
    /\ Alike \subseteq Erasures /\ Logged \subseteq Erasures
    /\ Logged # {} => \E p, q \in People : p # q

ASSUME StoresAssumption == "broker" \in Stores /\ Stores \subseteq DOMAIN Place

VARIABLES
    approval,   \* the log: where each erasure stands
    parties,    \* the log: actor and decided_by
    expired,    \* the proposal is PROPOSAL_DAYS old
    stores,     \* the log: state and attempts of each store
    completed,  \* the log: completed_at is set
    request,    \* the decision a person's request is about to write
    todo,       \* the (erasure, store, attempts read) an attempt has still to ask
    answer,     \* of the store it asked, before it is saved
    loop,       \* where a replica's loop is: its phase, its tick, the erasures to re-apply
    gone,       \* the stores that do not hold the erasure's Entities now
    reached,    \* the stores it was carried out in at some time
    faults

log == <<approval, parties, expired, stores, completed>>
vars == <<log, request, todo, answer, loop, gone, reached, faults>>

Workers == People \cup Replicas
Idle == [to |-> "none", of |-> 0]
Asleep(tick) == [phase |-> "sleep", tick |-> tick, again |-> {}]
Resends(tick, again) == [phase |-> "resend", tick |-> tick, again |-> again]

-----------------------------------------------------------------------------
\* A store that is asked for ever.
After_NoLimit(attempts, ok) ==
    [state |-> IF ok THEN "done" ELSE "pending", attempts |-> attempts + 1]

\* A store given up one attempt early.
After_Early(attempts, ok) ==
    [state |-> IF ok THEN "done" ELSE IF attempts + 2 >= MaxAttempts THEN "failed" ELSE "pending",
     attempts |-> attempts + 1]

\* Store::after, of a store that was read pending.
After(attempts, ok) ==
    [state |-> IF ok THEN "done" ELSE IF attempts + 1 >= MaxAttempts THEN "failed" ELSE "pending",
     attempts |-> attempts + 1]

\* What an attempt of the rows S of the log asks.
Pending(S) ==
    { j \in [of : S, store : Stores, attempts : 0..MaxAttempts] :
        /\ approval[j.of] = "approved"
        /\ stores[j.of][j.store].state = "pending"
        /\ stores[j.of][j.store].attempts = j.attempts }

Before(j, k) ==
    j.of < k.of \/ (j.of = k.of /\ Place[j.store] <= Place[k.store])

First(j, S) == j \in S /\ \A k \in S : Before(j, k)

AllDone(of) == \A s \in Stores : of[s].state = "done"

\* Only the erasures no store of which has answered.
Open_Untouched ==
    { e \in Erasures : /\ ~completed[e] /\ approval[e] = "approved"
                       /\ \A s \in Stores : stores[e][s].state = "pending" }

\* open: the oldest of the approved erasures with a store pending.
Open ==
    LET open == { e \in Erasures : /\ ~completed[e] /\ approval[e] = "approved"
                                   /\ \E s \in Stores : stores[e][s].state = "pending" }
    IN { e \in open : Cardinality({ f \in open : f < e }) < OpenLimit }

-----------------------------------------------------------------------------
\* erase_subject: begin and insert.
Propose(p) ==
    \E e \in Erasures :
       /\ approval[e] = "none" /\ \A f \in Erasures : f < e => approval[f] # "none"
       /\ approval' = [approval EXCEPT ![e] = "proposed"]
       /\ parties' = [parties EXCEPT ![e] = [by |-> p, decided |-> None]]
       /\ stores' = [stores EXCEPT ![e] = [s \in Stores |-> [state |-> "pending", attempts |-> 0]]]
       /\ UNCHANGED <<expired, completed, request, todo, answer, loop, gone, reached, faults>>

\* PROPOSAL_DAYS pass for a proposal nobody decided.
Expire(e) ==
    /\ approval[e] = "proposed" /\ ~expired[e]
    /\ expired' = [expired EXCEPT ![e] = TRUE]
    /\ UNCHANGED <<approval, parties, stores, completed, request, todo, answer, loop, gone, reached, faults>>

\* approve_erasure and decline_erasure up to the search of the space: the row read, the
\* proposer refused an approval, and anything but an open proposal refused.
Read(p, to, e) ==
    /\ request[p] = Idle /\ todo[p] = {}
    /\ approval[e] = "proposed" /\ ~expired[e]
    /\ to = "approved" => parties[e].by # p
    /\ request' = [request EXCEPT ![p] = [to |-> to, of |-> e]]
    /\ UNCHANGED <<log, todo, answer, loop, gone, reached, faults>>

\* The UPDATE on the word of the row read before the search.
Decidable_Read(p) == request[p] # Idle

\* The WHERE of approve and of decline.
Decidable(p) ==
    /\ request[p] # Idle
    /\ approval[request[p].of] = "proposed" /\ ~expired[request[p].of]
    /\ request[p].to = "approved" => parties[request[p].of].by # p

\* approve and decline: one conditional UPDATE; an approval goes on to the first attempt, of
\* the row the UPDATE returned.
Decide(p) ==
    LET e == request[p].of IN
    /\ Decidable(p)
    /\ approval' = [approval EXCEPT ![e] = request[p].to]
    /\ parties' = [parties EXCEPT ![e] = [by |-> parties[e].by, decided |-> p]]
    /\ todo' = [todo EXCEPT ![p] =
                  IF request[p].to = "approved"
                  THEN { [of |-> e, store |-> s, attempts |-> stores[e][s].attempts] : s \in Stores }
                  ELSE {}]
    /\ request' = [request EXCEPT ![p] = Idle]
    /\ UNCHANGED <<expired, stores, completed, answer, loop, gone, reached, faults>>

\* The 409, or anything before it that fails.
Refuse(p) ==
    /\ request[p] # Idle
    /\ request' = [request EXCEPT ![p] = Idle]
    /\ UNCHANGED <<log, todo, answer, loop, gone, reached, faults>>

\* The approver's connection closes, or its replica restarts, in the middle of the attempt.
Hangup(p) ==
    /\ todo[p] # {}
    /\ todo' = [todo EXCEPT ![p] = {}]
    /\ answer' = [answer EXCEPT ![p] = "none"]
    /\ UNCHANGED <<log, request, loop, gone, reached, faults>>

-----------------------------------------------------------------------------
\* What the store does, whatever it answers: an error may come after the work.
Carry(e, s, ok) ==
    /\ gone' \in {[gone EXCEPT ![e] = gone[e] \cup {s}]} \cup (IF ok THEN {} ELSE {gone})
    /\ reached' = [reached EXCEPT ![e] = IF s \in gone'[e] THEN reached[e] \cup {s} ELSE reached[e]]

\* attempt asks the next of the stores it read as pending: broker, conversations, portal.  The
\* approver's attempt has conversations searched for the subject's words and the URNs, a loop's
\* for the URNs alone; either answer counts as the store reached.
Ask(w) ==
    /\ answer[w] = "none"
    /\ \E j \in todo[w], ok \in BOOLEAN :
          /\ First(j, todo[w])
          /\ Carry(j.of, j.store, ok)
          /\ answer' = [answer EXCEPT ![w] = IF ok THEN "ok" ELSE "error"]
    /\ UNCHANGED <<log, request, todo, loop, faults>>

\* The attempt's place after a store: its loop sleeps after the last one.
Goes_On(w, left) ==
    /\ todo' = [todo EXCEPT ![w] = left]
    /\ answer' = [answer EXCEPT ![w] = "none"]
    /\ loop' = IF w \in Replicas /\ left = {}
               THEN [loop EXCEPT ![w] = Asleep(loop[w].tick)] ELSE loop

\* completed_at, coalesced.
Completes(e, of) == completed' = [completed EXCEPT ![e] = completed[e] \/ AllDone(of)]

\* save: this store's part, and completed_at once every store is done.
Save(w) ==
    /\ answer[w] # "none"
    /\ \E j \in todo[w] :
          /\ First(j, todo[w])
          /\ LET of == [stores[j.of] EXCEPT ![j.store] = After(j.attempts, answer[w] = "ok")]
             IN /\ stores' = [stores EXCEPT ![j.of] = of]
                /\ Completes(j.of, of)
          /\ Goes_On(w, todo[w] \ {j})
    /\ UNCHANGED <<approval, parties, expired, request, gone, reached, faults>>

\* The database did not take the save; the attempt goes on with the next store.
SaveLost(w) ==
    /\ answer[w] # "none" /\ faults < MaxFaults
    /\ faults' = faults + 1
    /\ \E j \in todo[w] : First(j, todo[w]) /\ Goes_On(w, todo[w] \ {j})
    /\ UNCHANGED <<log, request, gone, reached>>

-----------------------------------------------------------------------------
\* Only what is not completed.
Reappliable_Open ==
    { e \in Erasures : /\ approval[e] = "approved" /\ ~completed[e]
                       /\ stores[e]["broker"].state = "done" }

\* The erasures a re-application looks at: every approved one the log reads done in the broker.
Reappliable ==
    { e \in Erasures : approval[e] = "approved" /\ stores[e]["broker"].state = "done" }

NextTick(r) == (loop[r].tick + 1) % ReapplyEvery

\* A tick of spawn_periodic that starts with reapply: at the start, and each hour after.
TickReapplies(r) ==
    /\ loop[r].phase = "sleep" /\ loop[r].tick = 0
    /\ loop' = [loop EXCEPT ![r] = [phase |-> "reapply", tick |-> NextTick(r), again |-> Reappliable]]
    /\ UNCHANGED <<log, request, todo, answer, gone, reached, faults>>

\* recorded: a record the broker holds names the subject and every Entity.  The broker writes the
\* record with the erasure, and loses it with the erasure (external).
Recorded(e) ==
    \E f \in Erasures : (f = e \/ {e, f} \subseteq Alike) /\ "broker" \in gone[f]

\* The records, read once in a pass, before the first erasure: what is missing by them goes on.
ReadRecords(r) ==
    /\ loop[r].phase = "reapply"
    /\ loop' = [loop EXCEPT ![r] = Resends(loop[r].tick, { e \in loop[r].again : ~Recorded(e) })]
    /\ UNCHANGED <<log, request, todo, answer, gone, reached, faults>>

\* They are not answered: reapply returns the error.
RecordsFail(r) ==
    /\ loop[r].phase = "reapply"
    /\ loop' = [loop EXCEPT ![r] = Resends(loop[r].tick, {})]
    /\ UNCHANGED <<log, request, todo, answer, gone, reached, faults>>

\* The order of reapply: by requested_at.
Oldest(e, S) == e \in S /\ \A f \in S : e <= f

\* reapply sends the oldest erasure left again.
Resend(r, e) ==
    /\ loop[r].phase = "resend" /\ Oldest(e, loop[r].again)
    /\ Carry(e, "broker", TRUE)
    /\ loop' = [loop EXCEPT ![r].again = loop[r].again \ {e}]
    /\ UNCHANGED <<log, request, todo, answer, faults>>

\* It is not answered: reapply returns the error, for every erasure left.
ResendFails(r, e) ==
    /\ loop[r].phase = "resend" /\ Oldest(e, loop[r].again)
    /\ Carry(e, "broker", FALSE)
    /\ loop' = [loop EXCEPT ![r].again = {}]
    /\ UNCHANGED <<log, request, todo, answer, faults>>

\* After reapply, or at once on the other ticks, the open erasures are read and attempted one
\* after the other.
ReadOpen(r) ==
    /\ \/ loop[r].phase = "sleep" /\ loop[r].tick # 0
       \/ loop[r].phase = "resend" /\ loop[r].again = {}
    /\ todo' = [todo EXCEPT ![r] = Pending(Open)]
    /\ LET tick == IF loop[r].phase = "sleep" THEN NextTick(r) ELSE loop[r].tick
       IN loop' = [loop EXCEPT ![r] =
                     IF Pending(Open) = {} THEN Asleep(tick)
                     ELSE [phase |-> "attempt", tick |-> tick, again |-> {}]]
    /\ UNCHANGED <<log, request, answer, gone, reached, faults>>

-----------------------------------------------------------------------------
\* A replica restarts: its loop starts over, with a re-application.
Restart(r) ==
    /\ faults < MaxFaults
    /\ faults' = faults + 1
    /\ loop' = [loop EXCEPT ![r] = Asleep(0)]
    /\ todo' = [todo EXCEPT ![r] = {}]
    /\ answer' = [answer EXCEPT ![r] = "none"]
    /\ UNCHANGED <<log, request, gone, reached>>

\* The broker's database is restored from a backup older than the erasures S.
Restore ==
    /\ faults < MaxFaults
    /\ faults' = faults + 1
    /\ \E S \in SUBSET Erasures :
          gone' = [e \in Erasures |-> IF e \in S THEN gone[e] \ {"broker"} ELSE gone[e]]
    /\ UNCHANGED <<log, request, todo, answer, loop, reached>>

-----------------------------------------------------------------------------
Promise == INSTANCE FourEyes WITH decision <- approval, erased <- reached, complete <- completed

Init ==
    /\ approval = [e \in Erasures |-> IF e \in Logged THEN "approved" ELSE "none"]
    /\ parties = Promise!Known
    /\ expired = [e \in Erasures |-> FALSE]
    /\ stores = [e \in Erasures |-> [s \in Stores |->
                   IF e \in Logged THEN [state |-> "done", attempts |-> 1]
                                  ELSE [state |-> "pending", attempts |-> 0]]]
    /\ completed = [e \in Erasures |-> e \in Logged]
    /\ request = [p \in People |-> Idle]
    /\ todo = [w \in Workers |-> {}]
    /\ answer = [w \in Workers |-> "none"]
    /\ loop = [r \in Replicas |-> Asleep(0)]
    /\ gone = [e \in Erasures |-> IF e \in Logged THEN Stores ELSE {}]
    /\ reached = gone
    /\ faults = 0

Request(p) ==
    \/ Propose(p) \/ Decide(p) \/ Refuse(p) \/ Hangup(p)
    \/ \E e \in Erasures, to \in {"approved", "declined"} : Read(p, to, e)

Loop(r) ==
    \/ TickReapplies(r) \/ ReadRecords(r) \/ RecordsFail(r) \/ ReadOpen(r)
    \/ \E e \in Erasures : Resend(r, e) \/ ResendFails(r, e)

Next ==
    \/ \E p \in People : Request(p)
    \/ \E w \in Workers : Ask(w) \/ Save(w) \/ SaveLost(w)
    \/ \E r \in Replicas : Loop(r) \/ Restart(r)
    \/ \E e \in Erasures : Expire(e)
    \/ Restore

Spec == Init /\ [][Next]_vars

\* A loop and an attempt go on.  Nothing is assumed of what the broker answers.
Fairness ==
    /\ \A r \in Replicas : WF_vars(Loop(r))
    /\ \A w \in Workers : WF_vars(Ask(w)) /\ WF_vars(Save(w))

FairSpec == Spec /\ Fairness

-----------------------------------------------------------------------------
Job == [of : Erasures, store : Stores, attempts : 0..MaxAttempts]

\* Every variable has the shape the code gives it.
TypeOK ==
    /\ approval \in [Erasures -> {"none", "proposed", "approved", "declined"}]
    /\ parties \in [Erasures -> [by : People \cup {None}, decided : People \cup {None}]]
    /\ expired \in [Erasures -> BOOLEAN]
    /\ stores \in [Erasures -> [Stores -> [state : {"pending", "done", "failed"}, attempts : 0..MaxAttempts]]]
    /\ completed \in [Erasures -> BOOLEAN]
    /\ request \in [People -> {Idle} \cup [to : {"approved", "declined"}, of : Erasures]]
    /\ todo \in [Workers -> SUBSET Job]
    /\ answer \in [Workers -> {"none", "ok", "error"}]
    /\ loop \in [Replicas -> [phase : {"sleep", "reapply", "resend", "attempt"},
                              tick : 0..(ReapplyEvery - 1), again : SUBSET Erasures]]
    /\ gone \in [Erasures -> SUBSET Stores]
    /\ reached \in [Erasures -> SUBSET Stores]
    /\ faults \in 0..MaxFaults

\* The requests, the loops, their races, retries, lost saves, restarts and restores together
\* keep what FourEyes promises: nothing is taken from a store before a second person approved,
\* a decision is never taken back, and completed_at means every store was really reached.
KeepsPromise == Promise!Spec

\* What the log says of a store is never more than what happened there: a store that reads done
\* was reached by this erasure, whatever stale attempt wrote it last, and one that failed
\* carries the count of attempts the code gives up at.
LogIsTrue ==
    \A e \in Erasures, s \in Stores :
        /\ stores[e][s].state = "done" => s \in reached[e]
        /\ stores[e][s].state = "failed" => stores[e][s].attempts = MaxAttempts

\* An approved erasure reaches every store or gives up on it at the count MaxAttempts, though its
\* approver hangs up, saves are lost, replicas restart and attempts overwrite each other.
EveryStoreAnswers ==
    \A e \in Erasures :
        approval[e] = "approved" ~>
            \A s \in Stores : s \in reached[e] \/ stores[e][s].state = "failed"

\* The broker answers replica r's reapply, again and again, for its records, for e and for every
\* older erasure; of the newer ones nothing is said.
AnswersUpTo(r, e) ==
    SF_vars(ReadRecords(r)) /\ \A f \in 1..e : SF_vars(Resend(r, f))

\* What the log reads done in the broker and a restore brought back is erased there again, if the
\* broker answers for it and for every older erasure, whatever becomes of the newer ones: reapply
\* goes from the oldest and returns at the first error.  Excepted is an erasure a held record of
\* the same subject and Entities stands for: reapply takes that record for its own.
RestoredIsSentAgain ==
    \A r \in Replicas, e \in Erasures :
        AnswersUpTo(r, e) =>
            (stores[e]["broker"].state = "done" /\ "broker" \notin gone[e]
                ~> Recorded(e) \/ stores[e]["broker"].state # "done")

=============================================================================
