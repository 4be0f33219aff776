---------------------------- MODULE ErasureProofs ----------------------------
(***************************************************************************)
(* For any number of people, replicas, erasures, stores, attempts and      *)
(* faults: what the log says of a store is true of it, and the erasures as *)
(* the code runs them implement FourEyes.                                  *)
(***************************************************************************)
EXTENDS Erasure, TLAPS

Part == [state : {"pending", "done", "failed"}, attempts : 0..MaxAttempts]

\* A store is asked again only below the limit.
BelowLimit ==
    /\ \A e \in Erasures, s \in Stores :
          stores[e][s].state = "pending" => stores[e][s].attempts < MaxAttempts
    /\ \A w \in Workers : \A j \in todo[w] : j.attempts < MaxAttempts

\* Whatever an attempt or a re-application holds was read approved, and approval is final.
HeldApproved ==
    /\ \A w \in Workers : \A j \in todo[w] : approval[j.of] = "approved"
    /\ \A r \in Replicas : \A e \in loop[r].again : approval[e] = "approved"

\* An answer that is not saved yet is of the store that was asked.
AnswerIsTrue ==
    \A w \in Workers : \A j \in todo[w] :
        answer[w] = "ok" /\ First(j, todo[w]) => j.store \in reached[j.of]

\* No store of an erasure that is not decided was asked.
Untouched ==
    \A e \in Erasures : approval[e] \in {"none", "proposed"} =>
        \A s \in Stores : stores[e][s].state = "pending"

\* Who holds no job waits for no answer; a request that has not decided, and a loop that is not
\* in its attempts, hold none.
Quiet ==
    /\ \A w \in Workers : todo[w] = {} => answer[w] = "none"
    /\ \A p \in People : request[p] # Idle => todo[p] = {}
    /\ \A r \in Replicas : loop[r].phase # "attempt" => todo[r] = {}

IInv == Untouched /\ Quiet /\ TypeOK /\ BelowLimit /\ HeldApproved /\ AnswerIsTrue /\ LogIsTrue

-----------------------------------------------------------------------------
\* What a store becomes after one more attempt.
LEMMA AfterPart ==
    ASSUME NEW n \in 0..MaxAttempts, n < MaxAttempts, NEW ok \in BOOLEAN
    PROVE  /\ After(n, ok) \in Part
           /\ After(n, ok).state = "done" <=> ok
           /\ After(n, ok).state = "pending" => After(n, ok).attempts < MaxAttempts
           /\ After(n, ok).state = "failed" => After(n, ok).attempts = MaxAttempts
BY AttemptsAssumption DEF After, Part

\* A store's answer adds to what it was reached by, and only there.
LEMMA CarryKeeps ==
    ASSUME TypeOK, NEW e \in Erasures, NEW s \in Stores, NEW ok \in BOOLEAN, Carry(e, s, ok)
    PROVE  /\ gone' \in [Erasures -> SUBSET Stores]
           /\ reached' \in [Erasures -> SUBSET Stores]
           /\ \A f \in Erasures : reached[f] \subseteq reached'[f]
           /\ ok => s \in reached'[e]
           /\ reached' = reached \/ reached' = [reached EXCEPT ![e] = reached[e] \cup {s}]
<1>1. gone' \in [Erasures -> SUBSET Stores] /\ (ok => s \in gone'[e])
  <2>1. gone' = [gone EXCEPT ![e] = gone[e] \cup {s}] \/ (~ok /\ gone' = gone)
    BY DEF Carry
  <2>2. gone \in [Erasures -> SUBSET Stores]
    BY DEF TypeOK
  <2>3. CASE ~ok /\ gone' = gone
    BY <2>2, <2>3
  <2>4. CASE gone' = [gone EXCEPT ![e] = gone[e] \cup {s}]
    <3>1. gone[e] \cup {s} \in SUBSET Stores
      BY <2>2
    <3> QED BY <2>2, <2>4, <3>1
  <2> QED BY <2>1, <2>3, <2>4
<1>2. \/ reached' = [reached EXCEPT ![e] = reached[e] \cup {s}]
      \/ ~(s \in gone'[e]) /\ reached' = [reached EXCEPT ![e] = reached[e]]
  BY DEF Carry
<1>3. [reached EXCEPT ![e] = reached[e]] = reached
  BY DEF TypeOK
<1>4. reached \in [Erasures -> SUBSET Stores]
  BY DEF TypeOK
<1> QED BY <1>1, <1>2, <1>3, <1>4

\* The jobs an attempt reads from the log.
LEMMA PendingJobs ==
    ASSUME IInv, NEW S \in SUBSET Erasures
    PROVE  /\ Pending(S) \in SUBSET Job
           /\ \A j \in Pending(S) : approval[j.of] = "approved" /\ j.attempts < MaxAttempts
BY DEF Pending, Job, IInv, BelowLimit

LEMMA InitInv == Init => IInv
<1> SUFFICES ASSUME Init PROVE IInv
  OBVIOUS
<1>1. /\ 0 \in 0..MaxAttempts /\ 1 \in 0..MaxAttempts /\ 0 < MaxAttempts
      /\ 0 \in 0..(ReapplyEvery - 1) /\ 0 \in 0..MaxFaults
  BY AttemptsAssumption, TicksAssumption, BoundsAssumption
<1>2. TypeOK
  <2>1. stores \in [Erasures -> [Stores -> Part]]
    BY <1>1 DEF Init, Part
  <2>2. gone \in [Erasures -> SUBSET Stores] /\ reached \in [Erasures -> SUBSET Stores]
    BY DEF Init
  <2>3. approval \in [Erasures -> {"none", "proposed", "approved", "declined"}]
    BY DEF Init
  <2>4. completed \in [Erasures -> BOOLEAN]
    BY DEF Init
  <2>5. parties \in [Erasures -> [by : People \cup {None}, decided : People \cup {None}]]
    <3>1. CASE Logged = {}
      BY <3>1 DEF Init, Promise!Known
    <3>2. CASE Logged # {}
      <4>1. PICK p, q \in People : p # q
        BY <3>2, LogAssumption
      <4>2. [by |-> p, decided |-> q] \in [by : People, decided : People]
        OBVIOUS
      <4>3. Promise!Pair \in [by : People, decided : People]
        BY <4>1, <4>2 DEF Promise!Pair
      <4> QED BY <4>3 DEF Init, Promise!Known
    <3> QED BY <3>1, <3>2
  <2> QED BY <1>1, <2>1, <2>2, <2>3, <2>4, <2>5 DEF Init, TypeOK, Asleep, Part
<1>3. Quiet
  BY DEF Init, Quiet, Asleep, Workers
<1>4. Untouched /\ BelowLimit /\ LogIsTrue
  BY <1>1 DEF Init, Untouched, BelowLimit, LogIsTrue
<1>5. HeldApproved
  BY DEF Init, HeldApproved, Asleep
<1>6. AnswerIsTrue
  BY DEF Init, AnswerIsTrue
<1> QED BY <1>2, <1>3, <1>4, <1>5, <1>6 DEF IInv

-----------------------------------------------------------------------------
\* Proposals are new: nothing is held of them.
LEMMA ProposeKeeps == ASSUME IInv, NEW p \in People, Propose(p) PROVE IInv'
<1> USE DEF IInv
<1>1. PICK e \in Erasures :
         /\ approval[e] = "none"
         /\ approval' = [approval EXCEPT ![e] = "proposed"]
         /\ parties' = [parties EXCEPT ![e] = [by |-> p, decided |-> None]]
         /\ stores' = [stores EXCEPT ![e] = [s \in Stores |-> [state |-> "pending", attempts |-> 0]]]
         /\ UNCHANGED <<expired, completed, request, todo, answer, loop, gone, reached, faults>>
  BY DEF Propose
<1>2. 0 \in 0..MaxAttempts /\ 0 < MaxAttempts
  BY AttemptsAssumption
<1>3. stores' \in [Erasures -> [Stores -> Part]]
  BY <1>1, <1>2 DEF TypeOK, Part
<1>4. TypeOK'
  BY <1>1, <1>3 DEF TypeOK, Part
<1>5. \A f \in Erasures, s \in Stores :
         stores'[f][s] = stores[f][s] \/ (stores'[f][s].state = "pending" /\ stores'[f][s].attempts = 0)
  BY <1>1 DEF TypeOK
<1>6. BelowLimit' /\ LogIsTrue'
  BY <1>1, <1>2, <1>5 DEF BelowLimit, LogIsTrue
<1>7. HeldApproved'
  BY <1>1 DEF TypeOK, HeldApproved, Job
<1>8. AnswerIsTrue' /\ Quiet'
  BY <1>1 DEF AnswerIsTrue, Quiet
<1>9. Untouched'
  BY <1>1 DEF Untouched, TypeOK
<1> QED BY <1>4, <1>6, <1>7, <1>8, <1>9

\* A decision is of a proposal, and an approval starts with jobs of its own erasure.
LEMMA DecideKeeps == ASSUME IInv, NEW p \in People, Decide(p) PROVE IInv'
<1> USE DEF IInv
<1> DEFINE e == request[p].of
           new == IF request[p].to = "approved"
                  THEN { [of |-> e, store |-> s, attempts |-> stores[e][s].attempts] : s \in Stores }
                  ELSE {}
<1>1. /\ request[p] # Idle /\ e \in Erasures /\ request[p].to \in {"approved", "declined"} /\ approval[e] = "proposed"
      /\ approval' = [approval EXCEPT ![e] = request[p].to]
      /\ parties' = [parties EXCEPT ![e] = [by |-> parties[e].by, decided |-> p]]
      /\ todo' = [todo EXCEPT ![p] = new]
      /\ request' = [request EXCEPT ![p] = Idle]
      /\ UNCHANGED <<expired, stores, completed, answer, loop, gone, reached, faults>>
  BY DEF Decide, Decidable, TypeOK
<1> HIDE DEF new
<1>2. p \in Workers
  BY DEF Workers
<1>3. new \in SUBSET Job /\ \A j \in new : j.of = e /\ (request[p].to = "approved") /\ j.store \in Stores
                                            /\ j.attempts = stores[e][j.store].attempts
  BY <1>1 DEF new, TypeOK, Job
<1>4. TypeOK'
  <2>1. parties' \in [Erasures -> [by : People \cup {None}, decided : People \cup {None}]]
    BY <1>1 DEF TypeOK
  <2>2. approval' \in [Erasures -> {"none", "proposed", "approved", "declined"}]
    BY <1>1 DEF TypeOK
  <2>3. todo' \in [Workers -> SUBSET Job]
    BY <1>1, <1>2, <1>3 DEF TypeOK
  <2>4. request' \in [People -> {Idle} \cup [to : {"approved", "declined"}, of : Erasures]]
    BY <1>1 DEF TypeOK
  <2> QED BY <1>1, <2>1, <2>2, <2>3, <2>4 DEF TypeOK
<1>5. \A w \in Workers : \A j \in todo'[w] : j \in todo[w] \/ j \in new
  BY <1>1, <1>2 DEF TypeOK
<1>6. HeldApproved'
  BY <1>1, <1>3, <1>5 DEF TypeOK, HeldApproved, Job
<1>7. todo[p] = {} /\ answer[p] = "none"
  BY <1>1, <1>2 DEF Quiet
<1>8. BelowLimit'
  BY <1>1, <1>3, <1>5 DEF BelowLimit, Untouched, TypeOK
<1>9. AnswerIsTrue'
  <2> SUFFICES ASSUME NEW w \in Workers, NEW j \in todo'[w], answer'[w] = "ok", First(j, todo'[w])
               PROVE  j.store \in reached'[j.of]
    BY DEF AnswerIsTrue, First
  <2>1. w # p
    BY <1>1, <1>7
  <2>2. todo'[w] = todo[w]
    BY <1>1, <2>1 DEF TypeOK
  <2> QED BY <1>1, <2>2 DEF AnswerIsTrue
<1>10. Quiet'
  <2>1. \A w \in Workers : w # p => todo'[w] = todo[w]
    BY <1>1 DEF TypeOK
  <2>2. \A q \in People : q # p => request'[q] = request[q]
    BY <1>1 DEF TypeOK
  <2>3. request'[p] = Idle
    BY <1>1 DEF TypeOK
  <2>4. \A r \in Replicas : r # p
    BY ActorsAssumption
  <2> QED BY <1>1, <1>7, <2>1, <2>2, <2>3, <2>4 DEF Quiet, Workers
<1>11. Untouched'
  BY <1>1 DEF Untouched, TypeOK
<1>12. LogIsTrue'
  BY <1>1 DEF LogIsTrue
<1> QED BY <1>4, <1>6, <1>8, <1>9, <1>10, <1>11, <1>12

-----------------------------------------------------------------------------
\* A reader's and a clock's steps, which leave what attempts hold alone.
LEMMA ReadKeeps ==
    ASSUME IInv, NEW p \in People, NEW e \in Erasures, NEW to \in {"approved", "declined"}, Read(p, to, e)
    PROVE  IInv'
<1> USE DEF IInv, Read, log
<1>1. TypeOK'
  BY DEF TypeOK
<1>2. Quiet'
  BY DEF Quiet, TypeOK
<1> QED BY <1>1, <1>2 DEF Untouched, BelowLimit, HeldApproved, AnswerIsTrue, LogIsTrue

LEMMA RefuseKeeps == ASSUME IInv, NEW p \in People, Refuse(p) PROVE IInv'
<1> USE DEF IInv, Refuse, log
<1>1. TypeOK'
  BY DEF TypeOK
<1>2. Quiet'
  BY DEF Quiet, TypeOK
<1> QED BY <1>1, <1>2 DEF Untouched, BelowLimit, HeldApproved, AnswerIsTrue, LogIsTrue

LEMMA ExpireKeeps == ASSUME IInv, NEW e \in Erasures, Expire(e) PROVE IInv'
<1> USE DEF IInv, Expire
<1>1. TypeOK'
  BY DEF TypeOK
<1> QED BY <1>1 DEF Untouched, BelowLimit, HeldApproved, AnswerIsTrue, LogIsTrue, Quiet

\* A worker whose jobs become `left` and who waits for no answer.
LEMMA LeftKeeps ==
    ASSUME IInv, NEW w \in Workers, NEW left \in SUBSET todo[w],
           todo' = [todo EXCEPT ![w] = left], answer' = [answer EXCEPT ![w] = "none"],
           reached' = reached
    PROVE  /\ todo' \in [Workers -> SUBSET Job]
           /\ answer' \in [Workers -> {"none", "ok", "error"}]
           /\ \A v \in Workers : todo'[v] \subseteq todo[v]
           /\ \A v \in Workers : todo'[v] = {} => answer'[v] = "none"
           /\ AnswerIsTrue'
<1> USE DEF IInv
<1>1. todo[w] \in SUBSET Job
  BY DEF TypeOK
<1>2. todo' \in [Workers -> SUBSET Job] /\ answer' \in [Workers -> {"none", "ok", "error"}]
  BY <1>1 DEF TypeOK
<1>3. /\ todo'[w] = left /\ answer'[w] = "none"
      /\ \A v \in Workers : v # w => todo'[v] = todo[v] /\ answer'[v] = answer[v]
  BY DEF TypeOK
<1>4. AnswerIsTrue'
  BY <1>3 DEF AnswerIsTrue, First
<1> QED BY <1>2, <1>3, <1>4 DEF Quiet

LEMMA GoesOnKeeps ==
    ASSUME IInv, NEW w \in Workers, NEW j \in todo[w], Goes_On(w, todo[w] \ {j}),
           approval' = approval, request' = request, reached' = reached
    PROVE  /\ todo' \in [Workers -> SUBSET Job]
           /\ answer' \in [Workers -> {"none", "ok", "error"}]
           /\ loop' \in [Replicas -> [phase : {"sleep", "reapply", "resend", "attempt"},
                                      tick : 0..(ReapplyEvery - 1), again : SUBSET Erasures]]
           /\ \A v \in Workers : todo'[v] \subseteq todo[v]
           /\ AnswerIsTrue' /\ Quiet' /\ HeldApproved'
<1> DEFINE left == todo[w] \ {j}
<1>1. /\ todo' = [todo EXCEPT ![w] = left]
      /\ answer' = [answer EXCEPT ![w] = "none"]
      /\ loop' = IF w \in Replicas /\ left = {} THEN [loop EXCEPT ![w] = Asleep(loop[w].tick)] ELSE loop
  BY DEF Goes_On
<1>2. left \in SUBSET todo[w]
  OBVIOUS
<1> HIDE DEF left
<1>3. /\ todo' \in [Workers -> SUBSET Job]
      /\ answer' \in [Workers -> {"none", "ok", "error"}]
      /\ \A v \in Workers : todo'[v] \subseteq todo[v]
      /\ \A v \in Workers : todo'[v] = {} => answer'[v] = "none"
      /\ AnswerIsTrue'
  BY <1>1, <1>2, LeftKeeps
<1>4. loop' \in [Replicas -> [phase : {"sleep", "reapply", "resend", "attempt"},
                              tick : 0..(ReapplyEvery - 1), again : SUBSET Erasures]]
  BY <1>1 DEF IInv, TypeOK, Asleep
<1>5. \A r \in Replicas : \/ loop'[r] = loop[r]
                          \/ r = w /\ left = {} /\ loop'[r].again = {}
  BY <1>1 DEF IInv, TypeOK, Asleep
<1>6. HeldApproved'
  BY <1>3, <1>5 DEF IInv, HeldApproved
<1>7. todo'[w] = left
  BY <1>1 DEF IInv, TypeOK
<1>8. Quiet'
  BY <1>3, <1>5, <1>7 DEF IInv, Quiet, Workers
<1> QED BY <1>3, <1>4, <1>6, <1>8

LEMMA HangupKeeps == ASSUME IInv, NEW p \in People, Hangup(p) PROVE IInv'
<1>1. p \in Workers
  BY DEF Workers
<1>2. /\ todo' \in [Workers -> SUBSET Job]
      /\ answer' \in [Workers -> {"none", "ok", "error"}]
      /\ \A v \in Workers : todo'[v] \subseteq todo[v]
      /\ \A v \in Workers : todo'[v] = {} => answer'[v] = "none"
      /\ AnswerIsTrue'
  BY <1>1, LeftKeeps DEF Hangup
<1>3. TypeOK'
  BY <1>2 DEF IInv, TypeOK, Hangup, log
<1>4. Quiet' /\ HeldApproved' /\ BelowLimit'
  BY <1>2 DEF IInv, Quiet, HeldApproved, BelowLimit, Hangup, log, Workers
<1>5. Untouched' /\ LogIsTrue'
  BY DEF IInv, Untouched, LogIsTrue, Hangup, log
<1> QED BY <1>2, <1>3, <1>4, <1>5 DEF IInv

LEMMA RestartKeeps == ASSUME IInv, NEW r \in Replicas, Restart(r) PROVE IInv'
<1>1. r \in Workers
  BY DEF Workers
<1>2. /\ todo' \in [Workers -> SUBSET Job]
      /\ answer' \in [Workers -> {"none", "ok", "error"}]
      /\ \A v \in Workers : todo'[v] \subseteq todo[v]
      /\ \A v \in Workers : todo'[v] = {} => answer'[v] = "none"
      /\ AnswerIsTrue'
  BY <1>1, LeftKeeps DEF Restart
<1>3. 0 \in 0..(ReapplyEvery - 1) /\ faults' \in 0..MaxFaults
  BY TicksAssumption, BoundsAssumption DEF IInv, TypeOK, Restart
<1>4. loop' \in [Replicas -> [phase : {"sleep", "reapply", "resend", "attempt"},
                              tick : 0..(ReapplyEvery - 1), again : SUBSET Erasures]]
  BY <1>3 DEF IInv, TypeOK, Restart, Asleep
<1>5. TypeOK'
  BY <1>2, <1>3, <1>4 DEF IInv, TypeOK, Restart, log
<1>6. \A q \in Replicas : loop'[q] = loop[q] \/ (q = r /\ loop'[q].again = {})
  BY DEF IInv, TypeOK, Restart, Asleep
<1>7. todo'[r] = {}
  BY <1>1 DEF IInv, TypeOK, Restart
<1>8. Quiet' /\ HeldApproved' /\ BelowLimit'
  BY <1>2, <1>6, <1>7 DEF IInv, Quiet, HeldApproved, BelowLimit, Restart, log, Workers
<1>9. Untouched' /\ LogIsTrue'
  BY DEF IInv, Untouched, LogIsTrue, Restart, log
<1> QED BY <1>2, <1>5, <1>8, <1>9 DEF IInv

-----------------------------------------------------------------------------
\* A step that asks a store on behalf of a job, or of a re-application: only more is reached.
LEMMA ReachedGrows ==
    ASSUME IInv, \A f \in Erasures : reached[f] \subseteq reached'[f], UNCHANGED <<stores, todo, approval>>
    PROVE  Untouched' /\ BelowLimit' /\ LogIsTrue'
<1>1. Untouched' /\ BelowLimit'
  BY DEF IInv, Untouched, BelowLimit
<1>2. LogIsTrue'
  BY DEF IInv, LogIsTrue
<1> QED BY <1>1, <1>2

LEMMA AskKeeps == ASSUME IInv, NEW w \in Workers, Ask(w) PROVE IInv'
<1>1. PICK j \in todo[w], ok \in BOOLEAN :
         /\ answer[w] = "none" /\ First(j, todo[w]) /\ Carry(j.of, j.store, ok)
         /\ answer' = [answer EXCEPT ![w] = IF ok THEN "ok" ELSE "error"]
         /\ UNCHANGED <<log, request, todo, loop, faults>>
  BY DEF Ask
<1>2. j.of \in Erasures /\ j.store \in Stores
  BY DEF IInv, TypeOK, Job
<1>3. /\ gone' \in [Erasures -> SUBSET Stores]
      /\ reached' \in [Erasures -> SUBSET Stores]
      /\ \A f \in Erasures : reached[f] \subseteq reached'[f]
      /\ ok => j.store \in reached'[j.of]
  BY <1>1, <1>2, CarryKeeps DEF IInv
<1>4. TypeOK'
  BY <1>1, <1>3 DEF IInv, TypeOK, log
<1>5. Untouched' /\ BelowLimit' /\ LogIsTrue'
  BY <1>1, <1>3, ReachedGrows DEF log
<1>6. HeldApproved'
  BY <1>1 DEF IInv, HeldApproved, log
<1>7. \A v \in Workers : v # w => answer'[v] = answer[v]
  BY <1>1 DEF IInv, TypeOK
<1>8. answer'[w] = "ok" => ok
  BY <1>1 DEF IInv, TypeOK
<1>9. AnswerIsTrue'
  <2> SUFFICES ASSUME NEW v \in Workers, NEW k \in todo[v], answer'[v] = "ok", First(k, todo[v])
               PROVE  k.store \in reached'[k.of]
    BY <1>1 DEF AnswerIsTrue, First
  <2>1. CASE v # w
    BY <1>3, <1>7, <2>1 DEF IInv, TypeOK, AnswerIsTrue, Job
  <2>2. CASE v = w
    <3>1. k.of = j.of /\ k.store = j.store
      <4>1. j \in Job /\ k \in Job
        BY <2>2 DEF IInv, TypeOK
      <4>2. Before(j, k) /\ Before(k, j)
        BY <1>1, <2>2 DEF First
      <4>3. j.of \in Int /\ k.of \in Int /\ j.store \in DOMAIN Place /\ k.store \in DOMAIN Place
        BY <4>1, StoresAssumption, BoundsAssumption DEF Job, Erasures
      <4>4. \A s \in DOMAIN Place : Place[s] \in Int
        BY DEF Place
      <4>5. j.of = k.of /\ Place[j.store] = Place[k.store]
        BY <4>2, <4>3, <4>4 DEF Before
      <4>6. \A s, t \in DOMAIN Place : Place[s] = Place[t] => s = t
        BY DEF Place
      <4> QED BY <4>3, <4>5, <4>6
    <3> QED BY <1>3, <1>8, <2>2, <3>1
  <2> QED BY <2>1, <2>2
<1>10. Quiet'
  BY <1>1, <1>7 DEF IInv, Quiet
<1> QED BY <1>4, <1>5, <1>6, <1>9, <1>10 DEF IInv

\* The saved state of a store is what its own answer, or an earlier one, makes it.
LEMMA SaveKeeps == ASSUME IInv, NEW w \in Workers, Save(w) PROVE IInv'
<1>1. PICK j \in todo[w] :
         /\ answer[w] # "none" /\ First(j, todo[w])
         /\ stores' = [stores EXCEPT ![j.of] =
                          [stores[j.of] EXCEPT ![j.store] = After(j.attempts, answer[w] = "ok")]]
         /\ Completes(j.of, [stores[j.of] EXCEPT ![j.store] = After(j.attempts, answer[w] = "ok")])
         /\ Goes_On(w, todo[w] \ {j})
         /\ UNCHANGED <<approval, parties, expired, request, gone, reached, faults>>
  BY DEF Save
<1>2. j.of \in Erasures /\ j.store \in Stores /\ j.attempts \in 0..MaxAttempts /\ j.attempts < MaxAttempts
  BY DEF IInv, TypeOK, Job, BelowLimit
<1> DEFINE now == After(j.attempts, answer[w] = "ok")
<1>3. /\ now \in Part
      /\ now.state = "done" <=> answer[w] = "ok"
      /\ now.state = "pending" => now.attempts < MaxAttempts
      /\ now.state = "failed" => now.attempts = MaxAttempts
  BY <1>2, AfterPart
<1> HIDE DEF now
<1>4. /\ todo' \in [Workers -> SUBSET Job]
      /\ answer' \in [Workers -> {"none", "ok", "error"}]
      /\ loop' \in [Replicas -> [phase : {"sleep", "reapply", "resend", "attempt"},
                                 tick : 0..(ReapplyEvery - 1), again : SUBSET Erasures]]
      /\ \A v \in Workers : todo'[v] \subseteq todo[v]
      /\ AnswerIsTrue' /\ Quiet' /\ HeldApproved'
  BY <1>1, GoesOnKeeps
<1>5. stores \in [Erasures -> [Stores -> Part]]
  BY DEF IInv, TypeOK, Part
<1>6. /\ stores' \in [Erasures -> [Stores -> Part]]
      /\ \A e \in Erasures, s \in Stores :
            stores'[e][s] = IF e = j.of /\ s = j.store THEN now ELSE stores[e][s]
  BY <1>1, <1>2, <1>3, <1>5 DEF now
<1>7. TypeOK'
  <2>1. completed' \in [Erasures -> BOOLEAN]
    BY <1>1, <1>2 DEF IInv, TypeOK, Completes, AllDone
  <2> QED BY <1>1, <1>4, <1>6, <2>1 DEF IInv, TypeOK, Part
<1>8. BelowLimit'
  BY <1>3, <1>4, <1>6 DEF IInv, BelowLimit
<1>9. answer[w] = "ok" => j.store \in reached[j.of]
  BY <1>1 DEF IInv, AnswerIsTrue
<1>10. LogIsTrue'
  BY <1>1, <1>3, <1>6, <1>9 DEF IInv, LogIsTrue
<1>11. approval[j.of] = "approved"
  BY DEF IInv, HeldApproved
<1>12. Untouched'
  BY <1>1, <1>6, <1>11 DEF IInv, Untouched
<1> QED BY <1>4, <1>7, <1>8, <1>10, <1>12 DEF IInv

LEMMA SaveLostKeeps == ASSUME IInv, NEW w \in Workers, SaveLost(w) PROVE IInv'
<1>1. PICK j \in todo[w] : Goes_On(w, todo[w] \ {j})
  BY DEF SaveLost
<1>2. /\ todo' \in [Workers -> SUBSET Job]
      /\ answer' \in [Workers -> {"none", "ok", "error"}]
      /\ loop' \in [Replicas -> [phase : {"sleep", "reapply", "resend", "attempt"},
                                 tick : 0..(ReapplyEvery - 1), again : SUBSET Erasures]]
      /\ \A v \in Workers : todo'[v] \subseteq todo[v]
      /\ AnswerIsTrue' /\ Quiet' /\ HeldApproved'
  BY <1>1, GoesOnKeeps DEF SaveLost, log
<1>3. faults' \in 0..MaxFaults
  BY BoundsAssumption DEF IInv, TypeOK, SaveLost
<1>4. TypeOK'
  BY <1>2, <1>3 DEF IInv, TypeOK, SaveLost, log
<1>5. BelowLimit' /\ Untouched' /\ LogIsTrue'
  BY <1>2 DEF IInv, BelowLimit, Untouched, LogIsTrue, SaveLost, log
<1> QED BY <1>2, <1>4, <1>5 DEF IInv

-----------------------------------------------------------------------------
\* The loop's own steps.
LEMMA TickKeeps == ASSUME IInv, NEW r \in Replicas, TickReapplies(r) PROVE IInv'
<1>1. NextTick(r) \in 0..(ReapplyEvery - 1)
  BY TicksAssumption DEF NextTick, IInv, TypeOK
<1>2. Reappliable \in SUBSET Erasures /\ \A e \in Reappliable : approval[e] = "approved"
  BY DEF Reappliable
<1>3. TypeOK'
  BY <1>1, <1>2 DEF IInv, TypeOK, TickReapplies, log
<1>4. \A q \in Replicas : loop'[q] = loop[q] \/ (q = r /\ loop'[q].again = Reappliable)
  BY DEF IInv, TypeOK, TickReapplies
<1>5. HeldApproved'
  BY <1>2, <1>4 DEF IInv, HeldApproved, TickReapplies, log
<1>6. \A q \in Replicas : loop'[q] = loop[q] \/ (q = r /\ loop[q].phase = "sleep")
  BY DEF IInv, TypeOK, TickReapplies
<1>7. Quiet'
  BY <1>6 DEF IInv, Quiet, TickReapplies
<1>8. BelowLimit' /\ Untouched' /\ LogIsTrue' /\ AnswerIsTrue'
  BY DEF IInv, BelowLimit, Untouched, LogIsTrue, AnswerIsTrue, TickReapplies, log
<1> QED BY <1>3, <1>5, <1>7, <1>8 DEF IInv

LEMMA ReapplyKeeps ==
    ASSUME IInv, NEW r \in Replicas, NEW e \in Erasures, Resend(r, e) \/ ResendFails(r, e)
    PROVE  IInv'
<1>1. PICK ok \in BOOLEAN, left \in SUBSET loop[r].again :
         /\ loop[r].phase = "resend" /\ e \in loop[r].again /\ Carry(e, "broker", ok)
         /\ loop' = [loop EXCEPT ![r].again = left]
         /\ UNCHANGED <<log, request, todo, answer, faults>>
  <2>1. CASE Resend(r, e)
    <3>1. loop[r].again \ {e} \in SUBSET loop[r].again /\ TRUE \in BOOLEAN
      OBVIOUS
    <3> QED BY <2>1, <3>1 DEF Resend, Oldest
  <2>2. CASE ResendFails(r, e)
    <3>1. {} \in SUBSET loop[r].again /\ FALSE \in BOOLEAN
      OBVIOUS
    <3> QED BY <2>2, <3>1 DEF ResendFails, Oldest
  <2> QED BY <2>1, <2>2
<1>2. /\ gone' \in [Erasures -> SUBSET Stores]
      /\ reached' \in [Erasures -> SUBSET Stores]
      /\ \A f \in Erasures : reached[f] \subseteq reached'[f]
  BY <1>1, CarryKeeps, StoresAssumption DEF IInv
<1>3. TypeOK'
  BY <1>1, <1>2 DEF IInv, TypeOK, log
<1>4. Untouched' /\ BelowLimit' /\ LogIsTrue'
  BY <1>1, <1>2, ReachedGrows DEF log
<1>5. \A q \in Replicas : loop'[q].again \subseteq loop[q].again /\ loop'[q].phase = loop[q].phase
  BY <1>1 DEF IInv, TypeOK
<1>6. HeldApproved'
  BY <1>1, <1>5 DEF IInv, HeldApproved, log
<1>7. Quiet'
  BY <1>1, <1>5 DEF IInv, Quiet
<1>8. AnswerIsTrue'
  <2> SUFFICES ASSUME NEW v \in Workers, NEW k \in todo[v], answer[v] = "ok", First(k, todo[v])
               PROVE  k.store \in reached'[k.of]
    BY <1>1 DEF AnswerIsTrue, First
  <2>1. k.of \in Erasures /\ k.store \in reached[k.of]
    BY DEF IInv, TypeOK, AnswerIsTrue, Job
  <2> QED BY <1>2, <2>1
<1> QED BY <1>3, <1>4, <1>6, <1>7, <1>8 DEF IInv

LEMMA RecordsKeep == ASSUME IInv, NEW r \in Replicas, ReadRecords(r) \/ RecordsFail(r) PROVE IInv'
<1>1. PICK left \in SUBSET loop[r].again :
         /\ loop[r].phase = "reapply"
         /\ loop' = [loop EXCEPT ![r] = Resends(loop[r].tick, left)]
         /\ UNCHANGED <<log, request, todo, answer, gone, reached, faults>>
  <2>1. CASE ReadRecords(r)
    <3>1. { e \in loop[r].again : ~Recorded(e) } \in SUBSET loop[r].again
      OBVIOUS
    <3> QED BY <2>1, <3>1 DEF ReadRecords
  <2>2. CASE RecordsFail(r)
    <3>1. {} \in SUBSET loop[r].again
      OBVIOUS
    <3> QED BY <2>2, <3>1 DEF RecordsFail
  <2> QED BY <2>1, <2>2
<1>2. \A q \in Replicas :
         loop'[q] = loop[q] \/ (q = r /\ loop[q].phase = "reapply" /\ loop'[q].again \subseteq loop[q].again)
  BY <1>1 DEF IInv, TypeOK, Resends
<1>3. TypeOK'
  <2>1. loop[r].again \in SUBSET Erasures /\ loop[r].tick \in 0..(ReapplyEvery - 1)
    BY DEF IInv, TypeOK
  <2>2. left \in SUBSET Erasures
    BY <2>1
  <2>3. loop' \in [Replicas -> [phase : {"sleep", "reapply", "resend", "attempt"},
                                tick : 0..(ReapplyEvery - 1), again : SUBSET Erasures]]
    BY <1>1, <2>1, <2>2 DEF IInv, TypeOK, Resends
  <2> QED BY <1>1, <2>3 DEF IInv, TypeOK, log
<1>4. HeldApproved' /\ Quiet'
  BY <1>1, <1>2 DEF IInv, HeldApproved, Quiet, log
<1>5. BelowLimit' /\ Untouched' /\ LogIsTrue' /\ AnswerIsTrue'
  BY <1>1 DEF IInv, BelowLimit, Untouched, LogIsTrue, AnswerIsTrue, log
<1> QED BY <1>3, <1>4, <1>5 DEF IInv

LEMMA ReadOpenKeeps == ASSUME IInv, NEW r \in Replicas, ReadOpen(r) PROVE IInv'
<1> DEFINE new == Pending(Open)
           tick == IF loop[r].phase = "sleep" THEN NextTick(r) ELSE loop[r].tick
<1>1. r \in Workers
  BY DEF Workers
<1>2. Open \in SUBSET Erasures
  BY DEF Open
<1>3. new \in SUBSET Job /\ \A j \in new : approval[j.of] = "approved" /\ j.attempts < MaxAttempts
  BY <1>2, PendingJobs
<1>4. /\ loop[r].phase # "attempt"
      /\ todo' = [todo EXCEPT ![r] = new]
      /\ loop' = [loop EXCEPT ![r] = IF new = {} THEN Asleep(tick)
                                     ELSE [phase |-> "attempt", tick |-> tick, again |-> {}]]
      /\ UNCHANGED <<log, request, answer, gone, reached, faults>>
  BY DEF ReadOpen
<1>5. tick \in 0..(ReapplyEvery - 1)
  BY TicksAssumption DEF NextTick, IInv, TypeOK
<1> HIDE DEF new, tick
<1>6. todo[r] = {} /\ answer[r] = "none"
  BY <1>1, <1>4 DEF IInv, Quiet
<1>7. todo' \in [Workers -> SUBSET Job]
  BY <1>1, <1>3, <1>4 DEF IInv, TypeOK
<1>8. loop' \in [Replicas -> [phase : {"sleep", "reapply", "resend", "attempt"},
                              tick : 0..(ReapplyEvery - 1), again : SUBSET Erasures]]
  BY <1>4, <1>5 DEF IInv, TypeOK, Asleep
<1>9. TypeOK'
  BY <1>4, <1>7, <1>8 DEF IInv, TypeOK, log
<1>10. todo'[r] = new /\ \A v \in Workers : v # r => todo'[v] = todo[v]
  BY <1>1, <1>4 DEF IInv, TypeOK
<1>11. \A q \in Replicas : \/ q # r /\ loop'[q] = loop[q]
                           \/ q = r /\ loop'[q].again = {} /\ (new = {} \/ loop'[q].phase = "attempt")
  BY <1>4 DEF IInv, TypeOK, Asleep
<1>12. HeldApproved' /\ BelowLimit'
  BY <1>3, <1>4, <1>10, <1>11 DEF IInv, HeldApproved, BelowLimit, log
<1>13. AnswerIsTrue'
  BY <1>4, <1>6, <1>10 DEF IInv, AnswerIsTrue
<1>14. Quiet'
  <2>1. \A p \in People : p # r
    BY ActorsAssumption
  <2> QED BY <1>4, <1>6, <1>10, <1>11, <2>1 DEF IInv, Quiet, Workers
<1>15. Untouched' /\ LogIsTrue'
  BY <1>4 DEF IInv, Untouched, LogIsTrue, log
<1> QED BY <1>9, <1>12, <1>13, <1>14, <1>15 DEF IInv

LEMMA RestoreKeeps == ASSUME IInv, Restore PROVE IInv'
<1>1. faults' \in 0..MaxFaults
  BY BoundsAssumption DEF IInv, TypeOK, Restore
<1>2. gone' \in [Erasures -> SUBSET Stores]
  BY DEF IInv, TypeOK, Restore
<1>3. TypeOK'
  BY <1>1, <1>2 DEF IInv, TypeOK, Restore, log
<1> QED BY <1>3 DEF IInv, Untouched, Quiet, BelowLimit, HeldApproved, AnswerIsTrue, LogIsTrue, Restore, log

-----------------------------------------------------------------------------
\* Every step keeps the invariant.
LEMMA StepInv == IInv /\ [Next]_vars => IInv'
<1> SUFFICES ASSUME IInv, [Next]_vars PROVE IInv'
  OBVIOUS
<1>1. ASSUME NEW p \in People, Request(p) PROVE IInv'
  BY <1>1, ProposeKeeps, DecideKeeps, RefuseKeeps, HangupKeeps, ReadKeeps DEF Request
<1>2. ASSUME NEW w \in Workers, Ask(w) \/ Save(w) \/ SaveLost(w) PROVE IInv'
  BY <1>2, AskKeeps, SaveKeeps, SaveLostKeeps
<1>3. ASSUME NEW r \in Replicas, Loop(r) \/ Restart(r) PROVE IInv'
  BY <1>3, TickKeeps, RecordsKeep, ReadOpenKeeps, ReapplyKeeps, RestartKeeps DEF Loop
<1>4. ASSUME NEW e \in Erasures, Expire(e) PROVE IInv'
  BY <1>4, ExpireKeeps
<1>5. CASE UNCHANGED vars
  BY <1>5 DEF vars, log, IInv, TypeOK, Untouched, Quiet, BelowLimit, HeldApproved, AnswerIsTrue, LogIsTrue
<1> QED BY <1>1, <1>2, <1>3, <1>4, <1>5, RestoreKeeps DEF Next

LEMMA Invariance == Spec => []IInv
<1>1. Init => IInv
  BY InitInv
<1>2. IInv /\ [Next]_vars => IInv'
  BY StepInv
<1> QED BY <1>1, <1>2, PTL DEF Spec

\* Every variable keeps its shape (the whole of erasure.rs's state): the count of attempts the log
\* and the jobs carry stays within MaxAttempts, and no job names what the log does not hold.  How
\* often a store is asked is another matter: an attempt whose save is lost, one of a second
\* worker and a re-application are asked beside the count.
THEOREM ErasureTypes == Spec => []TypeOK
<1>1. IInv => TypeOK
  BY DEF IInv
<1> QED BY <1>1, Invariance, PTL

\* The log never says more than what happened (attempt and save): a store that reads done was
\* reached, one that reads failed carries the count MaxAttempts, however attempts overlap.
THEOREM LogTruth == Spec => []LogIsTrue
<1>1. IInv => LogIsTrue
  BY DEF IInv
<1> QED BY <1>1, Invariance, PTL

-----------------------------------------------------------------------------
\* A store asked for an approved erasure is a step of the promise.
LEMMA CarryImplements ==
    ASSUME IInv, NEW e \in Erasures, NEW s \in Stores, NEW ok \in BOOLEAN, Carry(e, s, ok),
           approval[e] = "approved", UNCHANGED <<approval, parties, completed>>
    PROVE  [Promise!Next]_(Promise!vars)
<1>1. reached' = reached \/ reached' = [reached EXCEPT ![e] = reached[e] \cup {s}]
  BY CarryKeeps DEF IInv
<1>2. CASE reached' = reached
  BY <1>2 DEF Promise!vars
<1>3. CASE reached' = [reached EXCEPT ![e] = reached[e] \cup {s}]
  <2>1. Promise!Erase(e, s)
    BY <1>3 DEF Promise!Erase
  <2> QED BY <2>1 DEF Promise!Next
<1> QED BY <1>1, <1>2, <1>3

\* A save completes an erasure only when every store was reached.
LEMMA SaveImplements ==
    ASSUME IInv, IInv', NEW w \in Workers, Save(w)
    PROVE  [Promise!Next]_(Promise!vars)
<1>1. PICK j \in todo[w] :
         /\ stores' = [stores EXCEPT ![j.of] =
                          [stores[j.of] EXCEPT ![j.store] = After(j.attempts, answer[w] = "ok")]]
         /\ Completes(j.of, [stores[j.of] EXCEPT ![j.store] = After(j.attempts, answer[w] = "ok")])
         /\ UNCHANGED <<approval, parties, reached>>
  BY DEF Save
<1>2. j.of \in Erasures
  BY DEF IInv, TypeOK, Job
<1>3. stores'[j.of] = [stores[j.of] EXCEPT ![j.store] = After(j.attempts, answer[w] = "ok")]
  BY <1>1, <1>2 DEF IInv, TypeOK
<1>4. completed' = [completed EXCEPT ![j.of] = completed[j.of] \/ AllDone(stores'[j.of])]
  BY <1>1, <1>3 DEF Completes
<1>5. CASE AllDone(stores'[j.of])
  <2>1. completed' = [completed EXCEPT ![j.of] = TRUE]
    BY <1>4, <1>5
  <2>2. \A s \in Stores : s \in reached'[j.of]
    BY <1>2, <1>5 DEF IInv, LogIsTrue, AllDone
  <2>3. reached[j.of] = Stores
    BY <1>1, <1>2, <2>2 DEF IInv, TypeOK
  <2>4. Promise!Complete(j.of)
    BY <1>1, <2>1, <2>3 DEF Promise!Complete
  <2> QED BY <1>2, <2>4 DEF Promise!Next
<1>6. CASE ~AllDone(stores'[j.of])
  <2>1. completed' = completed
    BY <1>2, <1>4, <1>6 DEF IInv, TypeOK
  <2> QED BY <1>1, <2>1 DEF Promise!vars
<1> QED BY <1>5, <1>6

LEMMA StepImplements == IInv /\ IInv' /\ [Next]_vars => [Promise!Next]_(Promise!vars)
<1> SUFFICES ASSUME IInv, IInv', [Next]_vars PROVE [Promise!Next]_(Promise!vars)
  OBVIOUS
<1>1. ASSUME NEW p \in People, Propose(p) PROVE [Promise!Next]_(Promise!vars)
  <2>1. PICK e \in Erasures : Promise!Propose(e, p)
    BY <1>1 DEF Propose, Promise!Propose
  <2> QED BY <2>1 DEF Promise!Next
<1>2. ASSUME NEW p \in People, Decide(p) PROVE [Promise!Next]_(Promise!vars)
  <2>1. request[p].of \in Erasures /\ request[p].to \in {"approved", "declined"}
    BY <1>2 DEF Decide, Decidable, IInv, TypeOK
  <2>2. Promise!Decide(request[p].of, p)
    BY <1>2, <2>1 DEF Decide, Decidable, Promise!Decide
  <2> QED BY <2>1, <2>2 DEF Promise!Next
<1>3. ASSUME NEW w \in Workers, Ask(w) PROVE [Promise!Next]_(Promise!vars)
  <2>1. PICK j \in todo[w], ok \in BOOLEAN : Carry(j.of, j.store, ok)
    BY <1>3 DEF Ask
  <2>2. j.of \in Erasures /\ j.store \in Stores /\ approval[j.of] = "approved"
    BY DEF IInv, TypeOK, Job, HeldApproved
  <2> QED BY <1>3, <2>1, <2>2, CarryImplements DEF Ask, log
<1>4. ASSUME NEW r \in Replicas, NEW e \in Erasures, Resend(r, e) \/ ResendFails(r, e)
      PROVE  [Promise!Next]_(Promise!vars)
  <2>1. approval[e] = "approved" /\ UNCHANGED <<approval, parties, completed>>
    BY <1>4 DEF Resend, ResendFails, Oldest, IInv, HeldApproved, log
  <2>2. Carry(e, "broker", TRUE) \/ Carry(e, "broker", FALSE)
    BY <1>4 DEF Resend, ResendFails
  <2> QED BY <2>1, <2>2, CarryImplements, StoresAssumption
<1>5. ASSUME UNCHANGED <<approval, parties, reached, completed>> PROVE [Promise!Next]_(Promise!vars)
  BY <1>5 DEF Promise!vars
<1>6. ASSUME NEW p \in People, Request(p) PROVE [Promise!Next]_(Promise!vars)
  BY <1>1, <1>2, <1>5, <1>6 DEF Request, Refuse, Hangup, Read, log
<1>7. ASSUME NEW w \in Workers, Ask(w) \/ Save(w) \/ SaveLost(w) PROVE [Promise!Next]_(Promise!vars)
  BY <1>3, <1>5, <1>7, SaveImplements DEF SaveLost, log
<1>8. ASSUME NEW r \in Replicas, Loop(r) \/ Restart(r) PROVE [Promise!Next]_(Promise!vars)
  BY <1>4, <1>5, <1>8 DEF Loop, TickReapplies, ReadRecords, RecordsFail, ReadOpen, Restart, log
<1>9. ASSUME NEW e \in Erasures, Expire(e) PROVE [Promise!Next]_(Promise!vars)
  BY <1>5, <1>9 DEF Expire
<1>10. CASE Restore
  BY <1>5, <1>10 DEF Restore, log
<1>11. CASE UNCHANGED vars
  BY <1>5, <1>11 DEF vars, log
<1> QED BY <1>6, <1>7, <1>8, <1>9, <1>10, <1>11 DEF Next

\* The erasures as the code runs them (approve_erasure, decline_erasure, attempt, save,
\* spawn_periodic, reapply), with every race, retry, restart and restore, implement FourEyes.
THEOREM ErasureImplementsFourEyes == Spec => KeepsPromise
<1>1. Init => Promise!Init
  BY DEF Init, Promise!Init
<1>2. IInv /\ IInv' /\ [Next]_vars => [Promise!Next]_(Promise!vars)
  BY StepImplements
<1>3. Spec => Promise!Spec
  BY <1>1, <1>2, Invariance, PTL DEF Spec, Promise!Spec
<1> QED BY <1>3 DEF KeepsPromise
=============================================================================
