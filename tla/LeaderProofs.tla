---------------------------- MODULE LeaderProofs ----------------------------
(***************************************************************************)
(* For any number of replicas, any lease and any number of faults: the     *)
(* flag agrees with the session, and a reconcile starts only under a lock  *)
(* that carries the lease.                                                 *)
(***************************************************************************)
EXTENDS Leader, TLAPS

\* What the steps write into the lock's session keeps its type and its other fields.
LEMMA SessionUpdates ==
    ASSUME NEW s \in Session_
    PROVE  /\ [s EXCEPT !.silent = 0] \in Session_
           /\ [s EXCEPT !.open = FALSE] \in Session_
           /\ [s EXCEPT !.leased = TRUE, !.silent = 0] \in Session_
           /\ [s EXCEPT !.silent = 0].by = s.by
           /\ [s EXCEPT !.silent = 0].open = s.open
           /\ [s EXCEPT !.silent = 0].leased = s.leased
           /\ [s EXCEPT !.leased = TRUE, !.silent = 0].by = s.by
           /\ [s EXCEPT !.leased = TRUE, !.silent = 0].open = s.open
           /\ [s EXCEPT !.leased = TRUE, !.silent = 0].leased
           /\ ~[s EXCEPT !.open = FALSE].open
<1>1. 0 \in 0..Lease
  BY LeaseAssumption
<1>2. /\ [s EXCEPT !.silent = 0] \in Session_
      /\ [s EXCEPT !.open = FALSE] \in Session_
      /\ [s EXCEPT !.leased = TRUE, !.silent = 0] \in Session_
  BY <1>1, Zenon DEF Session_
<1> QED BY <1>2 DEF Session_

\* The session a replica opens by taking the lock.
LEMMA SessionNew ==
    ASSUME NEW r \in Replicas
    PROVE  [by |-> r, leased |-> FALSE, silent |-> 0, open |-> TRUE] \in Session_
<1>1. 0 \in 0..Lease
  BY LeaseAssumption
<1> QED BY <1>1, Zenon DEF Session_

\* So does closing it.
LEMMA CloseType ==
    ASSUME TypeOK, NEW r \in Replicas, Close(r) PROVE lock' \in Session_ \cup {None}
BY SessionUpdates DEF TypeOK, Close, Session

\* And taking a dead connection out of `held`.
LEMMA DropTypes ==
    ASSUME TypeOK, NEW r \in Replicas, Drop(r)
    PROVE  /\ lock' \in Session_ \cup {None}
           /\ held' \in [Replicas -> BOOLEAN]
           /\ closing' \in [Replicas -> BOOLEAN]
<1>1. lock' \in Session_ \cup {None}
  BY CloseType DEF Drop
<1>2. held' \in [Replicas -> BOOLEAN] /\ closing' \in [Replicas -> BOOLEAN]
  BY Zenon DEF TypeOK, Drop
<1> QED BY <1>1, <1>2

\* Every step keeps the types.
LEMMA TypeStep == TypeOK /\ [Next]_vars => TypeOK'
<1> SUFFICES ASSUME TypeOK, [Next]_vars PROVE TypeOK'
  OBVIOUS
<1>1. CASE TimePasses
  <2>1. lock' \in Session_
    BY <1>1, LeaseAssumption DEF TimePasses, TypeOK, Session_
  <2> QED BY <1>1, <2>1, Zenon DEF TimePasses, TypeOK
<1>2. CASE ServerFrees
  BY <1>2, Zenon DEF ServerFrees, TypeOK
<1>3. ASSUME NEW r \in Replicas, Beat(r) PROVE TypeOK'
  <2>1. CASE Answers(r) /\ lock' = [lock EXCEPT !.silent = 0] /\ UNCHANGED <<held, closing>>
    BY <1>3, <2>1, SessionUpdates DEF Beat, Answers, Session, TypeOK
  <2>2. CASE Drop(r)
    BY <1>3, <2>2, DropTypes DEF Beat, TypeOK
  <2> QED BY <1>3, <2>1, <2>2 DEF Beat
<1>4. ASSUME NEW r \in Replicas, Claim(r) PROVE TypeOK'
  <2>1. CASE ClaimHeld(r)
    BY <2>1, SessionUpdates DEF ClaimHeld, Answers, Session, TypeOK
  <2>2. CASE ClaimLost(r)
    BY <2>2, DropTypes DEF ClaimLost, TypeOK
  <2>3. CASE ClaimTry(r)
    <3>1. lock' \in Session_ \cup {None}
      BY <2>3, SessionNew DEF ClaimTry, TypeOK
    <3>2. leader' \in [Replicas -> BOOLEAN]
      BY <2>3, Zenon DEF ClaimTry, TypeOK
    <3>3. pc' \in [Replicas -> {"idle", "drop", "try", "lease", "run", "follow"}]
      BY <2>3 DEF ClaimTry, TypeOK
    <3> QED BY <2>3, <3>1, <3>2, <3>3, Zenon DEF ClaimTry, TypeOK
  <2>4. CASE ClaimLease(r)
    <3>1. pc' \in [Replicas -> {"idle", "drop", "try", "lease", "run", "follow"}] /\ faults' \in Nat
      BY <2>4 DEF ClaimLease, TypeOK
    <3>2. CASE Close(r) /\ leader' = [leader EXCEPT ![r] = FALSE] /\ UNCHANGED held
      <4>1. lock' \in Session_ \cup {None}
        BY <3>2, CloseType
      <4>2. leader' \in [Replicas -> BOOLEAN]
        BY <3>2, Zenon DEF TypeOK
      <4> QED BY <2>4, <3>1, <3>2, <4>1, <4>2, Zenon DEF ClaimLease, TypeOK
    <3>3. CASE ~(Close(r) /\ leader' = [leader EXCEPT ![r] = FALSE] /\ UNCHANGED held)
      <4>1. /\ Answers(r) /\ lock' = [lock EXCEPT !.leased = TRUE, !.silent = 0]
            /\ held' = [held EXCEPT ![r] = TRUE] /\ leader' = [leader EXCEPT ![r] = TRUE]
        BY <2>4, <3>3 DEF ClaimLease
      <4>2. lock' \in Session_ \cup {None}
        BY <4>1, SessionUpdates DEF Answers, Session, TypeOK
      <4>3. held' \in [Replicas -> BOOLEAN] /\ leader' \in [Replicas -> BOOLEAN]
        BY <4>1, Zenon DEF TypeOK
      <4> QED BY <2>4, <3>1, <4>2, <4>3, Zenon DEF ClaimLease, TypeOK
    <3> QED BY <3>2, <3>3
  <2> QED BY <1>4, <2>1, <2>2, <2>3, <2>4 DEF Claim
<1>9. ASSUME NEW r \in Replicas, Demote(r) PROVE TypeOK'
  <2>1. closing' \in [Replicas -> BOOLEAN] /\ leader' \in [Replicas -> BOOLEAN]
    BY <1>9, Zenon DEF Demote, TypeOK
  <2>2. pc' \in [Replicas -> {"idle", "drop", "try", "lease", "run", "follow"}]
    BY <1>9 DEF Demote, TypeOK
  <2> QED BY <1>9, <2>1, <2>2, Zenon DEF Demote, TypeOK
<1>5. ASSUME NEW r \in Replicas, RunEnds(r) PROVE TypeOK'
  <2>2. pc' \in [Replicas -> {"idle", "drop", "try", "lease", "run", "follow"}]
    BY <1>5 DEF RunEnds, TypeOK
  <2> QED BY <1>5, <2>2, Zenon DEF RunEnds, TypeOK
<1>6. ASSUME NEW r \in Replicas, Cut(r) \/ Heal(r) PROVE TypeOK'
  <2>1. cut' \in [Replicas -> BOOLEAN]
    BY <1>6, Zenon DEF Cut, Heal, TypeOK
  <2>2. faults' \in Nat
    BY <1>6 DEF Cut, Heal, TypeOK
  <2> QED BY <1>6, <2>1, <2>2, Zenon DEF Cut, Heal, TypeOK
<1>8. ASSUME NEW r \in Replicas, NEW silent \in BOOLEAN, Die(r, silent) PROVE TypeOK'
  <2>1. lock' \in Session_ \cup {None} /\ faults' \in Nat
    <3>1. faults' \in Nat
      BY <1>8 DEF Die, TypeOK
    <3>2. lock' = lock \/ lock' = None \/ (Session(r) /\ lock' = [lock EXCEPT !.open = FALSE])
      BY <1>8, Zenon DEF Die
    <3>3. lock \in Session_ \cup {None} /\ (Session(r) => lock \in Session_)
      BY DEF Session, TypeOK
    <3>4. Session(r) => [lock EXCEPT !.open = FALSE] \in Session_
      BY <3>3, SessionUpdates, Zenon
    <3> QED BY <3>1, <3>2, <3>3, <3>4
  <2>2. /\ held' \in [Replicas -> BOOLEAN] /\ leader' \in [Replicas -> BOOLEAN]
        /\ closing' \in [Replicas -> BOOLEAN]
        /\ cut' \in [Replicas -> BOOLEAN]
    BY <1>8, Zenon DEF Die, TypeOK
  <2>3. pc' \in [Replicas -> {"idle", "drop", "try", "lease", "run", "follow"}]
    BY <1>8 DEF Die, TypeOK
  <2> QED BY <2>1, <2>2, <2>3, Zenon DEF TypeOK
<1>7. CASE UNCHANGED vars
  BY <1>7, Zenon DEF vars, TypeOK
<1> QED BY <1>1, <1>2, <1>3, <1>4, <1>5, <1>6, <1>7, <1>8, <1>9 DEF Next

\* The type invariant of the leadership holds in every behaviour.
LEMMA TypeCorrect == Spec => []TypeOK
<1>1. Init => TypeOK
  BY DEF Init, TypeOK
<1> QED BY <1>1, TypeStep, PTL DEF Spec

\* What a step must keep: the flag is the session, a connection being closed is not kept, a
\* replica that competes neither keeps nor closes one, a connection kept on a live session
\* is on one that carries the lease, and no live session holds the lock unkept.
LeadInv ==
    /\ FlagIsSession
    /\ \A r \in Replicas : closing[r] => ~held[r]
    /\ \A r \in Replicas : pc[r] \in {"try", "lease"} => ~held[r] /\ ~closing[r]
    /\ \A r \in Replicas : held[r] /\ Session(r) => lock.leased
    /\ LockIsKept

\* Every step keeps it.
LEMMA LeadStep == TypeOK /\ LeadInv /\ [Next]_vars => LeadInv'
<1> SUFFICES ASSUME TypeOK, LeadInv, [Next]_vars PROVE LeadInv'
  OBVIOUS
<1> USE DEF TypeOK, Session_, LeadInv, FlagIsSession, LockIsKept, Session
<1>1. CASE TimePasses
  BY <1>1 DEF TimePasses
<1>2. CASE ServerFrees
  BY <1>2 DEF ServerFrees
<1>3. ASSUME NEW r \in Replicas, Beat(r) PROVE LeadInv'
  <2>1. CASE Answers(r) /\ lock' = [lock EXCEPT !.silent = 0] /\ UNCHANGED <<held, closing>>
    BY <1>3, <2>1 DEF Beat, Answers
  <2>2. CASE Drop(r)
    BY <1>3, <2>2 DEF Beat, Drop, Close
  <2> QED BY <1>3, <2>1, <2>2 DEF Beat
<1>4. ASSUME NEW r \in Replicas, Claim(r) PROVE LeadInv'
  <2>1. CASE ClaimHeld(r)
    BY <2>1 DEF ClaimHeld, Answers
  <2>2. CASE ClaimLost(r)
    BY <2>2 DEF ClaimLost, Drop, Close
  <2>3. CASE ClaimTry(r)
    <3>1. ~held[r] /\ ~closing[r] /\ ~leader[r]
      BY <2>3 DEF ClaimTry
    <3>2. CASE UNCHANGED lock
      BY <2>3, <3>1, <3>2 DEF ClaimTry
    <3>3. CASE lock' # lock
      <4>1. /\ lock' = [by |-> r, leased |-> FALSE, silent |-> 0, open |-> TRUE]
            /\ UNCHANGED <<held, closing, leader>> /\ pc' = [pc EXCEPT ![r] = "lease"]
        BY <2>3, <3>3, Zenon DEF ClaimTry
      <4>2. \A s \in Replicas : Session(s)' => s = r
        BY <4>1
      <4> QED BY <3>1, <4>1, <4>2
    <3> QED BY <2>3, <3>2, <3>3 DEF ClaimTry
  <2>4. CASE ClaimLease(r)
    <3>1. CASE Close(r) /\ leader' = [leader EXCEPT ![r] = FALSE] /\ UNCHANGED held
      BY <2>4, <3>1 DEF ClaimLease, Close
    <3>2. CASE ~(Close(r) /\ leader' = [leader EXCEPT ![r] = FALSE] /\ UNCHANGED held)
      <4>1. /\ Answers(r) /\ lock' = [lock EXCEPT !.leased = TRUE, !.silent = 0]
            /\ held' = [held EXCEPT ![r] = TRUE] /\ leader' = [leader EXCEPT ![r] = TRUE]
            /\ pc' = [pc EXCEPT ![r] = "run"] /\ UNCHANGED closing
            /\ ~held[r] /\ ~closing[r]
        BY <2>4, <3>2 DEF ClaimLease
      <4>2. lock'.leased /\ lock'.by = r
        BY <4>1, SessionUpdates DEF Answers
      <4>3. \A s \in Replicas : Session(s)' => s = r
        BY <4>2
      <4> QED BY <4>1, <4>2, <4>3
    <3> QED BY <3>1, <3>2
  <2> QED BY <1>4, <2>1, <2>2, <2>3, <2>4 DEF Claim
<1>5. ASSUME NEW r \in Replicas, RunEnds(r) \/ Cut(r) \/ Heal(r)
      PROVE LeadInv'
  BY <1>5 DEF RunEnds, Cut, Heal
<1>6. ASSUME NEW r \in Replicas, NEW silent \in BOOLEAN, Die(r, silent) PROVE LeadInv'
  BY <1>6 DEF Die
<1>8. ASSUME NEW r \in Replicas, Demote(r) PROVE LeadInv'
  BY <1>8 DEF Demote
<1>7. CASE UNCHANGED vars
  BY <1>7 DEF vars
<1> QED BY <1>1, <1>2, <1>3, <1>4, <1>5, <1>6, <1>7, <1>8 DEF Next

\* It holds in every behaviour.
LEMMA LeadInvariant == Spec => []LeadInv
<1>1. Init => LeadInv
  BY DEF Init, LeadInv, FlagIsSession, LockIsKept, Session
<1> QED BY <1>1, LeadStep, TypeCorrect, PTL DEF Spec

\* is_leader() is never out of step with the connection: the flag is up exactly while the replica
\* keeps the session it took the lock on, or is closing it.
THEOREM FlagCorrect == Spec => []FlagIsSession
<1>1. LeadInv => FlagIsSession
  BY DEF LeadInv
<1> QED BY <1>1, LeadInvariant, PTL

\* No fault leaves the lock on a live session that is neither kept nor about to be: a session that
\* cannot be kept is closed, never pooled (close).
THEOREM LockKept == Spec => []LockIsKept
<1>1. LeadInv => LockIsKept
  BY DEF LeadInv
<1> QED BY <1>1, LeadInvariant, PTL

\* Whatever dies, hangs or is cut, a reconcile starts as leader only while the server holds the
\* lock, with its lease, for that replica's own session.
THEOREM RunsUnderLock == Spec => RunStartsUnderLock
<1> DEFINE Starts ==
      \A r \in Replicas : pc[r] # "run" /\ pc'[r] = "run" =>
          lock' # None /\ lock'.by = r /\ lock'.open /\ lock'.leased
<1>1. TypeOK /\ LeadInv /\ [Next]_vars => [Starts]_vars
  <2> SUFFICES ASSUME TypeOK, LeadInv, Next, NEW r \in Replicas, pc[r] # "run", pc'[r] = "run"
               PROVE lock' # None /\ lock'.by = r /\ lock'.open /\ lock'.leased
    BY DEF vars
  <2> USE DEF TypeOK
  <2>1. ~(TimePasses \/ ServerFrees)
    BY DEF TimePasses, ServerFrees
  <2>2. PICK s \in Replicas :
          \/ Beat(s) \/ Demote(s) \/ Claim(s) \/ RunEnds(s)
          \/ Cut(s) \/ Heal(s) \/ \E silent \in BOOLEAN : Die(s, silent)
    BY <2>1 DEF Next
  <2>3. Claim(s)
    BY <2>2 DEF Beat, Demote, RunEnds, Cut, Heal, Die
  <2>4. CASE ClaimHeld(s)
    <3>1. s = r
      BY <2>4 DEF ClaimHeld
    <3>2. lock # None /\ lock.by = r /\ lock.open /\ lock.leased
      BY <2>4, <3>1 DEF ClaimHeld, Answers, Session, LeadInv
    <3>3. lock \in Session_ /\ lock' = [lock EXCEPT !.silent = 0]
      BY <2>4, <3>2 DEF ClaimHeld, TypeOK
    <3>4. /\ lock' \in Session_ /\ lock'.by = lock.by
          /\ lock'.open = lock.open /\ lock'.leased = lock.leased
      BY <3>3, SessionUpdates, Zenon
    <3> QED BY <3>2, <3>4, NoneAssumption, Zenon
  <2>5. CASE ClaimLost(s) \/ ClaimTry(s)
    BY <2>5 DEF ClaimLost, ClaimTry
  <2>6. CASE ClaimLease(s)
    <3>1. s = r /\ Answers(r) /\ lock' = [lock EXCEPT !.leased = TRUE, !.silent = 0]
      BY <2>6 DEF ClaimLease
    <3>2. lock \in Session_ /\ lock.by = r /\ lock.open
      BY <3>1 DEF Answers, Session, TypeOK
    <3>3. lock' \in Session_ /\ lock'.by = lock.by /\ lock'.open = lock.open /\ lock'.leased
      BY <3>1, <3>2, SessionUpdates, Zenon
    <3> QED BY <3>2, <3>3, NoneAssumption, Zenon
  <2> QED BY <2>3, <2>4, <2>5, <2>6 DEF Claim
<1> QED BY <1>1, TypeCorrect, LeadInvariant, PTL DEF Spec, RunStartsUnderLock
=============================================================================
