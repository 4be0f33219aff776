------------------------------- MODULE Leader -------------------------------
(***************************************************************************)
(* Which replica may reconcile (reconciler/leader.rs, and claim_leadership *)
(* of reconciler/daemon.rs): a PostgreSQL advisory lock held by a database *)
(* session, with a lease the server enforces once the session carries it,  *)
(* and a heartbeat that keeps the session busy.                            *)
(*                                                                         *)
(* Replicas lose their network to the database and die, with or without    *)
(* the server hearing of it.  A statement sent over a cut network hangs    *)
(* (nothing happens) or fails.  Time is what the server counts: how long   *)
(* the lock's session has been silent.                                     *)
(***************************************************************************)
EXTENDS Integers

CONSTANTS
    Replicas,
    Lease,      \* silence after which the server ends a session that carries the lease
    MaxFaults,  \* bound: cuts, deaths and refused leases
    None

ASSUME LeaseAssumption == Lease \in Nat \ {0}
ASSUME FaultsAssumption == MaxFaults \in Nat

VARIABLES
    lock,     \* server: None or the session that holds the advisory lock
    held,     \* the replica keeps a connection it took the lock on; its heartbeat runs
    closing,  \* the dead connection is out of `held` and being closed, the mutex of `held` taken
    leader,   \* the flag is_leader() reads
    pc,       \* where the replica's reconcile loop is
    cut,      \* the replica cannot reach the database
    faults

vars == <<lock, held, closing, leader, pc, cut, faults>>

Session(r) == lock # None /\ lock.by = r /\ lock.open
Answers(r) == ~cut[r] /\ Session(r)
Fails(r) == cut[r] \/ ~Session(r)

-----------------------------------------------------------------------------
\* A session that goes back to the pool with its lock.
Close_Pooled(r) == UNCHANGED lock

\* close: the server frees the lock when it hears of it.
Close(r) ==
    lock' = CASE ~Session(r) -> lock
              [] Session(r) /\ cut[r] -> [lock EXCEPT !.open = FALSE]
              [] Session(r) /\ ~cut[r] -> None

\* The connection failed: it is taken out of `held` and closed, the flag still up.
Drop(r) ==
    /\ Close(r)
    /\ held' = [held EXCEPT ![r] = FALSE]
    /\ closing' = [closing EXCEPT ![r] = TRUE]

\* A connection dropped with the flag left up.
Demote_FlagUp(r) ==
    /\ closing[r]
    /\ closing' = [closing EXCEPT ![r] = FALSE]
    /\ pc' = [pc EXCEPT ![r] = IF @ = "drop" THEN "try" ELSE @]
    /\ UNCHANGED <<lock, held, leader, cut, faults>>

\* The close returned: the flag comes down, and a claim that met the dead connection goes on.
Demote(r) ==
    /\ closing[r]
    /\ closing' = [closing EXCEPT ![r] = FALSE]
    /\ leader' = [leader EXCEPT ![r] = FALSE]
    /\ pc' = [pc EXCEPT ![r] = IF @ = "drop" THEN "try" ELSE @]
    /\ UNCHANGED <<lock, held, cut, faults>>

\* The heartbeat's SELECT 1: a beat that fails demotes the replica at once.
Beat(r) ==
    /\ held[r]
    /\ \/ /\ Answers(r)
          /\ lock' = [lock EXCEPT !.silent = 0]
          /\ UNCHANGED <<held, closing>>
       \/ Fails(r) /\ Drop(r)
    /\ UNCHANGED <<leader, pc, cut, faults>>

\* A replica that takes its flag's word for the lock.
ClaimHeld_Trusting(r) ==
    /\ pc[r] = "idle" /\ held[r]
    /\ pc' = [pc EXCEPT ![r] = "run"]
    /\ UNCHANGED <<lock, held, closing, leader, cut, faults>>

\* acquire, on a connection it holds: it still holds the lock...
ClaimHeld(r) ==
    /\ pc[r] = "idle" /\ held[r] /\ Answers(r)
    /\ lock' = [lock EXCEPT !.silent = 0]
    /\ pc' = [pc EXCEPT ![r] = "run"]
    /\ UNCHANGED <<held, closing, leader, cut, faults>>

\* ...or the connection died, and it competes again.
ClaimLost(r) ==
    /\ pc[r] = "idle" /\ held[r] /\ Fails(r)
    /\ Drop(r)
    /\ pc' = [pc EXCEPT ![r] = "drop"]
    /\ UNCHANGED <<leader, cut, faults>>

\* acquire, pg_try_advisory_lock on a connection of the pool.
ClaimTry(r) ==
    /\ pc[r] = "try" \/ (pc[r] = "idle" /\ ~held[r] /\ ~closing[r])
    /\ \/ /\ cut[r]
          /\ pc' = [pc EXCEPT ![r] = "follow"]
          /\ UNCHANGED <<lock, leader>>
       \/ /\ ~cut[r] /\ lock = None
          /\ lock' = [by |-> r, leased |-> FALSE, silent |-> 0, open |-> TRUE]
          /\ pc' = [pc EXCEPT ![r] = "lease"]
          /\ UNCHANGED leader
       \/ /\ ~cut[r] /\ lock # None
          /\ leader' = [leader EXCEPT ![r] = FALSE]
          /\ pc' = [pc EXCEPT ![r] = "follow"]
          /\ UNCHANGED lock
    /\ UNCHANGED <<held, closing, cut, faults>>

\* acquire, the lease on the session that won: only then is it kept and the flag raised.
ClaimLease(r) ==
    /\ pc[r] = "lease"
    /\ \/ /\ Answers(r)
          /\ lock' = [lock EXCEPT !.leased = TRUE, !.silent = 0]
          /\ held' = [held EXCEPT ![r] = TRUE]
          /\ leader' = [leader EXCEPT ![r] = TRUE]
          /\ pc' = [pc EXCEPT ![r] = "run"]
          /\ UNCHANGED faults
       \/ /\ Fails(r)
          /\ Close(r)
          /\ leader' = [leader EXCEPT ![r] = FALSE]
          /\ pc' = [pc EXCEPT ![r] = "follow"]
          /\ UNCHANGED <<held, faults>>
       \/ /\ Answers(r) /\ faults < MaxFaults     \* a server that refuses the setting
          /\ faults' = faults + 1
          /\ Close(r)
          /\ leader' = [leader EXCEPT ![r] = FALSE]
          /\ pc' = [pc EXCEPT ![r] = "follow"]
          /\ UNCHANGED held
    /\ UNCHANGED <<closing, cut>>

\* do_sync ends, as the leader it was when it started or as a follower.
RunEnds(r) ==
    /\ pc[r] \in {"run", "follow"}
    /\ pc' = [pc EXCEPT ![r] = "idle"]
    /\ UNCHANGED <<lock, held, closing, leader, cut, faults>>

-----------------------------------------------------------------------------
(* The server, the network and the processes.                               *)

\* The server counts the silence of the lock's session, up to where it ends it.
TimePasses ==
    /\ lock # None /\ lock.silent < Lease
    /\ lock' = [lock EXCEPT !.silent = @ + 1]
    /\ UNCHANGED <<held, closing, leader, pc, cut, faults>>

\* idle_session_timeout; without it, only TCP keepalive ends a session whose client is gone.
ServerFrees ==
    /\ lock # None /\ lock.silent = Lease
    /\ lock.leased \/ ~lock.open
    /\ lock' = None
    /\ UNCHANGED <<held, closing, leader, pc, cut, faults>>

Cut(r) ==
    /\ ~cut[r] /\ faults < MaxFaults
    /\ cut' = [cut EXCEPT ![r] = TRUE]
    /\ faults' = faults + 1
    /\ UNCHANGED <<lock, held, closing, leader, pc>>

Heal(r) ==
    /\ cut[r]
    /\ cut' = [cut EXCEPT ![r] = FALSE]
    /\ UNCHANGED <<lock, held, closing, leader, pc, faults>>

\* The process dies and a new one takes its place; `silent` when the server hears nothing.
Die(r, silent) ==
    /\ faults < MaxFaults
    /\ faults' = faults + 1
    /\ lock' = CASE ~Session(r) -> lock
                 [] Session(r) /\ (silent \/ cut[r]) -> [lock EXCEPT !.open = FALSE]
                 [] Session(r) /\ ~(silent \/ cut[r]) -> None
    /\ held' = [held EXCEPT ![r] = FALSE]
    /\ closing' = [closing EXCEPT ![r] = FALSE]
    /\ leader' = [leader EXCEPT ![r] = FALSE]
    /\ pc' = [pc EXCEPT ![r] = "idle"]
    /\ UNCHANGED cut

-----------------------------------------------------------------------------
Init ==
    /\ lock = None
    /\ held = [r \in Replicas |-> FALSE]
    /\ closing = [r \in Replicas |-> FALSE]
    /\ leader = [r \in Replicas |-> FALSE]
    /\ pc = [r \in Replicas |-> "idle"]
    /\ cut = [r \in Replicas |-> FALSE]
    /\ faults = 0

Claim(r) == ClaimHeld(r) \/ ClaimLost(r) \/ ClaimTry(r) \/ ClaimLease(r)

Next ==
    \/ TimePasses \/ ServerFrees
    \/ \E r \in Replicas :
          \/ Beat(r) \/ Demote(r) \/ Claim(r) \/ RunEnds(r)
          \/ Cut(r) \/ Heal(r) \/ \E silent \in BOOLEAN : Die(r, silent)

Spec == Init /\ [][Next]_vars

\* The reconcile loop and the heartbeat run on, runs end, time passes and the server acts.
Fairness ==
    /\ WF_vars(TimePasses) /\ WF_vars(ServerFrees)
    /\ \A r \in Replicas : WF_vars(Claim(r)) /\ WF_vars(RunEnds(r)) /\ WF_vars(Heal(r))
                           /\ WF_vars(Beat(r)) /\ WF_vars(Demote(r))

FairSpec == Spec /\ Fairness

-----------------------------------------------------------------------------
Session_ == [by : Replicas, leased : BOOLEAN, silent : 0..Lease, open : BOOLEAN]

ASSUME NoneAssumption == None \notin Session_

\* Every variable has the shape the code gives it.
TypeOK ==
    /\ lock \in Session_ \cup {None}
    /\ held \in [Replicas -> BOOLEAN]
    /\ closing \in [Replicas -> BOOLEAN]
    /\ leader \in [Replicas -> BOOLEAN]
    /\ pc \in [Replicas -> {"idle", "drop", "try", "lease", "run", "follow"}]
    /\ cut \in [Replicas -> BOOLEAN]
    /\ faults \in Nat

\* "The same fact, readable without awaiting": whichever way a claim, a beat or a death went,
\* the flag is up exactly while the replica keeps the connection it took the lock on, or is
\* closing it and about to take the flag down.
FlagIsSession == \A r \in Replicas : leader[r] = (held[r] \/ closing[r])

\* The lock never sits on a session nobody keeps ("that session never goes back to the pool"):
\* whichever of lock, lease, beat and close failed, a live session that holds it is the one its
\* replica keeps and beats on, or the one a claim has just won and is putting the lease on.
LockIsKept == \A r \in Replicas : Session(r) => held[r] \/ pc[r] = "lease"

\* A reconcile starts as leader only under the lock: at that moment the server holds the lock
\* for this replica's own session and the session carries the lease, whatever the flag said.
RunStartsUnderLock ==
    [][\A r \in Replicas : pc[r] # "run" /\ pc'[r] = "run" =>
          lock' # None /\ lock'.by = r /\ lock'.open /\ lock'.leased]_vars

\* The role is never lost for good: after cuts, refused leases and silent deaths some replica
\* comes to lead again.
SomeoneLeads == []<>(\E r \in Replicas : leader[r] /\ Session(r))
=============================================================================
