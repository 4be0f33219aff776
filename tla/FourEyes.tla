------------------------------ MODULE FourEyes ------------------------------
(***************************************************************************)
(* What the Portal promises of a data subject's erasure (DM-126, DM-142),  *)
(* without requests, loops, retries or a database: one person proposes,    *)
(* another one approves or anyone declines, the decision is final, only an *)
(* approved erasure takes anything from a store, and it is completed, once *)
(* and for good, only after it has taken its part from every store.        *)
(***************************************************************************)
CONSTANTS
    Erasures, People, Stores, None,
    Logged      \* the erasures completed before, each by two people

VARIABLES
    decision,   \* of each erasure
    parties,    \* who proposed and who decided it
    erased,     \* the stores it was carried out in
    complete    \* it was reported complete

vars == <<decision, parties, erased, complete>>

\* The two people of a logged erasure: whichever they are, they differ.
Pair == CHOOSE p \in [by : People, decided : People] : p.by # p.decided

Known == [e \in Erasures |-> IF e \in Logged THEN Pair ELSE [by |-> None, decided |-> None]]

Init ==
    /\ decision = [e \in Erasures |-> IF e \in Logged THEN "approved" ELSE "none"]
    /\ parties = Known
    /\ erased = [e \in Erasures |-> IF e \in Logged THEN Stores ELSE {}]
    /\ complete = [e \in Erasures |-> e \in Logged]

Propose(e, p) ==
    /\ decision[e] = "none"
    /\ decision' = [decision EXCEPT ![e] = "proposed"]
    /\ parties' = [parties EXCEPT ![e] = [by |-> p, decided |-> None]]
    /\ UNCHANGED <<erased, complete>>

Decide(e, p) ==
    /\ decision[e] = "proposed"
    /\ \/ p # parties[e].by /\ decision' = [decision EXCEPT ![e] = "approved"]
       \/ decision' = [decision EXCEPT ![e] = "declined"]
    /\ parties' = [parties EXCEPT ![e] = [by |-> parties[e].by, decided |-> p]]
    /\ UNCHANGED <<erased, complete>>

Erase(e, s) ==
    /\ decision[e] = "approved"
    /\ erased' = [erased EXCEPT ![e] = erased[e] \cup {s}]
    /\ UNCHANGED <<decision, parties, complete>>

Complete(e) ==
    /\ erased[e] = Stores
    /\ complete' = [complete EXCEPT ![e] = TRUE]
    /\ UNCHANGED <<decision, parties, erased>>

Next ==
    \E e \in Erasures :
       \/ \E p \in People : Propose(e, p) \/ Decide(e, p)
       \/ \E s \in Stores : Erase(e, s)
       \/ Complete(e)

Spec == Init /\ [][Next]_vars
=============================================================================
