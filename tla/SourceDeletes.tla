--------------------------- MODULE SourceDeletes ---------------------------
(***************************************************************************)
(* A snapshot pipeline follows what its source removed                     *)
(* (pipeline_source_deletes.rs, and what feeds and releases it): the       *)
(* outcome reports of a run fill the source ledger, the end of the run is  *)
(* judged by a task of its own, ids missing too often are handed to a      *)
(* delete stream on the runner, and its report takes them out of the       *)
(* ledger.  Reports are refused, lost or late, the Portal restarts with    *)
(* what it has not judged, and people edit entities and decide holds.      *)
(*                                                                         *)
(* One pipeline.  A ledger row names its last run by its age: 0 is the     *)
(* newest run, 1 the one before.                                           *)
(***************************************************************************)
EXTENDS Integers, FiniteSets

CONSTANTS
    Ids,
    Listings,      \* what the source may list
    Foreign,       \* the ids of entities that others made before the pipeline
    Misses,        \* the rule's misses
    MostMisses,    \* where the count of misses saturates: 255, of a u8
    Shares,        \* the rule's maxShare, a percentage, which people may change
    Faults,        \* which of "unfinished", "dropped", "failed", "unseen", "unjudged", "refused",
                   \* "restart", "lost" happen, and "late": the judge may read after the next
                   \* run's reports
    MaxFaults,     \* bound: faults
    MaxActs,       \* bound: what people do, a decision on a hold or an edit of an entity
    None

ASSUME RuleAssumption == Misses \in 1..10 /\ MostMisses \in Nat /\ Misses <= MostMisses
ASSUME SharesAssumption == Shares \subseteq 1..100
ASSUME BoundsAssumption == MaxFaults \in Nat /\ MaxActs \in Nat
ASSUME IdsAssumption == IsFiniteSet(Ids) /\ Foreign \subseteq Ids /\ Listings \subseteq SUBSET Ids /\ None \notin Ids \cup Nat

VARIABLES
    broker,     \* each entity: "none", "foreign" if the pipeline never wrote it, "ours" as it wrote
                \* it, or "edited" by someone since
    ledger,     \* each id's row or None
    hold,       \* why the last judged run deleted nothing
    run,        \* the runner's run: what it read, what it has still to report, how it fared
    end,        \* the RunEnd that waits to be judged
    judging,    \* what the judge has decided and not yet written
    handing,    \* the ids of a settled run that are not yet with the runner
    stream,     \* the delete stream on the runner
    clearing,   \* a release that has not cleared the hold yet
    absent,     \* of each row: the complete runs, in a row, whose source did not list it
    untold,     \* the ids a complete run found and the misses of the ledger were never told so
    faults, acts

vars == <<broker, ledger, hold, run, end, judging, handing, stream, clearing, absent, untold, faults, acts>>

\* A run ends before the next starts, so two runs at most can still be told apart: the one that
\* runs or ran last, 0, and the one before it while it waits to be judged, 1.
Oldest == 2
Older(age) == IF age = 0 /\ end # None THEN 1 ELSE Oldest

\* One more miss: saturating_add.
More(n) == IF n < MostMisses THEN n + 1 ELSE n

Rows == { i \in Ids : ledger[i] # None }

\* A fault, while there are faults left.
Fault(kind) == kind \in Faults /\ faults < MaxFaults /\ faults' = faults + 1
NoFault == UNCHANGED faults

-----------------------------------------------------------------------------
\* seen, adding what the pipeline did not write.
Seen_Adds(i, written) ==
    ledger' = [ledger EXCEPT ![i] =
                 IF ledger[i] = None THEN [age |-> 0, misses |-> 0] ELSE [ledger[i] EXCEPT !.age = 0]]

\* seen: a known row names the run, a new one joins when the pipeline wrote it.
Seen(i, written) ==
    ledger' = [ledger EXCEPT ![i] =
                 IF ledger[i] # None THEN [ledger[i] EXCEPT !.age = 0]
                 ELSE IF written THEN [age |-> 0, misses |-> 0] ELSE None]

\* The gateway took the record: the entity is the pipeline's again, and newer than what a delete
\* stream under way knows.
Write(i) ==
    /\ broker' = [broker EXCEPT ![i] = "ours"]
    /\ stream' = IF stream = None THEN None
                 ELSE IF stream.step = "check" /\ i \in stream.ids THEN [stream EXCEPT !.kept = @ \cup {i}]
                 ELSE stream

\* The queue starts a run, which reads what the source lists now.  Only a late judge has not read
\* the ledger for the run before.
StartRun ==
    /\ run = None /\ ("late" \notin Faults => end = None)
    /\ \E listed \in Listings :
         run' = [listed |-> listed, left |-> listed, unseen |-> {}, failed |-> FALSE, counted |-> TRUE]
    /\ ledger' = [i \in Ids |-> IF ledger[i] = None THEN None ELSE [ledger[i] EXCEPT !.age = Older(@)]]
    /\ end' = IF end = None THEN None ELSE [end EXCEPT !.age = Older(@)]
    /\ UNCHANGED <<broker, hold, judging, handing, stream, clearing, absent, untold, faults, acts>>

Reports(i) == run # None /\ i \in run.left

\* note_seen: the ledger names the run; a run that listed the id and is not judged yet is named
\* no more.  Or the database does not take it, which is logged and answered like the rest.
NoteSeen(i, written) ==
    \/ /\ Seen(i, written) /\ NoFault
       /\ run' = [run EXCEPT !.left = @ \ {i}]
       /\ end' = IF end # None /\ i \in end.found THEN [end EXCEPT !.unseen = @ \cup {i}] ELSE end
    \/ /\ Fault("unseen")
       /\ run' = [run EXCEPT !.left = @ \ {i}, !.unseen = @ \cup {i}]
       /\ UNCHANGED <<ledger, end>>

\* log_sent: a record the gateway took is reported and seen.
Sent(i) ==
    /\ Reports(i)
    /\ Write(i) /\ NoteSeen(i, TRUE)
    /\ UNCHANGED <<hold, judging, handing, clearing, absent, untold, acts>>

\* keep: a record the model refused is seen and not written.
Rejected(i) ==
    /\ Reports(i)
    /\ NoteSeen(i, FALSE)
    /\ UNCHANGED <<broker, stream, hold, judging, handing, clearing, absent, untold, acts>>

\* A record that failed is logged as failed, and not seen.
Failed(i) ==
    /\ Reports(i) /\ Fault("failed")
    /\ run' = [run EXCEPT !.left = @ \ {i}, !.failed = TRUE]
    /\ UNCHANGED <<broker, ledger, stream, hold, end, judging, handing, clearing, absent, untold, acts>>

\* A report that never reaches the Portal is counted by the runner; a runner that does not
\* answer or restarted has no count.
Dropped(i) ==
    /\ Reports(i) /\ Fault("dropped")
    /\ Write(i)
    /\ run' = [run EXCEPT !.left = @ \ {i}, !.counted = FALSE]
    /\ UNCHANGED <<ledger, hold, end, judging, handing, clearing, absent, untold, acts>>

\* RunEnd of the newest run, with what a complete run found and what of it the ledger missed.
RunEnd(whole) ==
    [age |-> 0, whole |-> whole, found |-> IF whole THEN run.listed ELSE {},
     unseen |-> IF whole THEN run.unseen ELSE {}]

\* ended without the runner's count.
Ended_Uncounted(finished) == end' = RunEnd(finished /\ ~run.failed)

\* ended, report_count: the end that goes to the judge; whole when the run finished, failed on
\* no record and the runner dropped no report.
Ended(finished) == end' = RunEnd(finished /\ ~run.failed /\ run.counted)

EndRun ==
    /\ run # None /\ end = None
    /\ \/ run.left = {} /\ Ended(TRUE) /\ NoFault
       \/ Fault("unfinished") /\ Ended(FALSE)
    /\ run' = None
    /\ UNCHANGED <<broker, ledger, hold, judging, handing, stream, clearing, absent, untold, acts>>

-----------------------------------------------------------------------------
\* judge: whether the run read none of the ledger.
ReadNone(e) == Rows # {} /\ \A i \in Rows : ledger[i].age # e.age

\* judge: a row's new misses.
Missed(i, e) == IF ledger[i].age = e.age THEN 0 ELSE More(ledger[i].misses)

\* judge: what the run dooms.
Doomed(e) == { i \in Rows : Missed(i, e) >= Misses }

TooMany(S, share) == Cardinality(S) * 100 > share * Cardinality(Rows)

Held(why, e) ==
    [misses |-> [i \in Ids |-> None], hold |-> why, doomed |-> {}, found |-> e.found, unseen |-> e.unseen]

\* judge_and_delete after the book is read: what it will write and launch.
Verdict(e, share) ==
    IF ~e.whole THEN Held("incomplete", e)
    ELSE IF ReadNone(e) THEN Held("empty", e)
    ELSE [misses |-> [i \in Ids |-> IF i \in Rows THEN Missed(i, e) ELSE None],
          hold |-> IF TooMany(Doomed(e), share) THEN "share" ELSE "none",
          doomed |-> IF TooMany(Doomed(e), share) THEN {} ELSE Doomed(e),
          found |-> e.found, unseen |-> e.unseen]

\* A complete run that found these ids breaks their row, whatever the Portal makes of it.
Found(ids) == absent' = [i \in Ids |-> IF i \in ids THEN 0 ELSE absent[i]]

\* run_ended reads the ledger; an empty ledger leaves nothing to write.
Judge ==
    /\ end # None /\ judging = None /\ handing = {}
    /\ \E share \in Shares : judging' = IF end.whole /\ Rows = {} THEN None ELSE Verdict(end, share)
    /\ IF end.whole /\ Rows = {} THEN Found(end.found) ELSE UNCHANGED absent
    /\ end' = None
    /\ UNCHANGED <<broker, ledger, hold, run, handing, stream, clearing, untold, faults, acts>>

\* settle, inserting a row that is gone since the book was read.
Settled_Upserts ==
    [i \in Ids |-> IF judging.misses[i] = None THEN ledger[i]
                   ELSE [age |-> IF ledger[i] = None THEN None ELSE ledger[i].age,
                         misses |-> judging.misses[i]]]

\* settle: the misses of the rows that are still there.
Settled ==
    [i \in Ids |-> IF ledger[i] = None \/ judging.misses[i] = None THEN ledger[i]
                   ELSE [ledger[i] EXCEPT !.misses = judging.misses[i]]]

\* settle: the misses, and the hold set or cleared.
Settle ==
    /\ judging # None
    /\ ledger' = Settled
    /\ hold' = judging.hold
    /\ LET complete == judging.hold # "incomplete"
           counts == judging.hold \notin {"incomplete", "empty"}
       IN /\ absent' = [i \in Ids |-> IF ~complete THEN absent[i]
                                      ELSE IF i \in judging.found \/ (counts /\ judging.misses[i] = None) THEN 0
                                      ELSE IF counts THEN More(absent[i]) ELSE absent[i]]
          /\ untold' = { i \in untold : counts => judging.misses[i] \notin {0, None} }
                         \cup (IF complete THEN judging.unseen ELSE {})
    /\ judging' = None /\ handing' = judging.doomed
    /\ UNCHANGED <<broker, run, end, stream, clearing, faults, acts>>

\* What a complete run found, by its end and by what was decided of it.
InEnd == IF end # None THEN end.found ELSE {}
InVerdict == IF judging # None THEN judging.found ELSE {}

\* A complete run that found these ids is never judged: their row is broken, and nobody is told.
NeverJudged(ids) == Found(ids) /\ untold' = untold \cup ids

\* The book is not read, or what was decided not written: run_ended logs it and takes the next end.
JudgeFails ==
    /\ Fault("unjudged") /\ handing = {}
    /\ \/ end # None /\ judging = None /\ NeverJudged(InEnd) /\ end' = None /\ UNCHANGED judging
       \/ judging # None /\ NeverJudged(InVerdict) /\ judging' = None /\ UNCHANGED end
    /\ UNCHANGED <<broker, ledger, hold, run, handing, stream, clearing, acts>>

\* launch: a stream of its own for the ids, each with when the ledger says it was last written.
Launch(ids) ==
    /\ stream = None
    /\ stream' = [ids |-> ids, kept |-> { i \in ids : ledger[i] = None }, step |-> "check"]

\* The judge hands over what the run doomed.
LaunchDoomed ==
    /\ handing # {}
    /\ Launch(handing)
    /\ handing' = {}
    /\ UNCHANGED <<broker, ledger, hold, run, end, judging, clearing, absent, untold, faults, acts>>

\* The runner takes no stream: the ids go after the next complete run.
LaunchRefused ==
    /\ handing # {} /\ Fault("refused")
    /\ handing' = {}
    /\ UNCHANGED <<broker, ledger, hold, run, end, judging, stream, clearing, absent, untold, acts>>

-----------------------------------------------------------------------------
\* The stream reads each entity's modifiedAt: what was changed since it was written stays.
Check ==
    /\ stream # None /\ stream.step = "check"
    /\ stream' = [stream EXCEPT !.step = "delete", !.kept =
                    { i \in stream.ids : broker[i] = "edited" \/ (broker[i] # "none" /\ i \in @) }]
    /\ UNCHANGED <<broker, ledger, hold, run, end, judging, handing, clearing, absent, untold, faults, acts>>

\* The batch delete through the Endpoint.
Delete ==
    /\ stream # None /\ stream.step = "delete"
    /\ broker' = [i \in Ids |-> IF i \in stream.ids \ stream.kept THEN "none" ELSE broker[i]]
    /\ stream' = [stream EXCEPT !.step = "report", !.kept = {}]
    /\ UNCHANGED <<ledger, hold, run, end, judging, handing, clearing, absent, untold, faults, acts>>

\* reported, of what the broker no longer has.
Forget_Gone ==
    ledger' = [i \in Ids |-> IF i \in stream.ids /\ broker[i] = "none" THEN None ELSE ledger[i]]

\* reported: what went, what was gone and what someone changed leave the ledger.
Forget == ledger' = [i \in Ids |-> IF i \in stream.ids THEN None ELSE ledger[i]]

Reported ==
    /\ stream # None /\ stream.step = "report"
    /\ Forget
    /\ stream' = None
    /\ UNCHANGED <<broker, hold, run, end, judging, handing, clearing, absent, untold, faults, acts>>

\* The gateway refuses the chunk, or the report is lost with its stream: the rows stay.
Lost ==
    /\ stream # None /\ Fault("lost")
    /\ stream' = None
    /\ UNCHANGED <<broker, ledger, hold, run, end, judging, handing, clearing, absent, untold, acts>>

-----------------------------------------------------------------------------
\* Something a person does, while there is something left to do.
Act == acts < MaxActs /\ acts' = acts + 1

\* keep of the ledger: every id counts as read.
Keep ==
    /\ Act
    /\ ledger' = [i \in Ids |-> IF ledger[i] = None THEN None ELSE [ledger[i] EXCEPT !.misses = 0]]
    /\ hold' = "none"
    /\ UNCHANGED <<broker, run, end, judging, handing, stream, clearing, absent, untold, faults>>

\* decide: what is due by its misses is handed to the runner.
Release ==
    /\ Act /\ ~clearing
    /\ LET due == { i \in Rows : ledger[i].misses >= Misses } IN due # {} /\ Launch(due)
    /\ clearing' = TRUE
    /\ UNCHANGED <<broker, ledger, hold, run, end, judging, handing, absent, untold, faults>>

\* decide: then the hold is cleared.
Cleared ==
    /\ clearing
    /\ clearing' = FALSE
    /\ hold' = "none"
    /\ UNCHANGED <<broker, ledger, run, end, judging, handing, stream, absent, untold, faults, acts>>

\* The Portal restarts: the run is removed from the runner and never judged, and neither is what
\* waited for the judge; what was settled is in the database, and a delete stream goes on.
Restart ==
    /\ Fault("restart")
    /\ run' = None /\ end' = None /\ judging' = None /\ handing' = {} /\ clearing' = FALSE
    /\ NeverJudged(InEnd \cup InVerdict)
    /\ UNCHANGED <<broker, ledger, hold, stream, acts>>

\* Someone changes an entity.
Edited(i) ==
    /\ Act /\ broker[i] = "ours" /\ broker' = [broker EXCEPT ![i] = "edited"]
    /\ UNCHANGED <<ledger, hold, run, end, judging, handing, stream, clearing, absent, untold, faults>>

-----------------------------------------------------------------------------
Init ==
    /\ broker = [i \in Ids |-> IF i \in Foreign THEN "foreign" ELSE "none"]
    /\ ledger = [i \in Ids |-> None]
    /\ hold = "none"
    /\ run = None /\ end = None /\ judging = None /\ handing = {} /\ stream = None
    /\ clearing = FALSE
    /\ absent = [i \in Ids |-> 0] /\ untold = {}
    /\ faults = 0 /\ acts = 0

Report(i) == Sent(i) \/ Rejected(i) \/ Failed(i) \/ Dropped(i)
Judging == Judge \/ JudgeFails \/ Settle \/ LaunchDoomed \/ LaunchRefused
Streaming == Check \/ Delete \/ Reported

Next ==
    \/ StartRun \/ EndRun \/ Judging \/ Streaming \/ Lost \/ Restart
    \/ Keep \/ Release \/ Cleared
    \/ \E i \in Ids : Report(i) \/ Edited(i)

Spec == Init /\ [][Next]_vars

\* Runs go on, the judge and the runner work, the reports of a run are sent.
Fairness ==
    /\ WF_vars(StartRun) /\ WF_vars(EndRun) /\ WF_vars(Judging) /\ WF_vars(Streaming) /\ WF_vars(Cleared)
    /\ WF_vars(\E i \in Ids : Report(i))

FairSpec == Spec /\ Fairness

-----------------------------------------------------------------------------
Row == [age : 0..Oldest, misses : 0..MostMisses]
Holds == {"none", "incomplete", "empty", "share"}

\* Every variable has the shape the code gives it.
TypeOK ==
    /\ broker \in [Ids -> {"none", "foreign", "ours", "edited"}]
    /\ ledger \in [Ids -> Row \cup {None}]
    /\ hold \in Holds
    /\ run \in {None} \cup [listed : SUBSET Ids, left : SUBSET Ids, unseen : SUBSET Ids,
                            failed : BOOLEAN, counted : BOOLEAN]
    /\ end \in {None} \cup [age : 0..Oldest, whole : BOOLEAN, found : SUBSET Ids, unseen : SUBSET Ids]
    /\ judging \in {None} \cup [misses : [Ids -> (0..MostMisses) \cup {None}], hold : Holds,
                                doomed : SUBSET Ids, found : SUBSET Ids, unseen : SUBSET Ids]
    /\ handing \in SUBSET Ids
    /\ stream \in {None} \cup [ids : SUBSET Ids, kept : SUBSET Ids,
                               step : {"check", "delete", "report"}]
    /\ clearing \in BOOLEAN
    /\ absent \in [Ids -> 0..MostMisses] /\ untold \in SUBSET Ids
    /\ faults \in Nat /\ acts \in Nat

\* A delete stream, of a judged run or of a release, starts only with ids that `misses` complete
\* runs in a row did not find, or with ids a complete run found and the ledger was never told so,
\* which the code lets happen in three ways only: note_seen swallowed the database's error, the
\* next run's report came before the judge, or the run's end was lost before it was settled.  A
\* report the runner dropped, a record that failed or a run that did not finish is none of them.
OnlyMissingOrUntold ==
    [][stream = None /\ stream' # None =>
          \A i \in stream'.ids : absent[i] >= Misses \/ i \in untold]_vars

\* "A record goes only after it is missing from `misses` complete runs in a row": without the
\* exceptions.
OnlyMissingGo ==
    [][stream = None /\ stream' # None => \A i \in stream'.ids : absent[i] >= Misses]_vars

\* "An id the pipeline never wrote is never its to delete": no row of the ledger and no id of a
\* delete stream names an entity that others made and the pipeline never wrote.
OnlyOursGo ==
    \A i \in Ids : broker[i] = "foreign" => ledger[i] = None /\ (stream # None => i \notin stream.ids)

\* What the source drops for good does not stay in the ledger: complete runs take it out, or
\* hold it for a person to decide.
LedgerDrains ==
    \A i \in Ids : <>[](run # None => i \notin run.listed)
                     => []<>(ledger[i] = None \/ hold \in {"share", "empty"})
=============================================================================
