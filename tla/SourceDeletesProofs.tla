------------------------ MODULE SourceDeletesProofs ------------------------
(***************************************************************************)
(* For any finite set of ids, any rule and any number of faults and acts:  *)
(* the types, that only what the pipeline wrote is ever deleted, and that  *)
(* only what was missing from enough complete runs in a row is, or what a  *)
(* complete run found and the ledger was not told of.                      *)
(***************************************************************************)
EXTENDS SourceDeletes, TLAPS

USE RuleAssumption, SharesAssumption, BoundsAssumption, IdsAssumption

Run == [listed : SUBSET Ids, left : SUBSET Ids, unseen : SUBSET Ids, failed : BOOLEAN, counted : BOOLEAN]
End == [age : 0..Oldest, whole : BOOLEAN, found : SUBSET Ids, unseen : SUBSET Ids]
Judgement == [misses : [Ids -> (0..MostMisses) \cup {None}], hold : Holds,
              doomed : SUBSET Ids, found : SUBSET Ids, unseen : SUBSET Ids]
Stream == [ids : SUBSET Ids, kept : SUBSET Ids, step : {"check", "delete", "report"}]

\* A count stays a count.
LEMMA MoreType == \A n \in 0..MostMisses : More(n) \in 0..MostMisses
BY DEF More

\* An age stays an age.
LEMMA OlderType == \A a \in 0..Oldest : Older(a) \in 0..Oldest
BY DEF Older, Oldest

\* StartRun keeps the types.
LEMMA TypeStartRun == TypeOK /\ StartRun => TypeOK'
<1> SUFFICES ASSUME TypeOK, StartRun PROVE TypeOK'
  OBVIOUS
<1>1. run' \in Run
  BY DEF StartRun, Run
<1>2. ledger' \in [Ids -> Row \cup {None}]
  BY OlderType DEF TypeOK, StartRun, Row
<1>3. end' \in {None} \cup End
  BY OlderType DEF TypeOK, StartRun, End
<1> QED BY <1>1, <1>2, <1>3 DEF TypeOK, StartRun, Run, End

\* A report, taken by the ledger or not, keeps the types of what it touches.
LEMMA NoteSeenType ==
    ASSUME TypeOK, NEW i \in Ids, NEW written \in BOOLEAN, Reports(i), NoteSeen(i, written)
    PROVE  /\ run' \in Run /\ end' \in {None} \cup End
           /\ ledger' \in [Ids -> Row \cup {None}] /\ faults' \in Nat
<1>1. run \in Run /\ end \in {None} \cup End
  BY DEF TypeOK, Reports, Run, End
<1>2. CASE /\ Seen(i, written) /\ NoFault
           /\ run' = [run EXCEPT !.left = @ \ {i}]
           /\ end' = IF end # None /\ i \in end.found THEN [end EXCEPT !.unseen = @ \cup {i}] ELSE end
  <2>1. run' \in Run
    BY <1>1, <1>2 DEF Run
  <2>2. end' \in {None} \cup End
    BY <1>1, <1>2 DEF End
  <2>3. ledger' \in [Ids -> Row \cup {None}]
    BY <1>2 DEF TypeOK, Seen, Row, Oldest
  <2> QED BY <1>2, <2>1, <2>2, <2>3 DEF NoFault, TypeOK
<1>3. CASE /\ Fault("unseen")
           /\ run' = [run EXCEPT !.left = @ \ {i}, !.unseen = @ \cup {i}]
           /\ UNCHANGED <<ledger, end>>
  <2>1. run' \in Run
    BY <1>1, <1>3 DEF Run
  <2> QED BY <1>1, <1>3, <2>1 DEF Fault, TypeOK
<1> QED BY <1>2, <1>3 DEF NoteSeen

\* Sent keeps the types.
LEMMA TypeSent == \A i \in Ids : TypeOK /\ Sent(i) => TypeOK'
<1> SUFFICES ASSUME NEW i \in Ids, TypeOK, Sent(i) PROVE TypeOK'
  OBVIOUS
<1>1. /\ run' \in Run /\ end' \in {None} \cup End
      /\ ledger' \in [Ids -> Row \cup {None}] /\ faults' \in Nat
  BY NoteSeenType DEF Sent
<1>2. broker' \in [Ids -> {"none", "foreign", "ours", "edited"}] /\ stream' \in {None} \cup Stream
  BY DEF TypeOK, Sent, Write, Stream
<1> QED BY <1>1, <1>2 DEF TypeOK, Sent, Run, End, Stream

\* Rejected keeps the types.
LEMMA TypeRejected == \A i \in Ids : TypeOK /\ Rejected(i) => TypeOK'
<1> SUFFICES ASSUME NEW i \in Ids, TypeOK, Rejected(i) PROVE TypeOK'
  OBVIOUS
<1>1. /\ run' \in Run /\ end' \in {None} \cup End
      /\ ledger' \in [Ids -> Row \cup {None}] /\ faults' \in Nat
  BY NoteSeenType DEF Rejected
<1> QED BY <1>1 DEF TypeOK, Rejected, Run, End

\* Failed keeps the types.
LEMMA TypeFailed == \A i \in Ids : TypeOK /\ Failed(i) => TypeOK'
<1> SUFFICES ASSUME NEW i \in Ids, TypeOK, Failed(i) PROVE TypeOK'
  OBVIOUS
<1>1. run \in Run /\ run' = [run EXCEPT !.left = @ \ {i}, !.failed = TRUE]
  BY DEF TypeOK, Failed, Reports, Run
<1>2. run' \in Run
  BY <1>1 DEF Run
<1>3. faults' \in Nat
  BY DEF TypeOK, Failed, Fault
<1> QED BY <1>2, <1>3 DEF TypeOK, Failed, Run

\* Dropped keeps the types.
LEMMA TypeDropped == \A i \in Ids : TypeOK /\ Dropped(i) => TypeOK'
<1> SUFFICES ASSUME NEW i \in Ids, TypeOK, Dropped(i) PROVE TypeOK'
  OBVIOUS
<1>1. run \in Run /\ run' = [run EXCEPT !.left = @ \ {i}, !.counted = FALSE]
  BY DEF TypeOK, Dropped, Reports, Run
<1>2. run' \in Run
  BY <1>1 DEF Run
<1>3. faults' \in Nat
  BY DEF TypeOK, Dropped, Fault
<1>4. broker' \in [Ids -> {"none", "foreign", "ours", "edited"}] /\ stream' \in {None} \cup Stream
  BY DEF TypeOK, Dropped, Write, Stream
<1> QED BY <1>2, <1>3, <1>4 DEF TypeOK, Dropped, Run, Stream

\* EndRun keeps the types.
LEMMA TypeEndRun == TypeOK /\ EndRun => TypeOK'
<1> SUFFICES ASSUME TypeOK, EndRun PROVE TypeOK'
  OBVIOUS
<1>1. run \in Run
  BY DEF TypeOK, EndRun, Run
<1>2. PICK finished \in BOOLEAN : Ended(finished)
  BY DEF EndRun
<1>3. /\ run.listed \in SUBSET Ids /\ run.unseen \in SUBSET Ids
      /\ (finished /\ ~run.failed /\ run.counted) \in BOOLEAN
  BY <1>1 DEF Run
<1>4. end' \in End
  BY <1>2, <1>3 DEF Ended, RunEnd, End, Oldest
<1>5. faults' \in Nat
  <2>1. NoFault \/ Fault("unfinished")
    BY DEF EndRun
  <2> QED BY <2>1 DEF TypeOK, Fault, NoFault
<1> QED BY <1>4, <1>5 DEF TypeOK, EndRun, End

\* Settle keeps the types.
LEMMA TypeSettle == TypeOK /\ Settle => TypeOK'
<1> SUFFICES ASSUME TypeOK, Settle PROVE TypeOK'
  OBVIOUS
<1>1. judging \in Judgement
  BY DEF TypeOK, Settle, Judgement
<1>2. ledger' \in [Ids -> Row \cup {None}]
  BY <1>1 DEF TypeOK, Settle, Settled, Judgement, Row
<1>3. absent' \in [Ids -> 0..MostMisses]
  BY MoreType DEF TypeOK, Settle
<1>4. untold' \in SUBSET Ids
  BY <1>1 DEF TypeOK, Settle, Judgement
<1> QED BY <1>1, <1>2, <1>3, <1>4 DEF TypeOK, Settle, Judgement

\* A complete run that is never judged keeps the types of what it breaks.
LEMMA NeverJudgedType ==
    ASSUME TypeOK, NEW ids \in SUBSET Ids, NeverJudged(ids)
    PROVE  absent' \in [Ids -> 0..MostMisses] /\ untold' \in SUBSET Ids
BY DEF TypeOK, NeverJudged, Found

\* What a complete run found is a set of ids.
LEMMA InType == TypeOK => InEnd \in SUBSET Ids /\ InVerdict \in SUBSET Ids
<1> SUFFICES ASSUME TypeOK PROVE InEnd \in SUBSET Ids /\ InVerdict \in SUBSET Ids
  OBVIOUS
<1>1. end \in {None} \cup End /\ judging \in {None} \cup Judgement
  BY DEF TypeOK, End, Judgement
<1> QED BY <1>1 DEF InEnd, InVerdict, End, Judgement

\* JudgeFails keeps the types.
LEMMA TypeJudgeFails == TypeOK /\ JudgeFails => TypeOK'
<1> SUFFICES ASSUME TypeOK, JudgeFails PROVE TypeOK'
  OBVIOUS
<1>1. PICK ids \in SUBSET Ids : NeverJudged(ids)
  BY InType DEF JudgeFails
<1>2. absent' \in [Ids -> 0..MostMisses] /\ untold' \in SUBSET Ids
  BY <1>1, NeverJudgedType
<1>3. faults' \in Nat
  BY DEF TypeOK, JudgeFails, Fault
<1>4. (end' = end \/ end' = None) /\ (judging' = judging \/ judging' = None)
  BY DEF JudgeFails
<1> QED BY <1>2, <1>3, <1>4 DEF TypeOK, JudgeFails

\* LaunchDoomed keeps the types.
LEMMA TypeLaunchDoomed == TypeOK /\ LaunchDoomed => TypeOK'
BY DEF TypeOK, LaunchDoomed, Launch, Row, Holds

\* LaunchRefused keeps the types.
LEMMA TypeLaunchRefused == TypeOK /\ LaunchRefused => TypeOK'
BY DEF TypeOK, LaunchRefused, Fault, Row, Holds

\* Check keeps the types.
LEMMA TypeCheck == TypeOK /\ Check => TypeOK'
<1> SUFFICES ASSUME TypeOK, Check PROVE TypeOK'
  OBVIOUS
<1>1. stream \in Stream
  BY DEF TypeOK, Check, Stream
<1>2. PICK kept \in SUBSET Ids : stream' = [stream EXCEPT !.step = "delete", !.kept = kept]
  BY <1>1 DEF Check, Stream
<1>3. stream' \in Stream
  BY <1>1, <1>2 DEF Stream
<1> QED BY <1>3 DEF TypeOK, Check, Stream

\* Delete keeps the types.
LEMMA TypeDelete == TypeOK /\ Delete => TypeOK'
<1> SUFFICES ASSUME TypeOK, Delete PROVE TypeOK'
  OBVIOUS
<1>1. stream \in Stream /\ stream' \in Stream
  BY DEF TypeOK, Delete, Stream
<1>2. broker' \in [Ids -> {"none", "foreign", "ours", "edited"}]
  BY DEF TypeOK, Delete
<1> QED BY <1>1, <1>2 DEF TypeOK, Delete, Stream

\* Reported keeps the types.
LEMMA TypeReported == TypeOK /\ Reported => TypeOK'
BY DEF TypeOK, Reported, Forget, Row, Holds

\* Lost keeps the types.
LEMMA TypeLost == TypeOK /\ Lost => TypeOK'
BY DEF TypeOK, Lost, Fault, Row, Holds

\* Keep keeps the types.
LEMMA TypeKeep == TypeOK /\ Keep => TypeOK'
BY DEF TypeOK, Keep, Act, Row, Holds

\* Release keeps the types.
LEMMA TypeRelease == TypeOK /\ Release => TypeOK'
BY DEF TypeOK, Release, Act, Launch, Rows, Row, Holds

\* Cleared keeps the types.
LEMMA TypeCleared == TypeOK /\ Cleared => TypeOK'
<1> SUFFICES ASSUME TypeOK, Cleared PROVE TypeOK'
  OBVIOUS
<1>1. hold' \in Holds /\ clearing' \in BOOLEAN
  BY DEF Cleared, Holds
<1> QED BY <1>1 DEF TypeOK, Cleared

\* Restart keeps the types.
LEMMA TypeRestart == TypeOK /\ Restart => TypeOK'
<1> SUFFICES ASSUME TypeOK, Restart PROVE TypeOK'
  OBVIOUS
<1>1. faults' \in Nat
  BY DEF TypeOK, Restart, Fault
<1>2. absent' \in [Ids -> 0..MostMisses] /\ untold' \in SUBSET Ids
  BY InType, NeverJudgedType DEF Restart
<1> QED BY <1>1, <1>2 DEF TypeOK, Restart

\* Edited keeps the types.
LEMMA TypeEdited == \A i \in Ids : TypeOK /\ Edited(i) => TypeOK'
BY DEF TypeOK, Edited, Act, Row, Holds

\* The judge's decision.
LEMMA VerdictType ==
    ASSUME TypeOK, NEW e \in End, NEW share \in Shares
    PROVE  Verdict(e, share) \in Judgement
<1>1. Held("incomplete", e) \in Judgement /\ Held("empty", e) \in Judgement
  BY DEF Held, Judgement, Holds, End
<1>2. \A i \in Rows : Missed(i, e) \in 0..MostMisses
  BY MoreType DEF Missed, Rows, TypeOK, Row
<1>3. [i \in Ids |-> IF i \in Rows THEN Missed(i, e) ELSE None] \in [Ids -> (0..MostMisses) \cup {None}]
  BY <1>2
<1>4. Doomed(e) \in SUBSET Ids
  BY DEF Doomed, Rows
<1> QED BY <1>1, <1>3, <1>4 DEF Verdict, Judgement, Holds, End

\* Judge keeps the types.
LEMMA TypeJudge == TypeOK /\ Judge => TypeOK'
<1> SUFFICES ASSUME TypeOK, Judge PROVE TypeOK'
  OBVIOUS
<1>1. end \in End
  BY DEF TypeOK, Judge, End
<1>2. PICK share \in Shares : judging' = IF end.whole /\ Rows = {} THEN None ELSE Verdict(end, share)
  BY DEF Judge
<1>3. judging' \in {None} \cup Judgement
  BY <1>1, <1>2, VerdictType
<1>4. absent' \in [Ids -> 0..MostMisses]
  BY DEF TypeOK, Judge, Found
<1> QED BY <1>3, <1>4 DEF TypeOK, Judge, Judgement

\* Every step keeps the types.
LEMMA TypeNext == TypeOK /\ [Next]_vars => TypeOK'
<1> SUFFICES ASSUME TypeOK, [Next]_vars PROVE TypeOK'
  OBVIOUS
<1>1. CASE UNCHANGED vars
  BY <1>1 DEF TypeOK, vars
<1>2. CASE StartRun \/ EndRun \/ Judging
  BY <1>2, TypeStartRun, TypeEndRun, TypeJudge, TypeJudgeFails, TypeSettle, TypeLaunchDoomed, TypeLaunchRefused DEF Judging
<1>3. CASE Streaming \/ Lost \/ Restart
  BY <1>3, TypeCheck, TypeDelete, TypeReported, TypeLost, TypeRestart DEF Streaming
<1>4. CASE Keep \/ Release \/ Cleared
  BY <1>4, TypeKeep, TypeRelease, TypeCleared
<1>5. CASE \E i \in Ids : Report(i) \/ Edited(i)
  BY <1>5, TypeSent, TypeRejected, TypeFailed, TypeDropped, TypeEdited DEF Report
<1> QED BY <1>1, <1>2, <1>3, <1>4, <1>5 DEF Next

\* The types hold at the start.
LEMMA TypeInit == Init => TypeOK
<1> SUFFICES ASSUME Init PROVE TypeOK
  OBVIOUS
<1>1. broker \in [Ids -> {"none", "foreign", "ours", "edited"}]
  BY DEF Init
<1>2. ledger \in [Ids -> Row \cup {None}] /\ absent \in [Ids -> 0..MostMisses]
  BY DEF Init
<1> QED BY <1>1, <1>2 DEF Init, TypeOK, Holds

\* Every variable keeps its shape: the ages, the misses and what the judge, the runner and the
\* delete stream hold.
THEOREM SourceTypes == Spec => []TypeOK
BY TypeInit, TypeNext, PTL DEF Spec

-----------------------------------------------------------------------------
\* What nobody of the pipeline wrote is nowhere on the way to a delete.
Untouched ==
    \A i \in Ids : broker[i] = "foreign" =>
        /\ ledger[i] = None
        /\ i \notin handing
        /\ judging # None => i \notin judging.doomed
        /\ stream # None => i \notin stream.ids

\* A write takes its id out of the foreign ones and adds no other row.
LEMMA UntouchedWrite ==
    ASSUME TypeOK, Untouched, NEW i \in Ids, Write(i), UNCHANGED <<handing, judging>>,
           NoteSeen(i, TRUE) \/ UNCHANGED ledger
    PROVE  Untouched'
<1>1. \A k \in Ids : broker'[k] = "foreign" => k # i /\ broker[k] = "foreign"
  BY DEF Write, TypeOK
<1>2. \A k \in Ids : k # i => ledger'[k] = ledger[k]
  BY DEF NoteSeen, Seen, TypeOK
<1>3. stream' # None => stream # None /\ stream'.ids = stream.ids
  BY DEF Write, TypeOK
<1> QED BY <1>1, <1>2, <1>3 DEF Untouched

\* Only rows are doomed.
LEMMA DoomedIsRow ==
    ASSUME NEW e, NEW share
    PROVE  Verdict(e, share).doomed \subseteq Rows
BY DEF Verdict, Held, Doomed

\* Every step keeps what others made off the way to a delete.
LEMMA UntouchedNext == TypeOK /\ Untouched /\ [Next]_vars => Untouched'
<1> SUFFICES ASSUME TypeOK, Untouched, [Next]_vars PROVE Untouched'
  OBVIOUS
<1>1. CASE UNCHANGED vars
  BY <1>1 DEF Untouched, vars
<1>2. CASE StartRun
  BY <1>2 DEF Untouched, StartRun
<1>3. CASE EndRun
  BY <1>3 DEF Untouched, EndRun
<1>4. CASE Judge
  <2>1. judging' # None => judging'.doomed \subseteq Rows
    BY <1>4, DoomedIsRow DEF Judge
  <2> QED BY <1>4, <2>1 DEF Untouched, Judge, Rows
<1>5. CASE Settle
  BY <1>5 DEF Untouched, Settle, Settled
<1>6. CASE LaunchDoomed
  BY <1>6 DEF Untouched, LaunchDoomed, Launch
<1>7. CASE LaunchRefused
  BY <1>7 DEF Untouched, LaunchRefused
<1>8. CASE Check
  <2>1. stream \in Stream /\ stream'.ids = stream.ids
    BY <1>8 DEF Check, TypeOK, Stream
  <2> QED BY <1>8, <2>1 DEF Untouched, Check
<1>9. CASE Delete
  <2>1. stream \in Stream /\ stream'.ids = stream.ids
    BY <1>9 DEF Delete, TypeOK, Stream
  <2>2. \A i \in Ids : broker'[i] = "foreign" => broker[i] = "foreign"
    BY <1>9 DEF Delete
  <2> QED BY <1>9, <2>1, <2>2 DEF Untouched, Delete
<1>10. CASE Reported
  BY <1>10 DEF Untouched, Reported, Forget
<1>11. CASE Lost
  BY <1>11 DEF Untouched, Lost
<1>12. CASE Restart
  BY <1>12 DEF Untouched, Restart
<1>13. CASE Keep
  BY <1>13 DEF Untouched, Keep
<1>14. CASE Release
  BY <1>14 DEF Untouched, Release, Launch, Rows
<1>15. CASE Cleared
  BY <1>15 DEF Untouched, Cleared
<1>16. ASSUME NEW i \in Ids, Sent(i) PROVE Untouched'
  BY <1>16, UntouchedWrite DEF Sent
<1>17. ASSUME NEW i \in Ids, Rejected(i) PROVE Untouched'
  <2>1. \A k \in Ids : ledger[k] = None => ledger'[k] = None
    BY <1>17 DEF Rejected, NoteSeen, Seen, TypeOK
  <2> QED BY <1>17, <2>1 DEF Untouched, Rejected
<1>18. ASSUME NEW i \in Ids, Failed(i) PROVE Untouched'
  BY <1>18 DEF Untouched, Failed
<1>19. ASSUME NEW i \in Ids, Dropped(i) PROVE Untouched'
  BY <1>19, UntouchedWrite DEF Dropped
<1>20. ASSUME NEW i \in Ids, Edited(i) PROVE Untouched'
  BY <1>20 DEF Untouched, Edited, TypeOK
<1>21. CASE JudgeFails
  BY <1>21 DEF Untouched, JudgeFails
<1> QED BY <1>1, <1>2, <1>3, <1>4, <1>5, <1>6, <1>7, <1>8, <1>9, <1>10, <1>11, <1>12, <1>13,
           <1>14, <1>15, <1>16, <1>17, <1>18, <1>19, <1>20, <1>21 DEF Next, Judging, Streaming, Report

\* "An id the pipeline never wrote is never its to delete", whatever is reported, lost or decided.
THEOREM OnlyOurs == Spec => []OnlyOursGo
<1>1. Init => Untouched
  BY DEF Init, Untouched
<1>2. Untouched => OnlyOursGo
  BY DEF Untouched, OnlyOursGo
<1> QED BY <1>1, <1>2, UntouchedNext, SourceTypes, PTL DEF Spec

-----------------------------------------------------------------------------
\* A row's misses are complete runs that really did not find it, or it is untold.
MissesAreTrue == \A i \in Ids : ledger[i] # None => ledger[i].misses <= absent[i] \/ i \in untold

\* What a complete run has reported is in the ledger under its name, or unseen.
ReportsAreIn ==
    run # None /\ ~run.failed /\ run.counted =>
        \A i \in run.listed \ run.left : ledger[i] # None => ledger[i].age = 0 \/ i \in run.unseen

\* What a complete run found is under its name until it is judged, or unseen.
EndIsRead ==
    end # None =>
        /\ \A i \in end.found : ledger[i] # None => ledger[i].age = end.age \/ i \in end.unseen
        /\ ~end.whole => end.found = {} /\ end.unseen = {}

\* The verdict writes no misses.
Holding(j) == j.hold \in {"incomplete", "empty"}

\* What the judge decided holds when it is written, whatever the ledger became since.
VerdictIsTrue ==
    judging # None =>
        /\ \A i \in Ids : judging.misses[i] # None =>
              /\ ~Holding(judging)
              /\ i \in judging.found /\ i \notin judging.unseen => judging.misses[i] = 0
              /\ judging.misses[i] <= More(absent[i]) \/ i \in untold
        /\ \A i \in Ids : judging.misses[i] = None /\ ledger[i] # None =>
              /\ ~Holding(judging) => ledger[i].misses = 0
              /\ i \in judging.found /\ i \notin judging.unseen => ledger[i].misses = 0
        /\ judging.hold = "incomplete" => judging.found = {} /\ judging.unseen = {}
        /\ \A i \in judging.doomed : judging.misses[i] # None /\ judging.misses[i] >= Misses

\* What is handed over went missing often enough, or is untold.
HandedIsMissing == \A i \in handing : absent[i] >= Misses \/ i \in untold

MInv == MissesAreTrue /\ ReportsAreIn /\ EndIsRead /\ VerdictIsTrue /\ HandedIsMissing

\* One more miss keeps the order.
LEMMA MoreMonotone == \A m, n \in 0..MostMisses : m <= n => More(m) <= More(n)
BY DEF More

\* What the judge decides of a run.
LEMMA VerdictOfRun ==
    ASSUME TypeOK, MissesAreTrue, EndIsRead, end # None, end.whole, NEW share \in Shares,
           judging' = Verdict(end, share), ledger' = ledger, absent' = absent, untold' = untold
    PROVE  VerdictIsTrue'
<1> DEFINE V == Verdict(end, share)
<1>1. end \in End
  BY DEF TypeOK, End
<1>2. CASE ReadNone(end)
  <2>1. V = Held("empty", end)
    BY <1>2 DEF Verdict
  <2>2. /\ V.hold = "empty" /\ V.doomed = {} /\ V.found = end.found /\ V.unseen = end.unseen
        /\ \A i \in Ids : V.misses[i] = None
    BY <2>1 DEF Held
  <2>3. \A i \in Ids : i \in end.found /\ i \notin end.unseen => ledger[i] = None
    BY <1>2 DEF ReadNone, Rows, EndIsRead
  <2> HIDE DEF V
  <2>4. judging' = V
    BY DEF V
  <2> QED BY <2>2, <2>3, <2>4 DEF VerdictIsTrue, Holding
<1>3. CASE ~ReadNone(end)
  <2>1. V = [misses |-> [i \in Ids |-> IF i \in Rows THEN Missed(i, end) ELSE None],
             hold |-> IF TooMany(Doomed(end), share) THEN "share" ELSE "none",
             doomed |-> IF TooMany(Doomed(end), share) THEN {} ELSE Doomed(end),
             found |-> end.found, unseen |-> end.unseen]
    BY <1>3 DEF Verdict
  <2>2. /\ V.hold \notin {"incomplete", "empty"} /\ V.found = end.found /\ V.unseen = end.unseen
        /\ V.doomed \subseteq Doomed(end)
        /\ \A i \in Ids : V.misses[i] = IF i \in Rows THEN Missed(i, end) ELSE None
    BY <2>1
  <2>3. \A i \in Rows : Missed(i, end) \in 0..MostMisses /\ Missed(i, end) # None
    BY MoreType DEF Missed, Rows, TypeOK, Row
  <2>4. \A i \in Rows : i \in end.found /\ i \notin end.unseen => Missed(i, end) = 0
    BY DEF Missed, EndIsRead, Rows
  <2>5. \A i \in Rows : Missed(i, end) <= More(absent[i]) \/ i \in untold
    <3> SUFFICES ASSUME NEW i \in Rows, i \notin untold PROVE Missed(i, end) <= More(absent[i])
      OBVIOUS
    <3>1. ledger[i] \in Row /\ i \in Ids /\ absent[i] \in 0..MostMisses
      BY DEF Rows, TypeOK
    <3>2. ledger[i].misses \in 0..MostMisses /\ ledger[i].misses <= absent[i]
      BY <3>1 DEF Row, Rows, MissesAreTrue
    <3>3. More(ledger[i].misses) <= More(absent[i]) /\ More(absent[i]) \in 0..MostMisses
      BY <3>1, <3>2, MoreMonotone, MoreType
    <3> QED BY <3>3 DEF Missed
  <2>6. \A i \in V.doomed : i \in Rows /\ Missed(i, end) >= Misses
    BY <2>2 DEF Doomed
  <2>7. \A i \in Rows : i \in Ids
    BY DEF Rows
  <2>8. \A i \in Ids : V.misses[i] # None => i \in Rows
    BY <2>2
  <2>9. \A i \in Ids : V.misses[i] = None => ledger[i] = None
    BY <2>2, <2>3 DEF Rows
  <2> HIDE DEF V
  <2>10. judging' = V
    BY DEF V
  <2> QED BY <2>2, <2>3, <2>4, <2>5, <2>6, <2>7, <2>8, <2>9, <2>10 DEF VerdictIsTrue, Holding
<1> QED BY <1>2, <1>3

\* A step that keeps the judge's and the reports' state, and gives no row more misses or another
\* run's name.
LEMMA Frame ==
    ASSUME MInv, UNCHANGED <<judging, absent, untold>>, handing' \subseteq handing,
           \A i \in Ids : ledger'[i] # None =>
              /\ ledger[i] # None
              /\ ledger'[i].age = ledger[i].age
              /\ ledger'[i].misses = ledger[i].misses \/ ledger'[i].misses = 0,
           TypeOK, UNCHANGED <<run, end>>
    PROVE  MInv'
<1>1. MissesAreTrue'
  BY DEF MInv, MissesAreTrue, TypeOK
<1>2. ReportsAreIn' /\ EndIsRead'
  <2>1. run \in {None} \cup Run /\ end \in {None} \cup End
    BY DEF TypeOK, Run, End
  <2>2. \A i \in Ids : ledger'[i] # None => ledger[i] # None /\ ledger'[i].age = ledger[i].age
    OBVIOUS
  <2>3. ReportsAreIn'
    BY <2>1, <2>2 DEF MInv, ReportsAreIn, Run
  <2>4. EndIsRead'
    BY <2>1, <2>2 DEF MInv, EndIsRead, End
  <2> QED BY <2>3, <2>4
<1>3. VerdictIsTrue'
  BY DEF MInv, VerdictIsTrue
<1>4. HandedIsMissing'
  BY DEF MInv, HandedIsMissing
<1> QED BY <1>1, <1>2, <1>3, <1>4 DEF MInv

\* StartRun keeps the counts true: the row and the end that name one run grow older together.
LEMMA StartRunCounts ==
    ASSUME TypeOK, MInv, StartRun
    PROVE  MInv'
<1>1. UNCHANGED <<judging, absent, untold, handing>>
  BY DEF StartRun
<1>2. \A i \in Ids : ledger'[i] # None =>
         /\ ledger[i] # None /\ ledger'[i].misses = ledger[i].misses
         /\ ledger'[i].age = Older(ledger[i].age)
  BY DEF StartRun, TypeOK, Row
<1>3. ReportsAreIn'
  BY DEF StartRun, ReportsAreIn
<1>4. EndIsRead'
  <2>1. CASE end = None
    BY <2>1 DEF StartRun, EndIsRead
  <2>2. CASE end # None
    <3>1. end \in End
      BY <2>2 DEF TypeOK, End
    <3>2. /\ end'.age = Older(end.age) /\ end'.whole = end.whole
          /\ end'.found = end.found /\ end'.unseen = end.unseen
      BY <2>2, <3>1 DEF StartRun, End
    <3>3. end.found \subseteq Ids
      BY <3>1 DEF End
    <3> QED BY <1>2, <2>2, <3>2, <3>3 DEF MInv, EndIsRead
  <2> QED BY <2>1, <2>2
<1>5. MissesAreTrue'
  BY <1>1, <1>2 DEF MInv, MissesAreTrue
<1>6. VerdictIsTrue'
  BY <1>1, <1>2 DEF MInv, VerdictIsTrue
<1> QED BY <1>1, <1>3, <1>4, <1>5, <1>6 DEF MInv, HandedIsMissing

\* A report puts its id under the run's name and changes no misses.
LEMMA SeenRow ==
    ASSUME TypeOK, NEW i \in Ids, NEW written \in BOOLEAN, Seen(i, written)
    PROVE  /\ \A k \in Ids : k # i => ledger'[k] = ledger[k]
           /\ ledger'[i] # None =>
                 /\ ledger'[i].age = 0
                 /\ ledger'[i].misses = 0 \/ (ledger[i] # None /\ ledger'[i].misses = ledger[i].misses)
BY DEF TypeOK, Seen, Row

\* A report, taken by the ledger or not, keeps the counts true.
LEMMA SeenCounts ==
    ASSUME TypeOK, MInv, NEW i \in Ids, NEW written \in BOOLEAN, NoteSeen(i, written), Reports(i),
           UNCHANGED <<judging, handing, absent, untold>>
    PROVE  MInv'
<1>1. run \in Run /\ run # None /\ end \in {None} \cup End
  BY DEF TypeOK, Reports, Run, End
<1>2. CASE /\ Seen(i, written)
           /\ run' = [run EXCEPT !.left = @ \ {i}]
           /\ end' = IF end # None /\ i \in end.found THEN [end EXCEPT !.unseen = @ \cup {i}] ELSE end
  <2>1. /\ run'.listed = run.listed /\ run'.left = run.left \ {i} /\ run'.unseen = run.unseen
        /\ run'.failed = run.failed /\ run'.counted = run.counted
    BY <1>1, <1>2 DEF Run
  <2>2. /\ \A k \in Ids : k # i => ledger'[k] = ledger[k]
        /\ ledger'[i] # None =>
              /\ ledger'[i].age = 0
              /\ ledger'[i].misses = 0 \/ (ledger[i] # None /\ ledger'[i].misses = ledger[i].misses)
    BY <1>2, SeenRow
  <2>3. ReportsAreIn'
    BY <1>1, <2>1, <2>2 DEF MInv, ReportsAreIn, Run
  <2>4. absent \in [Ids -> 0..MostMisses]
    BY DEF TypeOK
  <2>5. MissesAreTrue'
    BY <2>2, <2>4 DEF MInv, MissesAreTrue
  <2>6. VerdictIsTrue'
    BY <2>2 DEF MInv, VerdictIsTrue
  <2>7. EndIsRead'
    <3>1. CASE end = None \/ i \notin end.found
      <4>1. end' = end
        BY <1>2, <3>1
      <4> QED BY <1>1, <2>2, <3>1, <4>1 DEF MInv, EndIsRead, End
    <3>2. CASE end # None /\ i \in end.found
      <4>1. /\ end'.age = end.age /\ end'.found = end.found /\ end'.whole = end.whole
            /\ end'.unseen = end.unseen \cup {i}
        BY <1>1, <1>2, <3>2 DEF End
      <4>2. end.whole
        BY <3>2 DEF MInv, EndIsRead
      <4> QED BY <1>1, <2>2, <3>2, <4>1, <4>2 DEF MInv, EndIsRead, End
    <3> QED BY <3>1, <3>2
  <2> QED BY <2>3, <2>5, <2>6, <2>7 DEF MInv, HandedIsMissing
<1>3. CASE /\ run' = [run EXCEPT !.left = @ \ {i}, !.unseen = @ \cup {i}]
           /\ UNCHANGED <<ledger, end>>
  <2>1. /\ run'.listed = run.listed /\ run'.left = run.left \ {i} /\ run'.unseen = run.unseen \cup {i}
        /\ run'.failed = run.failed /\ run'.counted = run.counted
    BY <1>1, <1>3 DEF Run
  <2>2. ReportsAreIn'
    BY <1>1, <1>3, <2>1 DEF MInv, ReportsAreIn, Run
  <2> QED BY <1>3, <2>2 DEF MInv, MissesAreTrue, EndIsRead, VerdictIsTrue, HandedIsMissing
<1> QED BY <1>2, <1>3 DEF NoteSeen

\* EndRun keeps the counts true.
LEMMA EndRunCounts ==
    ASSUME TypeOK, MInv, EndRun
    PROVE  MInv'
<1>1. run \in Run /\ run # None /\ run' = None
  BY DEF TypeOK, EndRun, Run
<1>2. UNCHANGED <<ledger, judging, handing, absent, untold>>
  BY DEF EndRun
<1>3. PICK whole \in BOOLEAN : end' = RunEnd(whole) /\ (whole => run.left = {} /\ ~run.failed /\ run.counted)
  <2>1. CASE run.left = {} /\ Ended(TRUE)
    <3>1. (TRUE /\ ~run.failed /\ run.counted) \in BOOLEAN
      OBVIOUS
    <3> QED BY <2>1, <3>1 DEF Ended
  <2>2. CASE Ended(FALSE)
    <3>1. end' = RunEnd(FALSE)
      BY <2>2 DEF Ended
    <3> QED BY <3>1
  <2> QED BY <2>1, <2>2 DEF EndRun
<1>4. /\ end'.age = 0 /\ end'.whole = whole
      /\ end'.found = IF whole THEN run.listed ELSE {}
      /\ end'.unseen = IF whole THEN run.unseen ELSE {}
  BY <1>3 DEF RunEnd
<1>5. EndIsRead'
  BY <1>1, <1>2, <1>3, <1>4 DEF EndIsRead, MInv, ReportsAreIn, Run
<1> QED BY <1>1, <1>2, <1>5 DEF MInv, MissesAreTrue, ReportsAreIn, VerdictIsTrue, HandedIsMissing

\* Judge keeps the counts true.
LEMMA JudgeCounts ==
    ASSUME TypeOK, MInv, Judge
    PROVE  MInv'
<1>1. end # None /\ end' = None /\ handing = {} /\ UNCHANGED <<ledger, run, handing, untold>>
  BY DEF Judge
<1>2. PICK share \in Shares : judging' = IF end.whole /\ Rows = {} THEN None ELSE Verdict(end, share)
  BY DEF Judge
<1>3. CASE end.whole /\ Rows = {}
  <2>1. \A i \in Ids : ledger'[i] = None
    BY <1>1, <1>3 DEF Rows
  <2>2. judging' = None
    BY <1>2, <1>3
  <2> QED BY <1>1, <2>1, <2>2 DEF MInv, MissesAreTrue, ReportsAreIn, EndIsRead, VerdictIsTrue, HandedIsMissing
<1>4. CASE ~end.whole
  <2>1. judging' = Held("incomplete", end) /\ absent' = absent
    BY <1>2, <1>4 DEF Verdict, Judge
  <2>2. /\ judging'.hold = "incomplete" /\ judging'.found = end.found /\ judging'.unseen = end.unseen
        /\ judging'.doomed = {} /\ \A i \in Ids : judging'.misses[i] = None
    BY <2>1 DEF Held
  <2>3. end.found = {} /\ end.unseen = {}
    BY <1>1, <1>4 DEF MInv, EndIsRead
  <2>4. VerdictIsTrue'
    BY <2>2, <2>3 DEF VerdictIsTrue, Holding
  <2> QED BY <1>1, <2>1, <2>4 DEF MInv, MissesAreTrue, ReportsAreIn, EndIsRead, HandedIsMissing
<1>5. CASE end.whole /\ Rows # {}
  <2>1. absent' = absent /\ judging' = Verdict(end, share)
    BY <1>2, <1>5 DEF Judge
  <2>2. VerdictIsTrue'
    BY <1>1, <1>5, <2>1, VerdictOfRun DEF MInv
  <2> QED BY <1>1, <2>1, <2>2 DEF MInv, MissesAreTrue, ReportsAreIn, EndIsRead, HandedIsMissing
<1> QED BY <1>3, <1>4, <1>5

\* A complete run that is never judged leaves its ids untold.
LEMMA NeverJudgedCounts ==
    ASSUME TypeOK, MInv, NEW ids \in SUBSET Ids, NeverJudged(ids), UNCHANGED ledger
    PROVE  MissesAreTrue'
<1>1. untold' = untold \cup ids /\ \A i \in Ids : i \notin ids => absent'[i] = absent[i]
  BY DEF NeverJudged, Found
<1> QED BY <1>1 DEF MInv, MissesAreTrue

\* JudgeFails keeps the counts true.
LEMMA JudgeFailsCounts ==
    ASSUME TypeOK, MInv, JudgeFails
    PROVE  MInv'
<1>1. handing = {} /\ UNCHANGED <<ledger, run, handing>>
  BY DEF JudgeFails
<1>2. PICK ids \in SUBSET Ids : NeverJudged(ids)
  BY InType DEF JudgeFails
<1>3. MissesAreTrue'
  BY <1>1, <1>2, NeverJudgedCounts
<1>4. judging' = None /\ (end' = end \/ end' = None)
  BY DEF JudgeFails
<1>5. ReportsAreIn' /\ EndIsRead'
  BY <1>1, <1>4 DEF MInv, ReportsAreIn, EndIsRead
<1> QED BY <1>1, <1>3, <1>4, <1>5 DEF MInv, VerdictIsTrue, HandedIsMissing

\* Settle keeps the counts true.
LEMMA SettleCounts ==
    ASSUME TypeOK, MInv, Settle
    PROVE  MInv'
<1>1. judging \in Judgement /\ judging # None /\ judging' = None /\ handing' = judging.doomed
  BY DEF TypeOK, Settle, Judgement
<1>2. UNCHANGED <<run, end>>
  BY DEF Settle
<1>3. \A i \in Ids : ledger'[i] # None =>
         ledger[i] # None /\ ledger'[i].age = ledger[i].age
         /\ ledger'[i].misses = IF judging.misses[i] = None THEN ledger[i].misses ELSE judging.misses[i]
  BY DEF Settle, Settled, TypeOK, Row
<1>4. \A i \in Ids : absent'[i] =
         IF judging.hold = "incomplete" THEN absent[i]
         ELSE IF i \in judging.found \/ (~Holding(judging) /\ judging.misses[i] = None) THEN 0
         ELSE IF ~Holding(judging) THEN More(absent[i]) ELSE absent[i]
  BY DEF Settle, Holding
<1>5. /\ \A i \in untold : Holding(judging) \/ judging.misses[i] \notin {0, None} => i \in untold'
      /\ judging.hold # "incomplete" => judging.unseen \subseteq untold'
  BY DEF Settle, Holding
<1>6. \A i \in Ids : absent'[i] \in 0..MostMisses
  BY TypeSettle DEF TypeOK
<1>7. \A i \in Ids : judging.misses[i] # None => judging.misses[i] <= absent'[i] \/ i \in untold'
  <2> SUFFICES ASSUME NEW i \in Ids, judging.misses[i] # None, i \notin untold'
               PROVE  judging.misses[i] <= absent'[i]
    OBVIOUS
  <2>1. /\ ~Holding(judging)
        /\ i \in judging.found /\ i \notin judging.unseen => judging.misses[i] = 0
        /\ judging.misses[i] <= More(absent[i]) \/ i \in untold
    BY <1>1 DEF MInv, VerdictIsTrue
  <2>2. judging.hold # "incomplete" /\ i \notin judging.unseen
    BY <1>5, <2>1 DEF Holding
  <2>3. judging.misses[i] \in 0..MostMisses
    BY <1>1 DEF Judgement
  <2>4. CASE judging.misses[i] = 0
    BY <1>6, <2>4
  <2>5. CASE judging.misses[i] # 0
    <3>1. i \notin judging.found /\ i \notin untold
      BY <1>5, <2>1, <2>2, <2>5
    <3> QED BY <1>4, <2>1, <2>2, <3>1
  <2> QED BY <2>4, <2>5
<1>8. MissesAreTrue'
  <2> SUFFICES ASSUME NEW i \in Ids, ledger'[i] # None, i \notin untold' PROVE ledger'[i].misses <= absent'[i]
    BY DEF MissesAreTrue
  <2>1. ledger[i] # None /\ (ledger[i].misses <= absent[i] \/ i \in untold) /\ ledger[i].misses \in 0..MostMisses
    BY <1>3 DEF MInv, MissesAreTrue, TypeOK, Row
  <2>2. CASE judging.misses[i] # None
    BY <1>3, <1>7, <2>2
  <2>3. CASE judging.misses[i] = None
    <3>1. /\ ledger'[i].misses = ledger[i].misses
          /\ ~Holding(judging) => ledger[i].misses = 0
          /\ i \in judging.found /\ i \notin judging.unseen => ledger[i].misses = 0
          /\ judging.hold = "incomplete" => judging.found = {} /\ judging.unseen = {}
      BY <1>1, <1>3, <2>1, <2>3 DEF MInv, VerdictIsTrue
    <3>2. CASE ledger[i].misses = 0
      BY <1>6, <3>1, <3>2
    <3>3. CASE ledger[i].misses # 0
      <4>1. Holding(judging) /\ i \notin judging.found
        BY <1>5, <3>1, <3>3
      <4>2. absent'[i] = absent[i] /\ i \notin untold
        BY <1>4, <1>5, <4>1
      <4> QED BY <2>1, <3>1, <4>2
    <3> QED BY <3>2, <3>3
  <2> QED BY <2>2, <2>3
<1>9. HandedIsMissing'
  <2> SUFFICES ASSUME NEW i \in judging.doomed, i \notin untold' PROVE absent'[i] >= Misses
    BY <1>1 DEF HandedIsMissing
  <2>1. i \in Ids /\ judging.misses[i] # None /\ judging.misses[i] >= Misses
    BY <1>1 DEF MInv, VerdictIsTrue, Judgement
  <2>2. judging.misses[i] \in 0..MostMisses
    BY <1>1, <2>1 DEF Judgement
  <2> QED BY <1>6, <1>7, <2>1, <2>2
<1>10. ReportsAreIn' /\ EndIsRead'
  <2>1. run \in {None} \cup Run /\ end \in {None} \cup End
    BY DEF TypeOK, Run, End
  <2>2. ReportsAreIn'
    BY <1>2, <1>3, <2>1 DEF MInv, ReportsAreIn, Run
  <2>3. EndIsRead'
    BY <1>2, <1>3, <2>1 DEF MInv, EndIsRead, End
  <2> QED BY <2>2, <2>3
<1> QED BY <1>1, <1>8, <1>9, <1>10 DEF MInv, VerdictIsTrue

\* Every step keeps the counts true.
LEMMA CountsNext ==
    ASSUME TypeOK, MInv, [Next]_vars
    PROVE  MInv'
<1>1. CASE UNCHANGED vars
  <2> USE <1>1 DEF vars
  <2> QED BY Frame
<1>2. CASE StartRun \/ EndRun \/ Judge \/ JudgeFails \/ Settle
  BY <1>2, StartRunCounts, EndRunCounts, JudgeCounts, JudgeFailsCounts, SettleCounts
<1>3. CASE LaunchDoomed
  BY <1>3, Frame DEF LaunchDoomed
<1>4. CASE LaunchRefused
  BY <1>4, Frame DEF LaunchRefused
<1>5. CASE Check
  BY <1>5, Frame DEF Check
<1>6. CASE Delete
  BY <1>6, Frame DEF Delete
<1>7. CASE Reported
  <2>1. \A i \in Ids : ledger'[i] # None => ledger'[i] = ledger[i]
    BY <1>7 DEF Reported, Forget
  <2> QED BY <1>7, <2>1, Frame DEF Reported
<1>8. CASE Lost
  BY <1>8, Frame DEF Lost
<1>9. CASE Restart
  <2>1. MissesAreTrue'
    BY <1>9, InType, NeverJudgedCounts DEF Restart
  <2> QED BY <1>9, <2>1 DEF Restart, MInv, ReportsAreIn, EndIsRead, VerdictIsTrue, HandedIsMissing
<1>10. CASE Keep
  <2>1. \A i \in Ids : ledger'[i] # None =>
          ledger[i] # None /\ ledger'[i].age = ledger[i].age /\ ledger'[i].misses = 0
    BY <1>10 DEF Keep, TypeOK, Row
  <2> QED BY <1>10, <2>1, Frame DEF Keep
<1>11. CASE Release
  BY <1>11, Frame DEF Release
<1>12. CASE Cleared
  BY <1>12, Frame DEF Cleared
<1>13. ASSUME NEW i \in Ids, Sent(i) PROVE MInv'
  BY <1>13, SeenCounts DEF Sent
<1>14. ASSUME NEW i \in Ids, Rejected(i) PROVE MInv'
  BY <1>14, SeenCounts DEF Rejected
<1>15. ASSUME NEW i \in Ids, Failed(i) \/ Dropped(i) PROVE MInv'
  <2>1. run \in Run /\ run # None
    BY <1>15 DEF Failed, Dropped, Reports, TypeOK, Run
  <2>2. run'.failed \/ ~run'.counted
    BY <1>15, <2>1 DEF Failed, Dropped, Run
  <2>3. UNCHANGED <<ledger, end, judging, handing, absent, untold>>
    BY <1>15 DEF Failed, Dropped
  <2> QED BY <2>2, <2>3 DEF MInv, MissesAreTrue, ReportsAreIn, EndIsRead, VerdictIsTrue, HandedIsMissing
<1>16. ASSUME NEW i \in Ids, Edited(i) PROVE MInv'
  BY <1>16, Frame DEF Edited
<1> QED BY <1>1, <1>2, <1>3, <1>4, <1>5, <1>6, <1>7, <1>8, <1>9, <1>10, <1>11, <1>12, <1>13, <1>14,
           <1>15, <1>16 DEF Next, Judging, Streaming, Report

\* A delete stream starts with what is handed over, or with rows that a release found due.
LEMMA LaunchedIsMissing ==
    ASSUME TypeOK, MInv, [Next]_vars, stream = None, stream' # None
    PROVE  \A i \in stream'.ids : absent[i] >= Misses \/ i \in untold
<1>1. LaunchDoomed \/ Release
  BY DEF Next, vars, StartRun, EndRun, Judging, Judge, Settle, LaunchRefused, Streaming, Check, Delete,
         JudgeFails, Reported, Lost, Restart, Keep, Cleared, Report, Sent, Rejected, Failed, Dropped, Write, Edited
<1>2. CASE LaunchDoomed
  BY <1>2 DEF LaunchDoomed, Launch, MInv, HandedIsMissing
<1>3. CASE Release
  <2>1. \A i \in stream'.ids : i \in Ids /\ ledger[i] # None /\ ledger[i].misses >= Misses
    BY <1>3 DEF Release, Launch, Rows
  <2>2. \A i \in Ids : ledger[i] # None => ledger[i].misses <= absent[i] \/ i \in untold
    BY DEF MInv, MissesAreTrue
  <2>3. \A i \in Ids : ledger[i] # None => ledger[i].misses \in 0..MostMisses
    BY DEF TypeOK, Row
  <2>4. \A i \in Ids : absent[i] \in 0..MostMisses
    BY DEF TypeOK
  <2> QED BY <2>1, <2>2, <2>3, <2>4
<1> QED BY <1>1, <1>2, <1>3

\* A delete stream starts only with ids that `misses` complete runs in a row did not find in the
\* source, or with ids a complete run found and the ledger was never told so (note_seen failed,
\* the next run's report came before the judge, or the end was lost): for any number of ids, runs,
\* faults and decisions, a late judge included.  No dropped report, failed record or unfinished
\* run makes a third case.
THEOREM OnlyMissing == Spec => OnlyMissingOrUntold
<1>1. Init => MInv
  BY DEF Init, MInv, MissesAreTrue, ReportsAreIn, EndIsRead, VerdictIsTrue, HandedIsMissing
<1>2. TypeOK /\ MInv /\ [Next]_vars => MInv'
  BY CountsNext
<1>3. TypeOK /\ MInv /\ [Next]_vars =>
        [stream = None /\ stream' # None =>
            \A i \in stream'.ids : absent[i] >= Misses \/ i \in untold]_vars
  BY LaunchedIsMissing
<1> QED BY <1>1, <1>2, <1>3, SourceTypes, PTL DEF Spec, OnlyMissingOrUntold
=============================================================================
