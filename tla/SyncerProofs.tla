---------------------------- MODULE SyncerProofs ----------------------------
(***************************************************************************)
(* For any repositories, any number of merges and any faults: of what a    *)
(* leader's run staged it never writes anything older than a merge that    *)
(* moved something, and what a run, a go_live or a wave works with is what *)
(* its earlier steps left it.                                              *)
(***************************************************************************)
EXTENDS Syncer, TLAPS

(* Type correctness.  The types alone are not inductive: the content a run  *)
(* or a go_live renders exists only because the revision it read is one of  *)
(* main.                                                                    *)

SyncTypes ==
    /\ TypeOK
    /\ runPc = "stage" => runRev \in 1..Len(repo)
    /\ goPc = "stage" => goRev \in 1..Len(repo)

\* What is rendered of a revision of main is a content, whoever did not stage.
LEMMA RenderedContent ==
    ASSUME TypeOK, NEW rev \in 1..Len(repo), NEW kept \in SUBSET Projects
    PROVE  Rendered(rev, kept) \in Content_
<1>1. repo[rev] \in Content_ /\ repo[Head_] \in Content_
  BY ContentsAssumption DEF TypeOK, Head_
<1>2. lastRender # None => lastRender.content \in Content_
  BY DEF TypeOK, Render
<1>3. Absent \in Specs
  BY DEF Specs
<1> QED BY <1>1, <1>2, <1>3 DEF Rendered, Content_

\* What is staged is a render, and when nothing was kept it is the one just made.
LEMMA StagedRender ==
    ASSUME TypeOK, NEW rev \in 1..Len(repo), NEW kept \in SUBSET Projects
    PROVE  /\ Staged(rev, kept) \in Render
           /\ Staged(rev, kept).content = Rendered(rev, kept)
           /\ Staged(rev, kept).kept = kept
<1>1. Rendered(rev, kept) \in Content_
  BY RenderedContent
<1>2. CASE kept = {} /\ Unchanged(rev)
  BY <1>2 DEF Staged, Unchanged, TypeOK
<1>3. CASE ~(kept = {} /\ Unchanged(rev))
  <2>1. Staged(rev, kept) = [content |-> Rendered(rev, kept), kept |-> kept]
    BY <1>3 DEF Staged
  <2> QED BY <1>1, <2>1 DEF Render
<1> QED BY <1>2, <1>3

\* A merge keeps the types.
LEMMA TypesMerge == ASSUME SyncTypes, NEW content \in Contents, Merge(content) PROVE SyncTypes'
<1>1. repo' \in Seq(Contents) /\ Len(repo') = Len(repo) + 1 /\ Len(repo) \in Nat
  BY DEF Merge, SyncTypes, TypeOK
<1>2. owedLive' \in Nat
  BY DEF Merge, SyncTypes, TypeOK
<1> QED BY <1>1, <1>2 DEF Merge, SyncTypes, TypeOK, state, waves, run, golive, history

\* What a return of go_live leaves.
LEMMA TypesGoReturns ==
    ASSUME TypeOK, GoReturns
    PROVE  /\ goPc' = "idle" /\ goRev' \in 0..Len(repo) /\ goHead' \in 0..Len(repo)
           /\ goRead' \in Content_ \cup {None}
           /\ goWrote' \in BOOLEAN /\ owedRuns' \in Nat
<1>1. Len(repo) \in Nat /\ owedRuns \in Nat
  BY DEF TypeOK
<1>2. goRev' \in 0..Len(repo) /\ goHead' \in 0..Len(repo) /\ owedRuns' \in Nat
  BY <1>1 DEF GoReturns
<1>3. goPc' = "idle" /\ goRead' \in Content_ \cup {None} /\ goWrote' \in BOOLEAN
  BY Zenon DEF GoReturns
<1> QED BY <1>2, <1>3

\* The steps of go_live keep the types.
LEMMA TypesGoLive == ASSUME SyncTypes, GoLive PROVE SyncTypes'
<1> USE DEF SyncTypes
<1>1. CASE GoBegin
  <2>1. owedLive' \in Nat
    BY <1>1 DEF GoBegin, TypeOK
  <2>2. CASE GoReturns
    BY <1>1, <2>1, <2>2, TypesGoReturns DEF GoBegin, TypeOK, outside, state, waves, run, history
  <2>3. CASE goPc' = "read" /\ UNCHANGED <<goRev, goHead, goRead, goWrote, owedRuns>>
    BY <1>1, <2>1, <2>3 DEF GoBegin, TypeOK, outside, state, waves, run, history
  <2> QED BY <1>1, <2>2, <2>3 DEF GoBegin
<1>2. CASE GoRead
  <2>1. CASE Fault /\ GoReturns
    <3>1. faults' \in Nat
      BY <2>1 DEF Fault, TypeOK
    <3> QED BY <1>2, <2>1, <3>1, TypesGoReturns DEF GoRead, TypeOK, outside, state, waves, run, history
  <2>2. CASE goPc' = "stage" /\ goRev' = Head_ /\ UNCHANGED <<goHead, goRead, goWrote, owedRuns, faults>>
    <3>1. goRev' \in 1..Len(repo)
      BY <2>2 DEF Head_, TypeOK
    <3> QED BY <1>2, <2>2, <3>1 DEF GoRead, TypeOK, outside, state, waves, run, history
  <2> QED BY <1>2, <2>1, <2>2 DEF GoRead
<1>3. CASE GoStage
  <2>1. CASE GoReturns /\ (UNCHANGED faults \/ Fault)
    <3>1. faults' \in Nat
      BY <2>1 DEF Fault, TypeOK
    <3> QED BY <1>3, <2>1, <3>1, TypesGoReturns DEF GoStage, TypeOK, outside, state, waves, run, history
  <2>2. CASE /\ goPc' = "views" /\ goRead' = Rendered(goRev, {}) /\ goHead' = Head_
             /\ UNCHANGED <<goRev, goWrote, owedRuns, faults>>
    <3>1. goRead' \in Content_ /\ goRead' # None
      BY <1>3, <2>2, RenderedContent, NoneAssumption DEF GoStage
    <3>2. goHead' \in 0..Len(repo)
      BY <2>2 DEF Head_, TypeOK
    <3> QED BY <1>3, <2>2, <3>1, <3>2 DEF GoStage, TypeOK, outside, state, waves, run, history
  <2> QED BY <1>3, <2>1, <2>2 DEF GoStage
<1>4. CASE GoViews
  <2>1. faults' \in Nat /\ goWrote' \in BOOLEAN /\ goPc' = "mirror" /\ views' = goRead
    BY <1>4 DEF GoViews, Fault, TypeOK
  <2>2. broker' \in [LiveKinds -> Specs]
    <3>1. goRead \in Content_
      BY <1>4 DEF GoViews, TypeOK
    <3> QED BY <1>4, <3>1, LiveKindsAssumption DEF GoViews, TypeOK, Content_
  <2> QED BY <1>4, <2>1, <2>2 DEF GoViews, TypeOK, waves, owed, run, history
<1>5. CASE GoMirror
  <2>1. mirror' \in Content_ /\ merges' \in Nat
    <3>1. goRead \in Content_
      BY <1>5 DEF GoMirror, TypeOK
    <3> QED BY <1>5, <3>1 DEF GoMirror, TypeOK, Content_
  <2>2. {movedRev', movedHead', liveRev'} \subseteq 0..Len(repo)
    BY <1>5 DEF GoMirror, TypeOK
  <2>3. GoReturns
    BY <1>5 DEF GoMirror
  <2> QED BY <1>5, <2>1, <2>2, <2>3, TypesGoReturns DEF GoMirror, TypeOK, outside, waves, run
<1> QED BY <1>1, <1>2, <1>3, <1>4, <1>5 DEF GoLive

\* What the end of a run leaves.
LEMMA TypesRunStops ==
    ASSUME TypeOK, RunStops
    PROVE  /\ runPc' = "idle" /\ runLeads' \in BOOLEAN /\ runSeen' \in Nat
           /\ runRev' \in 0..Len(repo) /\ runRead' \in Content_ \cup {None} /\ runKept' \subseteq Projects
<1>1. Len(repo) \in Nat
  BY DEF TypeOK
<1>2. runRev' \in 0..Len(repo) /\ runSeen' \in Nat
  BY <1>1 DEF RunStops
<1>3. runPc' = "idle" /\ runRead' \in Content_ \cup {None} /\ runLeads' \in BOOLEAN
  BY Zenon DEF RunStops
<1>4. runKept' \subseteq Projects
  BY DEF RunStops
<1> QED BY <1>2, <1>3, <1>4

\* The steps of the whole run keep the types.
LEMMA TypesRun == ASSUME SyncTypes, Run PROVE SyncTypes'
<1> USE DEF SyncTypes
<1>1. CASE RunClaim
  <2>1. owedRuns' \in Nat /\ leader' \in BOOLEAN /\ faults' \in Nat
    <3>1. owedRuns \in Nat /\ faults \in Nat
      BY DEF TypeOK
    <3>2. leader' \in BOOLEAN
      BY <1>1, Zenon DEF RunClaim
    <3>3. owedRuns' \in Nat /\ faults' \in Nat
      BY <1>1, <3>1 DEF RunClaim, Fault
    <3> QED BY <3>2, <3>3
  <2> QED BY <1>1, <2>1 DEF RunClaim, TypeOK, outside, waves, golive, history
<1>2. CASE RunSees
  BY <1>2 DEF RunSees, TypeOK, outside, state, waves, owed, golive, history
<1>3. CASE RunReads
  <2>1. CASE Fault /\ RunStops
    <3>1. faults' \in Nat
      BY <2>1 DEF Fault, TypeOK
    <3> QED BY <1>3, <2>1, <3>1, TypesRunStops DEF RunReads, TypeOK, outside, state, waves, owed, golive, history
  <2>2. CASE runPc' = "stage" /\ runRev' = Head_ /\ UNCHANGED <<runLeads, runSeen, runRead, runKept, faults>>
    <3>1. runRev' \in 1..Len(repo)
      BY <2>2 DEF Head_, TypeOK
    <3> QED BY <1>3, <2>2, <3>1 DEF RunReads, TypeOK, outside, state, waves, owed, golive, history
  <2> QED BY <1>3, <2>1, <2>2 DEF RunReads
<1>4. CASE RunStages
  <2>1. CASE Fault /\ RunStops /\ UNCHANGED lastRender
    <3>1. faults' \in Nat
      BY <2>1 DEF Fault, TypeOK
    <3> QED BY <1>4, <2>1, <3>1, TypesRunStops DEF RunStages, TypeOK, outside, waves, owed, golive, history
  <2>2. ASSUME NEW kept \in SUBSET Projects,
               UNCHANGED faults \/ Fault, lastRender' = Staged(runRev, kept),
               runRead' = lastRender'.content, runKept' = lastRender'.kept,
               runPc' = IF runLeads THEN "views" ELSE "follow",
               UNCHANGED <<runLeads, runSeen, runRev>>
        PROVE  SyncTypes'
    <3>1. lastRender' \in Render /\ runRead' \in Content_ /\ runKept' \subseteq Projects
      BY <1>4, <2>2, StagedRender DEF RunStages, Render
    <3>2. runRead' # None
      BY <3>1, NoneAssumption
    <3>3. faults' \in Nat
      BY <2>2 DEF Fault, TypeOK
    <3> QED BY <1>4, <2>2, <3>1, <3>2, <3>3 DEF RunStages, TypeOK, outside, waves, owed, golive, history
  <2> QED BY <1>4, <2>1, <2>2 DEF RunStages
<1>5. CASE RunFollows
  <2>1. mirror' \in Content_ /\ views' \in Content_ /\ RunStops
    BY <1>5 DEF RunFollows, TypeOK
  <2> QED BY <1>5, <2>1, TypesRunStops DEF RunFollows, TypeOK, outside, waves, owed, golive, history
<1>6. CASE RunSuperseded
  BY <1>6, TypesRunStops DEF RunSuperseded, TypeOK, outside, state, waves, owed, golive, history
<1>7. CASE RunViews
  <2>1. faults' \in Nat /\ views' = runRead /\ runPc' = "swap" /\ runRead \in Content_
    BY <1>7 DEF RunViews, Fault, TypeOK
  <2>2. broker' \in [LiveKinds -> Specs]
    BY <1>7, <2>1, LiveKindsAssumption DEF RunViews, TypeOK, Content_
  <2> QED BY <1>7, <2>1, <2>2 DEF RunViews, TypeOK, waves, owed, golive, history
<1>8. CASE RunSwaps
  <2>1. mirror' \in Content_
    BY <1>8 DEF RunSwaps, TypeOK
  <2>2. previous' \in MaybePublications /\ (wave = None => previous' # None)
    <3>1. Publications(mirror) \in SUBSET LiveKinds /\ Publications(mirror) # None
      BY NoneAssumption DEF Publications
    <3> QED BY <1>8, <3>1 DEF RunSwaps, TypeOK, MaybePublications
  <2>3. runPc' = IF wave = None THEN "wave" ELSE "rest"
    BY <1>8 DEF RunSwaps
  <2> QED BY <1>8, <2>1, <2>2, <2>3 DEF RunSwaps, TypeOK, outside, owed, golive, history
<1>9. CASE RunStartsWave
  <2>1. wave' \in Wave \cup {None} /\ faults' \in Nat /\ runPc' = "rest"
    BY <1>9 DEF RunStartsWave, Fault, TypeOK, Wave, Publications, MaybePublications
  <2> QED BY <1>9, <2>1 DEF RunStartsWave, TypeOK, outside, state, owed, golive, history
<1>10. CASE RunEnds
  BY <1>10, TypesRunStops DEF RunEnds, TypeOK, outside, waves, owed, golive, history
<1> QED BY <1>1, <1>2, <1>3, <1>4, <1>5, <1>6, <1>7, <1>8, <1>9, <1>10 DEF Run

\* So do the wave's end and a demotion.
LEMMA TypesRest == ASSUME SyncTypes, WaveEnds \/ Demoted \/ UNCHANGED vars PROVE SyncTypes'
<1> USE DEF SyncTypes
<1>1. CASE WaveEnds
  <2>1. wave \in Wave
    BY <1>1 DEF WaveEnds, TypeOK
  <2>2. published' \subseteq LiveKinds /\ previous' \in SUBSET LiveKinds /\ wave' = None
        /\ previous' # None
    BY <1>1, <2>1, NoneAssumption DEF WaveEnds, TypeOK, Wave
  <2> QED BY <1>1, <2>2 DEF WaveEnds, TypeOK, MaybePublications, state, owed, run, golive, history
<1>2. CASE Demoted
  <2>1. faults' \in Nat /\ leader' = FALSE
    BY <1>2 DEF Demoted, Fault, TypeOK
  <2> QED BY <1>2, <2>1 DEF Demoted, TypeOK, outside, waves, owed, run, golive, history
<1>3. CASE UNCHANGED vars
  BY <1>3 DEF vars, TypeOK, outside, state, waves, owed, run, golive, history
<1> QED BY <1>1, <1>2, <1>3

\* They hold in every behaviour.
LEMMA SyncTypesInvariant == Spec => []SyncTypes
<1>1. Init => SyncTypes
  <2> SUFFICES ASSUME Init PROVE SyncTypes
    OBVIOUS
  <2>1. PICK content \in Contents : repo = <<content>>
    BY InitialAssumption DEF Init
  <2>2. repo \in Seq(Contents) /\ Len(repo) = 1
    BY <2>1
  <2>3. {ticking, leader, ready, runLeads, goWrote} \subseteq BOOLEAN
    BY Zenon DEF Init
  <2>4. /\ broker \in [LiveKinds -> Specs] /\ mirror \in Content_ /\ published \subseteq LiveKinds
        /\ runKept \subseteq Projects
    BY DEF Init, Empty, Content_, Specs
  <2>5. /\ {views, runRead, goRead} \subseteq Content_ \cup {None} /\ lastRender \in Render \cup {None}
        /\ previous \in MaybePublications /\ wave \in Wave \cup {None}
    BY DEF Init, MaybePublications
  <2>6. /\ {merges, owedLive, owedRuns, faults, runSeen} \subseteq Nat
        /\ {runRev, goRev, goHead, movedRev, movedHead, liveRev} \subseteq 0..Len(repo)
    BY <2>2 DEF Init
  <2>7. runPc = "idle" /\ goPc = "idle"
    BY DEF Init
  <2> QED BY <2>2, <2>3, <2>4, <2>5, <2>6, <2>7 DEF SyncTypes, TypeOK
<1>2. SyncTypes /\ [Next]_vars => SyncTypes'
  BY TypesMerge, TypesGoLive, TypesRun, TypesRest DEF Next
<1> QED BY <1>1, <1>2, PTL DEF Spec

\* Every variable of the syncer keeps its shape in every behaviour: a run or a go_live past its
\* stage holds a content of main, and a wave the publications it compares with.
THEOREM SyncerTypes == Spec => []TypeOK
<1>1. SyncTypes => TypeOK
  BY DEF SyncTypes
<1> QED BY <1>1, SyncTypesInvariant, PTL

-----------------------------------------------------------------------------
(* A run never undoes a counted merge.  While a run has missed no merge,    *)
(* the organization's revision it read, and everything it staged, are no    *)
(* older than any go_live that moved something: the count is seen before    *)
(* anything is read, projects are read later still, and go_live moves the   *)
(* count together with what it took live.                                   *)

\* What is rendered of a repository that staged is there at a revision that undoes nothing.
ReadSince ==
    \A x \in Resources \ UNION runKept :
       \E rev \in DOMAIN repo : rev >= LiveSince(x) /\ runRead[x] = repo[rev][x]

MergeInv ==
    /\ runSeen <= merges
    /\ runPc = "stage" /\ runSeen = merges => runRev >= movedRev
    /\ runPc \in {"follow", "views", "swap", "wave", "rest"} /\ runSeen = merges => ReadSince

\* A merge keeps what was read: main only grows.
LEMMA ReadSinceGrows ==
    ASSUME SyncTypes, ReadSince, NEW content \in Contents, Merge(content)
    PROVE  ReadSince'
<1>1. /\ repo \in Seq(Contents) /\ repo' = Append(repo, content)
      /\ UNCHANGED <<runKept, runRead, movedRev, movedHead>>
  BY DEF Merge, SyncTypes, TypeOK, run, history
<1>2. DOMAIN repo \subseteq DOMAIN repo' /\ \A rev \in DOMAIN repo : repo'[rev] = repo[rev]
  BY <1>1
<1> QED BY <1>1, <1>2 DEF ReadSince, LiveSince

\* Steps that touch neither main nor the run's content nor the history keep it.
LEMMA ReadSinceKept ==
    ASSUME ReadSince, UNCHANGED <<repo, runKept, runRead, movedRev, movedHead>>
    PROVE  ReadSince'
BY DEF ReadSince, LiveSince

\* A stage reads the organization at its revision and the projects at the head of main.
LEMMA ReadSinceStaged ==
    ASSUME SyncTypes, runPc = "stage", runRev >= movedRev, NEW kept \in SUBSET Projects,
           runRead' = Rendered(runRev, kept), runKept' = kept, UNCHANGED <<repo, movedRev, movedHead>>
    PROVE  ReadSince'
<1>1. runRev \in DOMAIN repo /\ Head_ \in DOMAIN repo /\ Head_ >= movedHead
  BY DEF SyncTypes, TypeOK, Head_
<1>2. ASSUME NEW x \in Resources \ UNION kept
      PROVE  \E rev \in DOMAIN repo : rev >= LiveSince(x) /\ Rendered(runRev, kept)[x] = repo[rev][x]
  <2>1. CASE x \in Mounted
    BY <1>1, <2>1 DEF Rendered, LiveSince
  <2>2. CASE x \notin Mounted
    BY <1>1, <2>2 DEF Rendered, LiveSince
  <2> QED BY <2>1, <2>2
<1> QED BY <1>2 DEF ReadSince, LiveSince

\* Every step keeps the merge invariant: only GoMirror raises what must be kept, and it moves
\* the count.
LEMMA MergeStep == SyncTypes /\ MergeInv /\ [Next]_vars => MergeInv'
<1> SUFFICES ASSUME SyncTypes, MergeInv, [Next]_vars PROVE MergeInv'
  OBVIOUS
<1>0. merges \in Nat /\ runSeen \in Nat /\ Len(repo) \in Nat /\ movedRev \in 0..Len(repo)
  BY DEF SyncTypes, TypeOK
<1> USE <1>0 DEF MergeInv
<1>1. ASSUME NEW content \in Contents, Merge(content) PROVE MergeInv'
  BY <1>1, ReadSinceGrows DEF Merge, state, run, history
<1>2. CASE GoBegin \/ GoRead \/ GoStage
  BY <1>2, ReadSinceKept DEF GoBegin, GoRead, GoStage, outside, state, run, history
<1>3. CASE GoViews
  BY <1>3, ReadSinceKept DEF GoViews, run, history
<1>4. CASE GoMirror
  <2>1. CASE merges' = merges
    <3>1. UNCHANGED <<movedRev, movedHead>>
      BY <1>4, <2>1 DEF GoMirror
    <3> QED BY <1>4, <2>1, <3>1, ReadSinceKept DEF GoMirror, outside, run
  <2>2. CASE merges' = merges + 1
    BY <1>4, <2>2 DEF GoMirror, run
  <2> QED BY <1>4, <2>1, <2>2 DEF GoMirror
<1>5. CASE RunClaim
  BY <1>5 DEF RunClaim
<1>6. CASE RunSees
  BY <1>6 DEF RunSees, state
<1>7. CASE RunReads
  BY <1>7 DEF RunReads, RunStops, state, history, Head_
<1>8. CASE RunStages
  <2>1. CASE RunStops
    BY <1>8, <2>1 DEF RunStages, RunStops
  <2>2. CASE ~RunStops
    <3>1. PICK kept \in SUBSET Projects :
             /\ lastRender' = Staged(runRev, kept)
             /\ runRead' = lastRender'.content /\ runKept' = lastRender'.kept
             /\ runPc' = IF runLeads THEN "views" ELSE "follow"
             /\ UNCHANGED <<runLeads, runSeen, runRev>>
      BY <1>8, <2>2 DEF RunStages
    <3>2. runRead' = Rendered(runRev, kept) /\ runKept' = kept
      BY <1>8, <3>1, StagedRender DEF RunStages, SyncTypes
    <3>3. runSeen = merges => ReadSince'
      BY <1>8, <3>2, ReadSinceStaged DEF RunStages, outside, history
    <3> QED BY <1>8, <3>1, <3>3 DEF RunStages
  <2> QED BY <2>1, <2>2
<1>9. CASE RunFollows \/ RunSuperseded \/ RunEnds
  BY <1>9 DEF RunFollows, RunSuperseded, RunEnds, RunStops, state
<1>10. CASE RunViews \/ RunSwaps \/ RunStartsWave
  BY <1>10, ReadSinceKept DEF RunViews, RunSwaps, RunStartsWave, outside, state, history
<1>11. CASE WaveEnds \/ Demoted
  BY <1>11, ReadSinceKept DEF WaveEnds, Demoted, outside, state, run, history
<1>12. CASE UNCHANGED vars
  BY <1>12, ReadSinceKept DEF vars, outside, state, run, history
<1> QED
  BY <1>1, <1>2, <1>3, <1>4, <1>5, <1>6, <1>7, <1>8, <1>9, <1>10, <1>11, <1>12
  DEF Next, GoLive, Run

\* A leader's run writes to views or mirror only what it read, of the repositories that staged, no
\* earlier than every merge whose go_live moved anything (SyncError::Superseded).
THEOREM RunsKeepMerges == Spec => RunKeepsMerge
<1>1. Init => MergeInv
  BY DEF Init, MergeInv
<1>2. MergeInv /\ [Next]_vars =>
         [RunViews \/ RunSwaps =>
             \A x \in Resources \ UNION runKept :
                \E rev \in DOMAIN repo : rev >= LiveSince(x) /\ runRead[x] = repo[rev][x]]_vars
  BY DEF MergeInv, ReadSince, RunViews, RunSwaps, NoMergeSince
<1> QED BY <1>1, <1>2, MergeStep, SyncTypesInvariant, PTL DEF Spec, RunKeepsMerge
=============================================================================
