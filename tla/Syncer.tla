------------------------------- MODULE Syncer -------------------------------
(***************************************************************************)
(* How a merged change reaches the mirror and the broker                   *)
(* (reconciler/daemon.rs, reconciler/views.rs, store.rs).                  *)
(*                                                                         *)
(* A whole run (sync_once) reads the repository, writes the broker's views *)
(* and swaps the mirror; go_live takes a merge live beside it.  Both read  *)
(* a revision long before they write.  The merge count, held across each   *)
(* of the writes, is what keeps a run that read an older revision from     *)
(* undoing a merge.  After its swap a run starts the catalogue wave, which *)
(* goes on beside the runs that follow.                                    *)
(*                                                                         *)
(* A content gives every resource its spec or Absent, for the organization *)
(* and its projects together; a revision is one of their joint history.    *)
(* The organization is read at the revision a run began with, a project    *)
(* from its own repository while the run renders; one that does not stage  *)
(* keeps its last render, and the run goes on.  The steps of a run that    *)
(* touch neither the views nor the mirror are not modelled.                *)
(***************************************************************************)
EXTENDS Integers, Sequences

CONSTANTS
    Resources,
    LiveKinds,    \* the resources of GO_LIVE_KINDS
    Rules,        \* those of them the broker holds in a rule document (Policies)
    Registry,     \* the resources that register a project's repository
    Projects,     \* per project with a repository of its own, the resources mounted from it
    Contents,     \* what main may hold, each [Resources -> specs or Absent]
    Initial,      \* bound: those main may hold when the Portal starts
    Publishing,   \* the specs of an Endpoint that publishes to the catalogue
    Absent, None,
    MaxMerges,    \* bound: merges to main
    MaxFaults     \* bound: failed reads and writes, claims and demotions

Specs == {content[x] : content \in Contents, x \in Resources} \cup {Absent}
Content_ == [Resources -> Specs]
Render == [content : Content_, kept : SUBSET Projects]   \* the last assembly, and who did not stage

ASSUME LiveKindsAssumption == LiveKinds \subseteq Resources
ASSUME RulesAssumption == Rules \subseteq LiveKinds
ASSUME ProjectsAssumption == \A p \in Projects : p \subseteq Resources \ Registry
ASSUME RegistryAssumption == Registry \subseteq Resources \ LiveKinds
ASSUME ContentsAssumption == Contents \subseteq Content_
ASSUME NoneAssumption ==
    None \notin Content_ /\ None \notin Render /\ \A pubs \in SUBSET LiveKinds : pubs # None
ASSUME InitialAssumption == Initial \subseteq Contents
ASSUME BoundsAssumption == MaxMerges \in Nat /\ MaxFaults \in Nat

VARIABLES
    repo,        \* outside: the contents of main, oldest first; a revision is its index
    broker,      \* outside: the spec whose view and rules the broker holds
    published,   \* outside: the Endpoints that have a dataset in the catalogue
    ticking,     \* whether the periodic run is configured
    leader, ready, mirror, merges, lastRender, views,
    previous,    \* the publications the next wave compares with
    wave,        \* the catalogue wave in flight
    owedLive, owedRuns,                 \* merged(): tasks before their go_live, before their run
    runPc, runLeads, runSeen, runRev, runRead, runKept,   \* the run behind `running`
    goPc, goRev, goHead, goRead, goWrote,                 \* the go_live behind `going_live`
    faults,
    \* history: the newest revision at which a go_live that moved anything read the organization
    \* and the projects, and the newest one at which any go_live read the organization
    movedRev, movedHead, liveRev

outside == <<repo, broker, published, ticking>>
state   == <<leader, ready, mirror, merges, lastRender, views>>
waves   == <<previous, wave>>
owed    == <<owedLive, owedRuns>>
run     == <<runPc, runLeads, runSeen, runRev, runRead, runKept>>
golive  == <<goPc, goRev, goHead, goRead, goWrote>>
history == <<movedRev, movedHead, liveRev>>
vars    == <<outside, state, waves, owed, run, golive, faults, history>>

Head_ == Len(repo)
Empty == [x \in Resources |-> Absent]
Mounted == UNION Projects

\* The merge count's mutex: go_live holds it from its first view to its last upsert.
Unlocked == goPc # "mirror"

\* Something fails.  Without a periodic run nothing repeats what the code gives up or does with
\* an older render, so faults are for a Portal that has one.
Fault == ticking /\ faults < MaxFaults /\ faults' = faults + 1

-----------------------------------------------------------------------------
(* Merges and the tasks they spawn.                                         *)

\* A merge (or a push the webhook reports) and merged().
Merge(content) ==
    /\ Len(repo) <= MaxMerges
    /\ content # repo[Head_]
    /\ repo' = Append(repo, content)
    /\ owedLive' = owedLive + 1
    /\ UNCHANGED <<broker, published, ticking, state, waves, owedRuns, run, golive, faults, history>>

\* go_live returns, and the task goes on to sync_once.
GoReturns ==
    /\ goPc' = "idle" /\ goRev' = 0 /\ goHead' = 0 /\ goRead' = None /\ goWrote' = FALSE
    /\ owedRuns' = owedRuns + 1

\* go_live waits for its mutex; a follower and a Portal that never loaded return at once.
GoBegin ==
    /\ goPc = "idle" /\ owedLive > 0
    /\ owedLive' = owedLive - 1
    /\ IF ready /\ leader
       THEN goPc' = "read" /\ UNCHANGED <<goRev, goHead, goRead, goWrote, owedRuns>>
       ELSE GoReturns
    /\ UNCHANGED <<outside, state, waves, run, faults, history>>

\* branch_head.
GoRead ==
    /\ goPc = "read"
    /\ \/ goPc' = "stage" /\ goRev' = Head_ /\ UNCHANGED <<goHead, goRead, goWrote, owedRuns, faults>>
       \/ Fault /\ GoReturns
    /\ UNCHANGED <<outside, state, waves, owedLive, run, history>>

\* The organization at rev, the projects as they are now; a kept project is as the last assembly
\* left it, or not there at all.
Rendered(rev, kept) ==
    [x \in Resources |->
        IF x \in UNION kept THEN (IF lastRender = None THEN Absent ELSE lastRender.content[x])
        ELSE IF x \in Mounted THEN repo[Head_][x] ELSE repo[rev][x]]

\* Render::unchanged: every repository staged the last time and lists the same files.
Unchanged(rev) ==
    lastRender # None /\ lastRender.kept = {} /\ lastRender.content = Rendered(rev, {})

\* staged_apart, in a scratch of its own, then the load: nothing to do when the last run rendered
\* the same, nor (as after a failure) when a repository does not stage; a project's arrival or
\* departure is left to the run.
GoStage ==
    LET content == Rendered(goRev, {})
        stays   == Unchanged(goRev) \/ \E x \in Registry : content[x] # mirror[x]
    IN  /\ goPc = "stage"
        /\ \/ stays /\ GoReturns /\ UNCHANGED faults
           \/ /\ ~stays
              /\ goPc' = "views" /\ goRead' = content /\ goHead' = Head_
              /\ UNCHANGED <<goRev, goWrote, owedRuns, faults>>
           \/ Fault /\ GoReturns
        /\ UNCHANGED <<outside, state, waves, owedLive, run, history>>

\* converge_merged: what the content asks of the broker beyond the last one read.  What is gone
\* stays, but for a Policy, whose rule document is one object and is written without it.
Beyond(content, before) ==
    {x \in LiveKinds : /\ before # None /\ content[x] # before[x]
                       /\ content[x] # Absent \/ x \in Rules}

\* go_live takes the merge count and writes the views, or the broker refuses one.
GoViews ==
    LET beyond == Beyond(goRead, views)
    IN  /\ goPc = "views" /\ Unlocked
        /\ goPc' = "mirror"
        /\ views' = goRead
        /\ goWrote' = (beyond # {})
        /\ \/ /\ broker' = [x \in LiveKinds |-> IF x \in beyond THEN goRead[x] ELSE broker[x]]
              /\ UNCHANGED faults
           \/ Fault /\ beyond # {} /\ UNCHANGED broker
        /\ UNCHANGED <<repo, published, ticking, leader, ready, mirror, merges, lastRender, waves, owed,
                       run, goRev, goHead, goRead, history>>

\* Mirror::behind.
Behind(content) == {x \in LiveKinds : content[x] \notin {Absent, mirror[x]}}

\* The upserts, the count, and the mutex given back.
GoMirror ==
    LET behind == Behind(goRead)
        moved  == goWrote \/ behind # {}
    IN  /\ goPc = "mirror"
        /\ mirror' = [x \in Resources |-> IF x \in behind THEN goRead[x] ELSE mirror[x]]
        /\ merges' = IF moved THEN merges + 1 ELSE merges
        /\ GoReturns
        /\ movedRev' = IF moved /\ goRev > movedRev THEN goRev ELSE movedRev
        /\ movedHead' = IF moved /\ goHead > movedHead THEN goHead ELSE movedHead
        /\ liveRev' = IF goRev > liveRev THEN goRev ELSE liveRev
        /\ UNCHANGED <<outside, leader, ready, lastRender, views, waves, owedLive, run, faults>>

-----------------------------------------------------------------------------
(* The whole run.                                                           *)

RunStops ==
    /\ runPc' = "idle" /\ runLeads' = FALSE /\ runSeen' = 0 /\ runRev' = 0
    /\ runRead' = None /\ runKept' = {}

\* sync_once takes `running` and asks for the lock of the replicas; it is periodic, or the one
\* a merge is owed.
RunClaim ==
    /\ runPc = "idle"
    /\ \/ ticking /\ UNCHANGED owedRuns
       \/ owedRuns > 0 /\ owedRuns' = owedRuns - 1
    /\ \/ leader' = TRUE /\ UNCHANGED faults
       \/ leader' = FALSE /\ Fault
    /\ runPc' = "seen" /\ runLeads' = leader'
    /\ UNCHANGED <<outside, ready, mirror, merges, lastRender, views, waves, owedLive, runSeen, runRev,
                   runRead, runKept, golive, history>>

\* The count, before anything is read.
RunSees ==
    /\ runPc = "seen" /\ Unlocked
    /\ runSeen' = merges
    /\ runPc' = "read"
    /\ UNCHANGED <<outside, state, waves, owed, runLeads, runRev, runRead, runKept, golive, faults, history>>

RunReads ==
    /\ runPc = "read"
    /\ \/ /\ runPc' = "stage" /\ runRev' = Head_
          /\ UNCHANGED <<runLeads, runSeen, runRead, runKept, faults>>
       \/ Fault /\ RunStops
    /\ UNCHANGED <<outside, state, waves, owed, golive, history>>

\* A render that is reused without comparing the listings.
Staged_Reused(rev, kept) ==
    IF lastRender # None THEN lastRender ELSE [content |-> Rendered(rev, kept), kept |-> kept]

\* staged: the last render when every file is at the same blob, else a new one.
Staged(rev, kept) ==
    IF kept = {} /\ Unchanged(rev) THEN lastRender
    ELSE [content |-> Rendered(rev, kept), kept |-> kept]

\* The run renders, whatever projects did not stage, or gives up when the organization's own
\* repository fails or the whole does not load.
RunStages ==
    /\ runPc = "stage"
    /\ \/ \E kept \in SUBSET Projects :
             /\ IF kept = {} THEN UNCHANGED faults ELSE Fault
             /\ lastRender' = Staged(runRev, kept)
             /\ runRead' = lastRender'.content /\ runKept' = lastRender'.kept
             /\ runPc' = IF runLeads THEN "views" ELSE "follow"
             /\ UNCHANGED <<runLeads, runSeen, runRev>>
       \/ Fault /\ RunStops /\ UNCHANGED lastRender
    /\ UNCHANGED <<outside, leader, ready, mirror, merges, views, waves, owed, golive, history>>

\* serve_as_follower, and the run is done.
RunFollows ==
    /\ runPc = "follow"
    /\ mirror' = runRead
    /\ views' = runRead
    /\ ready' = TRUE
    /\ RunStops
    /\ UNCHANGED <<outside, leader, merges, lastRender, waves, owed, golive, faults, history>>

\* A run that does not look at the count again.
NoMergeSince_Trusting(seen) == TRUE

\* no_merge_since.
NoMergeSince(seen) == merges = seen

\* Superseded: the run stops before it undoes a merge.
RunSuperseded ==
    /\ runPc \in {"views", "swap"} /\ Unlocked /\ ~NoMergeSince(runSeen)
    /\ RunStops
    /\ UNCHANGED <<outside, state, waves, owed, golive, faults, history>>

\* converge_views, under the count: the broker is brought to the content, removals included,
\* save for what the broker refuses.
RunViews ==
    /\ runPc = "views" /\ Unlocked /\ NoMergeSince(runSeen)
    /\ runPc' = "swap"
    /\ views' = runRead
    /\ \/ broker' = [x \in LiveKinds |-> runRead[x]] /\ UNCHANGED faults
       \/ Fault /\ \E x \in LiveKinds :
             broker' = [y \in LiveKinds |-> IF y = x THEN broker[y] ELSE runRead[y]]
    /\ UNCHANGED <<repo, published, ticking, leader, ready, mirror, merges, lastRender, waves, owed,
                   runLeads, runSeen, runRev, runRead, runKept, golive, history>>

Publications(content) == {x \in LiveKinds : content[x] \in Publishing}

\* A swap that claims the wave without the publications of the mirror it replaces.
RunSwaps_Unclaimed ==
    /\ runPc = "swap" /\ Unlocked /\ NoMergeSince(runSeen)
    /\ mirror' = runRead
    /\ runPc' = IF wave = None THEN "wave" ELSE "rest"
    /\ UNCHANGED <<outside, previous, leader, ready, merges, lastRender, views, wave, owed, runLeads, runSeen,
                   runRev, runRead, runKept, golive, faults, history>>

\* swap, under the count; a wave in flight makes this run skip its own.
RunSwaps ==
    /\ runPc = "swap" /\ Unlocked /\ NoMergeSince(runSeen)
    /\ previous' = IF wave = None /\ previous = None THEN Publications(mirror) ELSE previous
    /\ mirror' = runRead
    /\ runPc' = IF wave = None THEN "wave" ELSE "rest"
    /\ UNCHANGED <<outside, leader, ready, merges, lastRender, views, wave, owed, runLeads, runSeen,
                   runRev, runRead, runKept, golive, faults, history>>

\* start_catalogue_wave, the count given back: the publications are read from the mirror.
RunStartsWave ==
    /\ runPc = "wave"
    /\ \/ /\ wave' = [wanted |-> Publications(runRead), base |-> previous,
                      current |-> Publications(mirror)]
          /\ UNCHANGED faults
       \/ Fault /\ UNCHANGED wave           \* the secrets files did not copy
    /\ runPc' = "rest"
    /\ UNCHANGED <<outside, state, previous, owed, runLeads, runSeen, runRev, runRead, runKept, golive, history>>

\* The wave in the background: publish, withdraw what `base` had, and sweep the organization,
\* which needs a current publication to reach it.
WaveEnds ==
    /\ wave # None
    /\ published' = IF wave.wanted # {} THEN wave.wanted ELSE published \ wave.base
    /\ previous' = wave.current
    /\ wave' = None
    /\ UNCHANGED <<repo, broker, ticking, state, owed, run, golive, faults, history>>

\* The rest of the run, which may take minutes, then its status.
RunEnds ==
    /\ runPc = "rest"
    /\ ready' = TRUE
    /\ RunStops
    /\ UNCHANGED <<outside, leader, mirror, merges, lastRender, views, waves, owed, golive, faults, history>>

-----------------------------------------------------------------------------
\* The heartbeat demotes the replica.
Demoted ==
    /\ leader /\ Fault
    /\ leader' = FALSE
    /\ UNCHANGED <<outside, ready, mirror, merges, lastRender, views, waves, owed, run, golive, history>>

Init ==
    /\ repo \in {<<content>> : content \in Initial}
    /\ broker = [x \in LiveKinds |-> Absent] /\ published = {}
    /\ ticking \in BOOLEAN
    /\ leader = FALSE /\ ready = FALSE /\ mirror = Empty /\ merges = 0
    /\ lastRender = None /\ views = None
    /\ previous = None /\ wave = None
    /\ owedLive = 0 /\ owedRuns = 1      \* the run the Portal starts with
    /\ runPc = "idle" /\ runLeads = FALSE /\ runSeen = 0 /\ runRev = 0 /\ runRead = None
    /\ runKept = {}
    /\ goPc = "idle" /\ goRev = 0 /\ goHead = 0 /\ goRead = None /\ goWrote = FALSE
    /\ faults = 0
    /\ movedRev = 0 /\ movedHead = 0 /\ liveRev = 0

GoLive == GoBegin \/ GoRead \/ GoStage \/ GoViews \/ GoMirror
Run == \/ RunClaim \/ RunSees \/ RunReads \/ RunStages \/ RunFollows \/ RunSuperseded
       \/ RunViews \/ RunSwaps \/ RunStartsWave \/ RunEnds

Next == (\E content \in Contents : Merge(content)) \/ GoLive \/ Run \/ WaveEnds \/ Demoted

Spec == Init /\ [][Next]_vars

\* The tasks run on: every call they wait for answers or fails (each has its timeout).
FairSpec == Spec /\ WF_vars(GoLive) /\ WF_vars(Run) /\ WF_vars(WaveEnds)

-----------------------------------------------------------------------------
MaybePublications == (SUBSET LiveKinds) \cup {None}
Wave == [wanted : SUBSET LiveKinds, base : SUBSET LiveKinds, current : SUBSET LiveKinds]

\* Every variable has the shape the code gives it: in particular a run or a go_live past its
\* stage holds a content it rendered, and a run about to start its wave has publications the
\* wave compares with.
TypeOK ==
    /\ repo \in Seq(Contents) /\ Len(repo) >= 1
    /\ broker \in [LiveKinds -> Specs] /\ published \subseteq LiveKinds
    /\ {ticking, leader, ready, runLeads, goWrote} \subseteq BOOLEAN
    /\ mirror \in Content_ /\ runKept \subseteq Projects
    /\ {views, runRead, goRead} \subseteq Content_ \cup {None}
    /\ lastRender \in Render \cup {None}
    /\ previous \in MaybePublications /\ wave \in Wave \cup {None}
    /\ {merges, owedLive, owedRuns, faults, runSeen} \subseteq Nat
    /\ {runRev, goRev, goHead, movedRev, movedHead, liveRev} \subseteq 0..Len(repo)
    /\ runPc \in {"idle", "seen", "read", "stage", "follow", "views", "swap", "wave", "rest"}
    /\ goPc \in {"idle", "read", "stage", "views", "mirror"}
    /\ runPc \in {"follow", "views", "swap", "wave", "rest"} => runRead # None
    /\ goPc \in {"views", "mirror"} => goRead # None
    /\ runPc = "wave" => previous # None

\* The revision a run must have read x at not to undo a go_live that moved anything.
LiveSince(x) == IF x \in Mounted THEN movedHead ELSE movedRev

\* However reads, renders and merges interleave, what a leader's run writes to views or mirror of
\* a repository that staged, it read there no earlier than any go_live that moved something: an
\* older reader stops (Superseded).  A project that did not stage is written as the last assembly
\* left it, over whatever go_live took live of it since.
RunKeepsMerge ==
    [][RunViews \/ RunSwaps =>
          \A x \in Resources \ UNION runKept :
             \E rev \in DOMAIN repo : rev >= LiveSince(x) /\ runRead[x] = repo[rev][x]]_vars

\* Whatever merges, faults, demotions and superseded runs came before, the mirror and the broker
\* come to hold what main declares and keep it; and when no periodic run is configured and
\* nothing fails, the runs the merges are owed suffice.
Converges ==
    <>[](mirror = repo[Head_] /\ \A x \in LiveKinds : broker[x] = repo[Head_][x])

-----------------------------------------------------------------------------
(* What the code's comments say of merges, and the code does not do.        *)

\* "A merged change went live while this run was reading an older repository: the run stops
\* before it undoes that" (SyncError::Superseded): also for a merge that found its content in
\* place already.
RunUndoesNoMerge == [][RunViews \/ RunSwaps => runRev >= liveRev]_vars

\* "Withdrawing what previous published and it no longer does; the publications it reads are the
\* next wave's previous" (start_catalogue_wave): between two waves every dataset in the
\* catalogue is one the next wave compares with.
NextWaveKnows == wave = None /\ previous # None => published \subseteq previous
=============================================================================
