---------------------------- MODULE Publication ----------------------------
(***************************************************************************)
(* How an application an agent run built is published (api/agent_runs.rs,  *)
(* agents/reaper.rs, agents/repository.rs, the driver of agents/oneshot)   *)
(* and how the Change that publishes it is decided (api/changes.rs,        *)
(* api/mutate.rs).                                                         *)
(*                                                                         *)
(* One application in a repository of its own.  Its runs follow each       *)
(* other; each commits versions to its branch.  Publishing opens the merge *)
(* request of the branch and a Change whose manifest names the commit.     *)
(* Approving merges the Change at the commit the approver read, then the   *)
(* application's branch at the commit the manifest names, then marks the   *)
(* run.  Requests of several people, the run's driver and the reaper go on *)
(* beside each other, each one call to the forge or the store at a time.   *)
(*                                                                         *)
(* `building` stands for queued, starting, interviewing, building and      *)
(* testing.  The forge is external: it merges one commit at a time, only   *)
(* the pinned one, and nothing over an outdated base; what it lists as the *)
(* files of a Change follows the Change's branch in the background.        *)
(***************************************************************************)
EXTENDS Integers, Sequences, FiniteSets

CONSTANTS
    Runs,
    Unattended,     \* the runs that wait for approval by themselves
    Owners,         \* who publishes and cancels, one request of each at a time
    Approvers,      \* who approves and rejects, one request of each at a time
    Reaper,         \* the leader's reaper
    MaxVersions,    \* bound: commits of a run
    MaxChanges,     \* bound: Changes
    Files,          \* the files a Change may touch
    Manifest,       \* of them, the application's manifest
    Elsewhere,      \* any other file of main
    MaxPushes,      \* bound: pushes to the branch of an open Change
    MaxOvertakes,   \* bound: moves of main under it
    MaxFaults,      \* bound: failed calls and restarts
    Apart,          \* bound: no call fails and no time runs out beside a Change whose branch moved
    None

ASSUME UnattendedAssumption == Unattended \subseteq Runs
ASSUME ActorsAssumption == Reaper \notin Owners \cup Approvers /\ None \notin Runs
ASSUME FilesAssumption == Manifest \in Files /\ Elsewhere \notin Files
ASSUME BoundsAssumption ==
    /\ MaxVersions \in Nat /\ MaxChanges \in Nat /\ MaxFaults \in Nat
    /\ MaxPushes \in Nat /\ MaxOvertakes \in Nat /\ Apart \in BOOLEAN

VARIABLES
    runs,       \* the store: status, Change, ticket and lease of each run
    clock,      \* 0, then 1: the build's time is over, then 2: the approval's
    driver,     \* where the run's driver is
    head,       \* the newest commit of the run's branch, 0 for none
    pull,       \* the branch's merge request
    appMain,    \* what was merged into the application's main
    changes,    \* the Changes, by number, with the commit a merged one's manifest names
    tip,        \* the branch of an open Change
    task,       \* the request a person, or the reaper, is in the middle of
    reaper,     \* what is left of the list the reaper is at: runs to end, or to ask the Change n of
    faults

vars == <<runs, clock, driver, head, pull, appMain, changes, tip, task, reaper, faults>>

People == Owners \cup Approvers
forge == <<head, pull, appMain, changes, tip>>
actors == <<driver, task, reaper>>

Live == {"building", "previewing", "awaiting"}
Terminal == {"published", "failed", "cancelled", "expired"}
Forward == { <<"building", "previewing">>, <<"previewing", "awaiting">>, <<"awaiting", "published">> }

\* AgentRunStatus::allows_transition_to.
Allows(from, to) ==
    /\ from \in Live
    /\ from = to \/ <<from, to>> \in Forward \/ to \in {"failed", "cancelled", "expired"}

\* AgentStore::set_status, when it moves the run.
Moves(r, to) == Allows(runs[r].status, to) /\ runs' = [runs EXCEPT ![r].status = to]

\* lease_for_approval.
Leases(r) == runs' = [runs EXCEPT ![r].lease = "approval"]

\* expires_at has passed.
Due(r) == IF runs[r].lease = "approval" THEN clock[r] = 2 ELSE clock[r] >= 1

Numbers == 1..Len(changes)

\* open_change_on: a Change is open on the branch of the application and of this operation.
OpenChange(op) == \E n \in Numbers : changes[n].state = "open" /\ changes[n].op = op

\* What the proposal does: the application is there once a Change of it was merged.
Operation == IF \E n \in Numbers : changes[n].state = "merged" THEN "update" ELSE "create"

\* A branch that touches nothing, and one whose only file is the manifest that names a commit.
\* Each file has the number of the head that wrote it, 0 when the Change does not touch it;
\* `listed` is what the forge lists, `over` what main changed since the branch was up to date.
NoFiles == [f \in Files |-> 0]
NoTip == [sha |-> 0, commit |-> 0, files |-> NoFiles, listed |-> {}, over |-> {}, pushes |-> 0, overtakes |-> 0]
FirstTip(commit) ==
    [sha |-> 1, commit |-> commit, files |-> [f \in Files |-> IF f = Manifest THEN 1 ELSE 0],
     listed |-> {Manifest}, over |-> {}, pushes |-> 0, overtakes |-> 0]
Touched(b) == { f \in Files : b.files[f] # 0 }

Off == [pc |-> "off", run |-> None, n |-> 0, commit |-> 0, to |-> "none",
        read |-> NoFiles, pin |-> 0, pushes |-> 0, differ |-> {}, list |-> {}]
At(pc, r) == [Off EXCEPT !.pc = pc, !.run = r]
Put(n, b) == tip' = [tip EXCEPT ![n] = b]

\* A Change is merged or closed; its branch is of no more concern.
Shut(n, c) == changes' = [changes EXCEPT ![n] = c] /\ Put(n, NoTip)
Goes(p, t) == task' = [task EXCEPT ![p] = t]
Step(p, pc) == Goes(p, [task[p] EXCEPT !.pc = pc])

\* Nothing moved under an open Change; and nothing else went wrong.
Still == Apart => \A n \in Numbers : tip[n].pushes = 0 /\ tip[n].overtakes = 0
Calm == Apart => faults = 0 /\ \A r \in Runs : clock[r] = 0

Fault == faults < MaxFaults /\ Still /\ faults' = faults + 1

-----------------------------------------------------------------------------
(* The run and its driver.                                                 *)

\* create_run: create_run_alone, and the driver is spawned with the ticket.
Create(r) ==
    /\ runs[r].status = "none" /\ \A s \in Runs : runs[s].status \notin Live
    /\ runs' = [runs EXCEPT ![r] = [status |-> "building", change |-> 0, ticket |-> TRUE, lease |-> "build"]]
    /\ driver' = [driver EXCEPT ![r] = "build"]
    /\ UNCHANGED <<clock, forge, task, reaper, faults>>

\* A pass commits a version, also while the run waits for approval.
Commit(r) ==
    /\ driver[r] \in {"build", "loop"} /\ head[r] < MaxVersions
    /\ head' = [head EXCEPT ![r] = @ + 1]
    /\ UNCHANGED <<runs, clock, actors, pull, appMain, changes, tip, faults>>

\* The end of the first pass: testing and previewing, and an unattended run goes on to wait.
Previews(r) ==
    /\ driver[r] = "build"
    /\ \/ /\ Moves(r, "previewing")
          /\ driver' = [driver EXCEPT ![r] = IF r \in Unattended THEN "wait" ELSE "loop"]
       \/ /\ ~Allows(runs[r].status, "previewing")
          /\ driver' = [driver EXCEPT ![r] = "off"] /\ UNCHANGED runs
    /\ UNCHANGED <<clock, forge, task, reaper, faults>>

\* Driver::status(AwaitingApproval), and the lease after it.
DriverWaits(r) ==
    /\ driver[r] = "wait"
    /\ \/ /\ Moves(r, "awaiting") /\ driver' = [driver EXCEPT ![r] = "lease"]
       \/ /\ ~Allows(runs[r].status, "awaiting")
          /\ driver' = [driver EXCEPT ![r] = "off"] /\ UNCHANGED runs
    /\ UNCHANGED <<clock, forge, task, reaper, faults>>

DriverLeases(r) ==
    /\ driver[r] = "lease"
    /\ \/ Leases(r) /\ UNCHANGED faults
       \/ Fault /\ UNCHANGED runs
    /\ driver' = [driver EXCEPT ![r] = "loop"]
    /\ UNCHANGED <<clock, forge, task, reaper>>

\* Driver::fail, when a pass ends in an error.
DriverFails(r) ==
    /\ driver[r] \in {"build", "wait", "loop"} /\ Moves(r, "failed")
    /\ driver' = [driver EXCEPT ![r] = "off"]
    /\ UNCHANGED <<clock, forge, task, reaper, faults>>

\* The deadline: expire reads the run, and leaves one that proposed to the reaper; one it could
\* not read it goes on to expire.
Deadline(r) ==
    /\ driver[r] = "loop" /\ clock[r] >= 1
    /\ \/ /\ driver' = [driver EXCEPT ![r] = IF runs[r].status = "awaiting" THEN "off" ELSE "expire"]
          /\ UNCHANGED faults
       \/ Fault /\ driver' = [driver EXCEPT ![r] = "expire"]
    /\ UNCHANGED <<runs, clock, forge, task, reaper>>

\* expire's set_status, and the driver stops.
DriverExpires(r) ==
    /\ driver[r] = "expire"
    /\ \/ Moves(r, "expired")
       \/ ~Allows(runs[r].status, "expired") /\ UNCHANGED runs
    /\ driver' = [driver EXCEPT ![r] = "off"]
    /\ UNCHANGED <<clock, forge, task, reaper, faults>>

\* A terminal status on the run's stream stops the driver.
DriverStops(r) ==
    /\ driver[r] = "loop" /\ runs[r].status \in Terminal
    /\ driver' = [driver EXCEPT ![r] = "off"]
    /\ UNCHANGED <<runs, clock, forge, task, reaper, faults>>

Drive(r) == \/ Previews(r) \/ DriverWaits(r) \/ DriverLeases(r) \/ Deadline(r)
            \/ DriverExpires(r) \/ DriverStops(r)

\* The run's time passes.
Passes(r) ==
    /\ runs[r].status \in Live
    /\ clock[r] = 0 \/ (clock[r] = 1 /\ runs[r].lease = "approval")
    /\ Still
    /\ clock' = [clock EXCEPT ![r] = @ + 1]
    /\ UNCHANGED <<runs, actors, forge, faults>>

-----------------------------------------------------------------------------
(* publish_run.                                                            *)

\* The run as read: it has a preview, or it is an unattended one that waits.
PublishReads(p, r) ==
    /\ task[p] = Off
    /\ runs[r].status = "previewing" \/ (r \in Unattended /\ runs[r].status = "awaiting")
    /\ Goes(p, [At("source", r) EXCEPT !.to = IF runs[r].status = "awaiting" THEN "none" ELSE "awaiting"])
    /\ UNCHANGED <<runs, clock, forge, driver, reaper, faults>>

\* publish_source: the branch's head, and its merge request opened or reused.
PublishSource(p) ==
    LET r == task[p].run IN
    /\ task[p].pc = "source"
    /\ \/ /\ head[r] > 0
          /\ Goes(p, [task[p] EXCEPT !.pc = "propose", !.commit = head[r]])
          /\ pull' = [pull EXCEPT ![r] = "open"]
       \/ head[r] = 0 /\ Goes(p, Off) /\ UNCHANGED pull
    /\ UNCHANGED <<runs, clock, driver, reaper, head, appMain, changes, tip, faults>>

\* propose_engine, in its turn on the branch's name: refused while a Change is open on it, and by
\* checks of the manifest.
PublishProposes(p) ==
    LET n == Len(changes) + 1 IN
    /\ task[p].pc = "propose"
    /\ \/ /\ ~OpenChange(Operation) /\ n <= MaxChanges
          /\ changes' = Append(changes, [run |-> task[p].run, op |-> Operation, state |-> "open",
                                         commit |-> 0, unread |-> FALSE])
          /\ Put(n, FirstTip(task[p].commit))
          /\ Goes(p, [task[p] EXCEPT !.pc = "record", !.commit = 0, !.n = n])
       \/ Goes(p, Off) /\ UNCHANGED <<changes, tip>>
    /\ UNCHANGED <<runs, clock, driver, reaper, head, pull, appMain, faults>>

\* The next number rather than the Change's own.
Recorded_Next(p) == task[p].n + 1

\* The number publish_run keeps.
Recorded(p) == task[p].n

\* set_merge_request.
PublishRecords(p) ==
    /\ task[p].pc = "record"
    /\ \/ /\ runs' = [runs EXCEPT ![task[p].run].change = Recorded(p)]
          /\ IF task[p].to = "awaiting" THEN Goes(p, At("wait", task[p].run)) ELSE Goes(p, Off)
          /\ UNCHANGED faults
       \/ Fault /\ Goes(p, Off) /\ UNCHANGED runs
    /\ UNCHANGED <<clock, driver, reaper, forge>>

\* set_status(AwaitingApproval).
PublishWaits(p) ==
    /\ task[p].pc = "wait"
    /\ \/ Moves(task[p].run, "awaiting") /\ Step(p, "lease") /\ UNCHANGED faults
       \/ ~Allows(runs[task[p].run].status, "awaiting") /\ Goes(p, Off) /\ UNCHANGED <<runs, faults>>
       \/ Fault /\ Goes(p, Off) /\ UNCHANGED runs
    /\ UNCHANGED <<clock, driver, reaper, forge>>

PublishLeases(p) ==
    /\ task[p].pc = "lease"
    /\ \/ Leases(task[p].run) /\ UNCHANGED faults
       \/ Fault /\ UNCHANGED runs
    /\ Goes(p, Off)
    /\ UNCHANGED <<clock, driver, reaper, forge>>

Publish(p) == \/ PublishSource(p) \/ PublishProposes(p) \/ PublishRecords(p)
              \/ PublishWaits(p) \/ PublishLeases(p)

-----------------------------------------------------------------------------
(* approve_change and merge_published_application.                         *)

\* The Change and every file of it as read, at one head; the checks of who may approve what.  A
\* head and a list the forge shows late are a read made earlier.
ApproveReads(p, n) ==
    LET b == tip[n] IN
    /\ task[p] = Off
    /\ changes[n].state = "open" /\ b.listed = Touched(b) /\ Manifest \in b.listed
    /\ Goes(p, [At("merge", changes[n].run) EXCEPT
                   !.n = n, !.commit = b.commit, !.read = b.files, !.pin = b.sha, !.pushes = b.pushes, !.list = Files])
    /\ UNCHANGED <<runs, clock, forge, driver, reaper, faults>>

\* What a merge leaves: the commit its manifest names, and whether that manifest is another than
\* the one its approver read.
MergedBy(c, b, t) ==
    [c EXCEPT !.state = "merged", !.commit = b.commit, !.unread = b.files[Manifest] # t.read[Manifest]]

\* merge_when_ready: merged at the pinned head, brought up to date when main overtook the branch,
\* and given back to the approver otherwise.
ApproveMerges(p) ==
    LET n == task[p].n
        c == changes[n]
        b == tip[n] IN
    /\ task[p].pc = "merge"
    /\ \/ /\ c.state = "open" /\ b.over = {} /\ b.sha = task[p].pin
          /\ Shut(n, MergedBy(c, b, task[p]))
          /\ Goes(p, [At("merged", c.run) EXCEPT !.commit = task[p].commit])
       \/ c.state = "open" /\ b.over # {} /\ Step(p, "update") /\ UNCHANGED <<changes, tip>>
       \/ (c.state # "open" \/ b.sha # task[p].pin) /\ Goes(p, Off) /\ UNCHANGED <<changes, tip>>
    /\ UNCHANGED <<runs, clock, driver, reaper, head, pull, appMain, faults>>

\* main merged into a branch (external): a file both changed reads as neither had it, or as main
\* has it, and then the Change touches it no more.
Updated(b, taken) ==
    [b EXCEPT !.sha = @ + 1, !.over = {},
              !.files = [f \in Files |-> IF f \in taken THEN 0
                                         ELSE IF f \in b.over \cap Touched(b) THEN b.sha + 1
                                         ELSE b.files[f]]]

\* update_pull_request; the forge refuses a branch that is not behind, and one main does not
\* merge into.
ApproveUpdates(p) ==
    LET n == task[p].n
        b == tip[n] IN
    /\ task[p].pc = "update"
    /\ \/ /\ changes[n].state = "open" /\ b.over # {}
          /\ \E taken \in SUBSET (b.over \cap Touched(b)) : Put(n, Updated(b, taken))
          /\ Step(p, "head")
       \/ (changes[n].state # "open" \/ b.over # {Elsewhere}) /\ Goes(p, Off) /\ UNCHANGED tip
    /\ UNCHANGED <<runs, clock, driver, reaper, head, pull, appMain, changes, faults>>

\* branch_head, and the trees of what was approved and of that head, which stay what they are.
ApproveHeads(p) ==
    LET b == tip[task[p].n] IN
    /\ task[p].pc = "head"
    /\ Goes(p, [task[p] EXCEPT !.pc = "compare", !.pin = b.sha,
                               !.differ = { f \in Files : b.files[f] # task[p].read[f] }])
    /\ UNCHANGED <<runs, clock, driver, reaper, forge, faults>>

\* The head read after the trees.
ApproveCompares_Rereads(p) ==
    LET b == tip[task[p].n] IN
    /\ task[p].pc = "compare"
    /\ IF b.listed \cap task[p].differ = {}
       THEN Goes(p, [task[p] EXCEPT !.pc = "merge", !.list = b.listed, !.pin = b.sha])
       ELSE Goes(p, Off)
    /\ UNCHANGED <<runs, clock, driver, reaper, forge, faults>>

\* The rest of bring_up_to_date: of the files the forge lists now, none may differ at that head.
ApproveCompares(p) ==
    LET b == tip[task[p].n] IN
    /\ task[p].pc = "compare"
    /\ IF b.listed \cap task[p].differ = {}
       THEN Goes(p, [task[p] EXCEPT !.pc = "merge", !.list = b.listed])
       ELSE Goes(p, Off)
    /\ UNCHANGED <<runs, clock, driver, reaper, forge, faults>>

\* The head of the branch, whichever commit the manifest names.
MergeablePublished_Head(r, commit) == pull[r] = "open"

\* The branch's merge request is open and its head is the commit the manifest names.
MergeablePublished(r, commit) == pull[r] = "open" /\ head[r] = commit

\* repository::merge_published; what the forge refuses is said on the run and left.
ApplicationMerges(p) ==
    LET r == task[p].run IN
    /\ task[p].pc = "merged"
    /\ \/ /\ MergeablePublished(r, task[p].commit)
          /\ appMain' = appMain \cup {[run |-> r, commit |-> head[r]]}
          /\ pull' = [pull EXCEPT ![r] = "merged"]
          /\ Goes(p, At("publish", r)) /\ UNCHANGED faults
       \/ ~MergeablePublished(r, task[p].commit) /\ Goes(p, Off) /\ UNCHANGED <<appMain, pull, faults>>
       \/ Fault /\ Goes(p, Off) /\ UNCHANGED <<appMain, pull>>
    /\ UNCHANGED <<runs, clock, driver, reaper, head, changes, tip>>

\* set_status(Published); a refusal is logged.
RunPublished(p) ==
    LET r == task[p].run IN
    /\ task[p].pc = "publish"
    /\ \/ Moves(r, "published") /\ UNCHANGED faults
       \/ ~Allows(runs[r].status, "published") /\ UNCHANGED <<runs, faults>>
       \/ Fault /\ UNCHANGED runs
    /\ Goes(p, Off)
    /\ UNCHANGED <<clock, driver, reaper, forge>>

Approve(p) == \/ ApproveMerges(p) \/ ApproveUpdates(p) \/ ApproveHeads(p) \/ ApproveCompares(p)
              \/ ApplicationMerges(p) \/ RunPublished(p)

-----------------------------------------------------------------------------
(* cancel_run, reject_change, end_rejected_publication and end_run.        *)

Cancel(p, r) ==
    /\ task[p] = Off /\ runs[r].status # "none"
    /\ Goes(p, [At("ticket", r) EXCEPT !.to = "cancelled"])
    /\ UNCHANGED <<runs, clock, forge, driver, reaper, faults>>

RejectReads(p, n) ==
    /\ task[p] = Off /\ changes[n].state = "open"
    /\ Goes(p, [At("close", changes[n].run) EXCEPT !.n = n])
    /\ UNCHANGED <<runs, clock, forge, driver, reaper, faults>>

\* close_pull_request; the forge refuses a merged one.
RejectCloses(p) ==
    LET n == task[p].n IN
    /\ task[p].pc = "close"
    /\ \/ /\ changes[n].state # "merged"
          /\ Shut(n, [changes[n] EXCEPT !.state = "closed"])
          /\ Step(p, "rejected")
       \/ changes[n].state = "merged" /\ Goes(p, Off) /\ UNCHANGED <<changes, tip>>
    /\ UNCHANGED <<runs, clock, driver, reaper, head, pull, appMain, faults>>

\* end_rejected_publication: only the run whose own Change this is, while it waits.
RejectedReads(p) ==
    LET r == task[p].run IN
    /\ task[p].pc = "rejected"
    /\ IF runs[r].change = task[p].n /\ runs[r].status = "awaiting"
       THEN Goes(p, [At("ticket", r) EXCEPT !.to = "cancelled"])
       ELSE Goes(p, Off)
    /\ UNCHANGED <<runs, clock, driver, reaper, forge, faults>>

\* A ticket the store did not clear, and the end goes on.
EndTicket_Unheard(p) ==
    /\ task[p].pc = "ticket"
    /\ \/ runs' = [runs EXCEPT ![task[p].run].ticket = FALSE] /\ UNCHANGED faults
       \/ Fault /\ UNCHANGED runs
    /\ Step(p, "end")
    /\ UNCHANGED <<clock, driver, reaper, forge>>

\* end_run: the ticket first.
EndTicket(p) ==
    /\ task[p].pc = "ticket"
    /\ \/ runs' = [runs EXCEPT ![task[p].run].ticket = FALSE] /\ Step(p, "end") /\ UNCHANGED faults
       \/ Fault /\ Goes(p, Off) /\ UNCHANGED runs
    /\ UNCHANGED <<clock, driver, reaper, forge>>

\* Then the status, which a run that is over refuses; another transition, or the store, may win.
EndStatus(p) ==
    LET r == task[p].run IN
    /\ task[p].pc = "end"
    /\ \/ Moves(r, task[p].to) /\ UNCHANGED faults
       \/ ~Allows(runs[r].status, task[p].to) /\ UNCHANGED <<runs, faults>>
       \/ Fault /\ UNCHANGED runs
    /\ Goes(p, Off)
    /\ UNCHANGED <<clock, driver, reaper, forge>>

End(p) == RejectedReads(p) \/ EndTicket(p) \/ EndStatus(p)

-----------------------------------------------------------------------------
(* The reaper.                                                             *)

\* A tick: reap_expired lists the live runs past their lease.
ReapLists ==
    /\ reaper = {} /\ task[Reaper] = Off
    /\ reaper' = { [run |-> r, n |-> 0] : r \in { s \in Runs : runs[s].status \in Live /\ Due(s) } }
    /\ UNCHANGED <<runs, clock, forge, driver, task, faults>>

\* One run of the list is ended.
ReapEnds ==
    /\ task[Reaper] = Off
    /\ \E t \in reaper :
          /\ t.n = 0
          /\ Goes(Reaper, [At("ticket", t.run) EXCEPT !.to = "expired"])
          /\ reaper' = reaper \ {t}
    /\ UNCHANGED <<runs, clock, forge, driver, faults>>

\* Only the runs on the approval's lease.
Waiting_Leased == { r \in Runs : runs[r].status = "awaiting" /\ runs[r].change # 0 /\ runs[r].lease = "approval" }

\* The runs waiting for approval that have a Change.
Waiting == { r \in Runs : runs[r].status = "awaiting" /\ runs[r].change # 0 }

\* end_closed_publications, on every tenth tick, lists them.
ReapLooks ==
    /\ reaper = {} /\ task[Reaper] = Off
    /\ reaper' = { [run |-> r, n |-> runs[r].change] : r \in Waiting }
    /\ UNCHANGED <<runs, clock, forge, driver, task, faults>>

\* The Change of one of them, as the forge has it: closed and not merged ends the run.
ReapAsks ==
    /\ task[Reaper] = Off
    /\ \E t \in reaper :
          /\ t.n # 0
          /\ \/ /\ changes[t.n].state = "closed"
                /\ Goes(Reaper, [At("rejected", t.run) EXCEPT !.n = t.n])
                /\ UNCHANGED faults
             \/ changes[t.n].state # "closed" /\ UNCHANGED <<task, faults>>
             \/ Fault /\ UNCHANGED task
          /\ reaper' = reaper \ {t}
    /\ UNCHANGED <<runs, clock, forge, driver>>

Reap == ReapLists \/ ReapEnds \/ ReapLooks \/ ReapAsks \/ End(Reaper)

-----------------------------------------------------------------------------
(* Around them.                                                            *)

\* Someone pushes to an open Change's branch: a file of it, or a new one, says something else, or
\* one is no longer part of it.
Push(b, f, dropped, commit) ==
    [b EXCEPT !.sha = @ + 1, !.pushes = @ + 1,
              !.files[f] = IF dropped THEN 0 ELSE b.sha + 1,
              !.commit = IF f = Manifest THEN commit ELSE @]

Edit(n, f, dropped) ==
    /\ changes[n].state = "open" /\ tip[n].pushes < MaxPushes /\ Calm
    /\ dropped => f \in Touched(tip[n])
    /\ Put(n, Push(tip[n], f, dropped, head[changes[n].run]))
    /\ UNCHANGED <<runs, clock, actors, head, pull, appMain, changes, faults>>

\* The forge refreshes what it lists.
Refresh(n) ==
    /\ changes[n].state = "open" /\ tip[n].listed # Touched(tip[n])
    /\ Put(n, [tip[n] EXCEPT !.listed = Touched(tip[n])])
    /\ UNCHANGED <<runs, clock, actors, head, pull, appMain, changes, faults>>

\* Another Change is merged, in files of its own or in one of this Change's.
MainMoves(n, f) ==
    /\ changes[n].state = "open" /\ tip[n].overtakes < MaxOvertakes /\ Calm
    /\ f \in Touched(tip[n]) \cup {Elsewhere}
    /\ Put(n, [tip[n] EXCEPT !.over = @ \cup {f}, !.overtakes = @ + 1])
    /\ UNCHANGED <<runs, clock, actors, head, pull, appMain, changes, faults>>

\* A Change is closed on the forge itself.
Close(n) ==
    /\ changes[n].state = "open"
    /\ Shut(n, [changes[n] EXCEPT !.state = "closed"])
    /\ UNCHANGED <<runs, clock, actors, head, pull, appMain, faults>>

\* The Portal restarts: requests, drivers and the reaper's round are gone.
Restart ==
    /\ Fault
    /\ task' = [p \in DOMAIN task |-> Off]
    /\ driver' = [r \in Runs |-> "off"]
    /\ reaper' = {}
    /\ UNCHANGED <<runs, clock, forge>>

-----------------------------------------------------------------------------
Init ==
    /\ runs = [r \in Runs |-> [status |-> "none", change |-> 0, ticket |-> FALSE, lease |-> "build"]]
    /\ clock = [r \in Runs |-> 0]
    /\ driver = [r \in Runs |-> "off"]
    /\ head = [r \in Runs |-> 0]
    /\ pull = [r \in Runs |-> "none"]
    /\ appMain = {}
    /\ changes = <<>>
    /\ tip = [n \in 1..MaxChanges |-> NoTip]
    /\ task = [p \in People \cup {Reaper} |-> Off]
    /\ reaper = {}
    /\ faults = 0

Asked ==
    \/ \E p \in Owners, r \in Runs : PublishReads(p, r) \/ Cancel(p, r)
    \/ \E p \in Approvers, n \in Numbers : ApproveReads(p, n) \/ RejectReads(p, n)

Handles(p) == Publish(p) \/ Approve(p) \/ RejectCloses(p) \/ End(p)

Next ==
    \/ \E r \in Runs : Create(r) \/ Commit(r) \/ Drive(r) \/ DriverFails(r) \/ Passes(r)
    \/ Asked
    \/ \E p \in People : Handles(p)
    \/ \E n \in Numbers :
          \/ \E f \in Files, dropped \in BOOLEAN : Edit(n, f, dropped)
          \/ \E f \in Files \cup {Elsewhere} : MainMoves(n, f)
          \/ Refresh(n) \/ Close(n)
    \/ Reap \/ Restart

Spec == Init /\ [][Next]_vars

\* The reaper's interval goes on, each of its calls answers or fails, and it looks at the closed
\* Changes on every tenth of its ticks.
FairSpec == Spec /\ WF_vars(Reap) /\ SF_vars(ReapLooks)

-----------------------------------------------------------------------------
Pcs == {"off", "source", "propose", "record", "wait", "lease", "merge", "update", "head", "compare", "merged",
        "publish", "close", "rejected", "ticket", "end"}

ChangeType == [run : Runs, op : {"create", "update"}, state : {"open", "merged", "closed"}, commit : Nat,
               unread : BOOLEAN]

TipType == [sha : Nat, commit : Nat, files : [Files -> Nat], listed : SUBSET Files,
            over : SUBSET (Files \cup {Elsewhere}), pushes : Nat, overtakes : Nat]

ChangesOK == /\ changes \in Seq(ChangeType) /\ Len(changes) <= MaxChanges
             /\ tip \in [1..MaxChanges -> TipType]

RunsOK == runs \in [Runs -> [status : Live \cup Terminal \cup {"none"}, change : 0..Len(changes),
                             ticket : BOOLEAN, lease : {"build", "approval"}]]

TasksOK ==
    /\ task \in [People \cup {Reaper} ->
                   [pc : Pcs, run : Runs \cup {None}, n : 0..Len(changes), commit : Nat,
                    to : {"none", "awaiting", "cancelled", "expired"}, read : [Files -> Nat],
                    pin : Nat, pushes : Nat, differ : SUBSET Files, list : SUBSET Files]]
    /\ \A p \in People \cup {Reaper} :
          /\ task[p].pc # "off" => task[p].run \in Runs
          /\ task[p].pc \in {"record", "merge", "update", "head", "compare", "close", "rejected"} => task[p].n # 0
          /\ task[p].pc \in {"ticket", "end"} => task[p].to \in {"cancelled", "expired"}

ReaperOK == reaper \subseteq [run : Runs, n : 0..Len(changes)]

RestOK ==
    /\ clock \in [Runs -> 0..2]
    /\ driver \in [Runs -> {"off", "build", "wait", "lease", "loop", "expire"}]
    /\ head \in [Runs -> Nat]
    /\ pull \in [Runs -> {"none", "open", "merged"}]
    /\ appMain \subseteq [run : Runs, commit : Nat]
    /\ faults \in Nat

\* Every variable has its shape: in particular a run remembers only a Change that is there, and
\* a request that holds a run or a Change names one.
TypeOK == ChangesOK /\ RunsOK /\ TasksOK /\ ReaperOK /\ RestOK

\* The one way a file of a merged Change may read otherwise than its approver read it: the branch
\* had to be brought up to date, the list of files it was then compared by did not name the file,
\* and either someone pushed to the branch since the read or main had the file as the Change
\* wanted it, so that the Change touches it no more.
Overlooked(t, b, f) ==
    f \notin t.list /\ (b.pushes # t.pushes \/ f \notin Touched(b))

\* What is merged is what an approver read (PF-57): at the moment a Change merges, an approval in
\* flight read every file of it as it is then, or the file was overlooked.  So a push to a branch
\* main did not overtake is never merged unread, nor is anything main brought into the branch.
MergedAsRead ==
    [][\A n \in Numbers : changes[n].state # "merged" /\ changes'[n].state = "merged" =>
          \E p \in People : /\ task[p].pc = "merge" /\ task[p].n = n
                            /\ \A f \in Files : \/ tip[n].files[f] = task[p].read[f]
                                                \/ Overlooked(task[p], tip[n], f)]_vars

\* The application's main holds only commits the manifest of a merged Change names, though the
\* driver goes on committing (AP-77), or, where the manifest itself was overlooked, the one its
\* approver read named; and a run says published only when its application is there.
PublishedIsApproved ==
    /\ \A m \in appMain : \E n \in Numbers : /\ changes[n].state = "merged" /\ changes[n].run = m.run
                                             /\ changes[n].commit = m.commit \/ changes[n].unread
    /\ \A r \in Runs : runs[r].status = "published" => \E m \in appMain : m.run = r

\* A run that says it is cancelled has no live ticket (AG-46, T-2560), wherever a store error or a
\* restart cut an end short and whoever ended it at the same time.
CancelledHasNoTicket == \A r \in Runs : runs[r].status = "cancelled" => ~runs[r].ticket

\* A run does not wait on for a Change that was rejected or closed (T-3015), also when its
\* rejection came before the run knew its Change, or died half way.
ClosedRunEnds ==
    \A r \in Runs : \A n \in 1..MaxChanges :
        LET waits == runs[r].status = "awaiting" /\ runs[r].change = n /\ changes[n].state = "closed"
        IN []<>~waits
=============================================================================
