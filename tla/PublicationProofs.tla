------------------------- MODULE PublicationProofs -------------------------
(***************************************************************************)
(* What is proved of Publication for any runs, people, files, Changes and  *)
(* bounds: the types, that a Change merges as its approver read it but for *)
(* what was overlooked, that the application's main holds approved commits *)
(* only, and that a cancelled run has no ticket.                           *)
(*                                                                         *)
(* The steps are first reduced to what they may do to one variable         *)
(* (ChangesBy, RunsBy, ...): the invariants are then proved from the few   *)
(* actions that touch what they speak of.                                  *)
(***************************************************************************)
EXTENDS Publication, SequenceTheorems, TLAPS

Everyone == People \cup {Reaper}

\* What is done around the Portal to the Change n.
Outside(n) ==
    \/ \E f \in Files, dropped \in BOOLEAN : Edit(n, f, dropped)
    \/ \E f \in Files \cup {Elsewhere} : MainMoves(n, f)
    \/ Refresh(n) \/ Close(n)

-----------------------------------------------------------------------------
(* What each step touches.                                                 *)

\* Only proposing, approving, rejecting and the forge's users touch the Changes.
LEMMA ChangesBy ==
  ASSUME Next
  PROVE  \/ UNCHANGED <<changes, tip>>
         \/ \E p \in People : \/ PublishProposes(p) \/ ApproveMerges(p) \/ ApproveUpdates(p)
                              \/ RejectCloses(p)
         \/ \E n \in Numbers : Outside(n)
  <1>1. ASSUME NEW r \in Runs, Create(r) \/ Commit(r) \/ Drive(r) \/ DriverFails(r) \/ Passes(r)
        PROVE  UNCHANGED <<changes, tip>>
    BY <1>1 DEF Create, Commit, Drive, DriverFails, Passes, Previews, DriverWaits, DriverLeases,
                Deadline, DriverExpires, DriverStops, forge
  <1>2. CASE Asked
    BY <1>2 DEF Asked, PublishReads, Cancel, ApproveReads, RejectReads, forge
  <1>3. ASSUME NEW p, End(p)
        PROVE  UNCHANGED <<changes, tip>>
    BY <1>3 DEF End, RejectedReads, EndTicket, EndStatus, forge
  <1>4. ASSUME NEW p \in People, Publish(p)
        PROVE  UNCHANGED <<changes, tip>> \/ PublishProposes(p)
    BY <1>4 DEF Publish, PublishSource, PublishRecords, PublishWaits, PublishLeases, forge
  <1>5. ASSUME NEW p \in People, Approve(p)
        PROVE  UNCHANGED <<changes, tip>> \/ ApproveMerges(p) \/ ApproveUpdates(p)
    BY <1>5 DEF Approve, ApproveHeads, ApproveCompares, ApplicationMerges, RunPublished, forge
  <1>6. CASE Reap
    BY <1>6, <1>3 DEF Reap, ReapLists, ReapEnds, ReapLooks, ReapAsks, forge
  <1>7. CASE Restart
    BY <1>7 DEF Restart, forge
  <1> QED
    BY <1>1, <1>2, <1>3, <1>4, <1>5, <1>6, <1>7 DEF Next, Handles, Outside

\* A branch none of whose files is newer than its head.
SoundTip == { b \in TipType : \A f \in Files : b.files[f] <= b.sha }

\* What a step may do to the branch of a Change that stays open: what reads otherwise comes with a
\* new head, a file that comes to it with a push, and the forge's list is what it was or is true.
TipMay(b, d) ==
    /\ d.sha >= b.sha /\ (d.sha = b.sha => d.files = b.files)
    /\ \A f \in Files : d.files[f] \in {b.files[f], 0} \/ d.files[f] > b.sha
    /\ d.files[Manifest] = b.files[Manifest] => d.commit = b.commit
    /\ d.pushes >= b.pushes
    /\ d.pushes = b.pushes => \A f \in Files : b.files[f] = 0 => d.files[f] = 0
    /\ d.listed = b.listed \/ (d.listed = Touched(b) /\ d.files = b.files)

LEMMA TipStays ==
  ASSUME NEW b \in SoundTip
  PROVE  TipMay(b, b)
  <1>1. b.sha \in Nat /\ b.pushes \in Nat /\ b.files \in [Files -> Nat]
    BY DEF SoundTip, TipType
  <1> QED
    BY <1>1 DEF TipMay

LEMMA NoTipSound == NoTip \in SoundTip
  <1>1. NoFiles \in [Files -> Nat] /\ \A f \in Files : NoFiles[f] = 0
    BY DEF NoFiles
  <1>2. NoTip \in TipType /\ NoTip.files = NoFiles /\ NoTip.sha = 0
    BY <1>1 DEF NoTip, TipType
  <1> QED
    BY <1>1, <1>2 DEF SoundTip

LEMMA FirstTipSound ==
  ASSUME NEW commit \in Nat
  PROVE  FirstTip(commit) \in SoundTip
  <1> DEFINE F == [f \in Files |-> IF f = Manifest THEN 1 ELSE 0]
  <1>1. F \in [Files -> Nat] /\ \A f \in Files : F[f] <= 1
    OBVIOUS
  <1>2. FirstTip(commit) = [sha |-> 1, commit |-> commit, files |-> F, listed |-> {Manifest},
                            over |-> {}, pushes |-> 0, overtakes |-> 0]
    BY DEF FirstTip
  <1> HIDE DEF F
  <1>3. FirstTip(commit) \in TipType /\ FirstTip(commit).files = F /\ FirstTip(commit).sha = 1
    BY <1>1, <1>2, FilesAssumption DEF TipType
  <1> QED
    BY <1>1, <1>3 DEF SoundTip

\* The branch after a push.
LEMMA PushIs ==
  ASSUME NEW b \in TipType, NEW f \in Files, NEW dropped \in BOOLEAN, NEW commit \in Nat
  PROVE  LET d == Push(b, f, dropped, commit)
         IN  /\ d \in TipType /\ d.sha = b.sha + 1 /\ d.pushes = b.pushes + 1 /\ d.listed = b.listed
             /\ d.files = [b.files EXCEPT ![f] = IF dropped THEN 0 ELSE b.sha + 1]
             /\ d.commit = IF f = Manifest THEN commit ELSE b.commit
  <1> DEFINE d == Push(b, f, dropped, commit)
             s == b.sha + 1
             q == b.pushes + 1
             F == [b.files EXCEPT ![f] = IF dropped THEN 0 ELSE b.sha + 1]
             v == IF f = Manifest THEN commit ELSE b.commit
             e == [b EXCEPT !.sha = s]
             u == [e EXCEPT !.pushes = q]
             w == [u EXCEPT !.files = F]
  <1>1. s \in Nat /\ q \in Nat /\ v \in Nat /\ F \in [Files -> Nat]
    BY DEF TipType
  <1>2. e.pushes = b.pushes /\ u.files = b.files /\ w.commit = b.commit
    BY DEF TipType
  <1>3. d = [[[[b EXCEPT !.sha = s] EXCEPT !.pushes = e.pushes + 1]
                EXCEPT !.files = [u.files EXCEPT ![f] = IF dropped THEN 0 ELSE b.sha + 1]]
                EXCEPT !.commit = IF f = Manifest THEN commit ELSE w.commit]
    BY <1>2 DEF Push
  <1>4. d = [w EXCEPT !.commit = v]
    BY <1>2, <1>3
  <1> HIDE DEF d, s, q, F, v
  <1>5. e \in TipType /\ e.sha = s /\ e.listed = b.listed
    BY <1>1 DEF TipType
  <1> HIDE DEF e
  <1>6. u \in TipType /\ u.sha = s /\ u.pushes = q /\ u.listed = b.listed
    BY <1>1, <1>5 DEF TipType
  <1> HIDE DEF u
  <1>7. w \in TipType /\ w.sha = s /\ w.pushes = q /\ w.listed = b.listed /\ w.files = F
    BY <1>1, <1>6 DEF TipType
  <1> HIDE DEF w
  <1>8. /\ d \in TipType /\ d.sha = s /\ d.pushes = q /\ d.listed = b.listed /\ d.files = F
        /\ d.commit = v
    BY <1>1, <1>4, <1>7 DEF TipType
  <1> QED
    BY <1>8 DEF d, s, q, F, v

LEMMA PushMay ==
  ASSUME NEW b \in SoundTip, NEW f \in Files, NEW dropped \in BOOLEAN, NEW commit \in Nat,
         dropped => f \in Touched(b)
  PROVE  Push(b, f, dropped, commit) \in SoundTip /\ TipMay(b, Push(b, f, dropped, commit))
  <1> DEFINE d == Push(b, f, dropped, commit)
             v == IF dropped THEN 0 ELSE b.sha + 1
  <1>1. b \in TipType /\ b.sha \in Nat /\ b.pushes \in Nat /\ b.files \in [Files -> Nat]
    BY DEF SoundTip, TipType
  <1>2. /\ d \in TipType /\ d.sha = b.sha + 1 /\ d.pushes = b.pushes + 1 /\ d.listed = b.listed
        /\ d.files = [b.files EXCEPT ![f] = v]
        /\ d.commit = IF f = Manifest THEN commit ELSE b.commit
    BY <1>1, PushIs
  <1>3. v \in Nat /\ (v = 0 \/ v = b.sha + 1) /\ (v = 0 => b.files[f] # 0) /\ b.files[f] <= b.sha
    BY <1>1 DEF Touched, SoundTip
  <1> HIDE DEF d, v
  <1>4. /\ d.files \in [Files -> Nat] /\ d.files[f] = v
        /\ \A g \in Files : g # f => d.files[g] = b.files[g]
    BY <1>1, <1>2, <1>3
  <1>5. \A g \in Files : b.files[g] \in Nat /\ b.files[g] <= b.sha
    BY <1>1 DEF SoundTip
  <1>6. \A g \in Files : d.files[g] <= d.sha
    BY <1>1, <1>2, <1>3, <1>4, <1>5
  <1>7. \A g \in Files : d.files[g] \in {b.files[g], 0} \/ d.files[g] > b.sha
    BY <1>1, <1>3, <1>4, <1>5
  <1>8. d.files[Manifest] = b.files[Manifest] => d.commit = b.commit
    BY <1>1, <1>2, <1>3, <1>4
  <1>9. TipMay(b, d)
    BY <1>1, <1>2, <1>7, <1>8 DEF TipMay
  <1> QED
    BY <1>2, <1>6, <1>9 DEF SoundTip, d

\* The branch main was merged into.
LEMMA UpdatedMay ==
  ASSUME NEW b \in SoundTip, NEW taken \in SUBSET Files
  PROVE  /\ Updated(b, taken) \in SoundTip /\ TipMay(b, Updated(b, taken))
         /\ Updated(b, taken).sha > b.sha
  <1> DEFINE d == Updated(b, taken)
             F == [f \in Files |-> IF f \in taken THEN 0
                                   ELSE IF f \in b.over \cap Touched(b) THEN b.sha + 1
                                   ELSE b.files[f]]
  <1>1. b \in TipType /\ b.sha \in Nat /\ b.pushes \in Nat /\ b.files \in [Files -> Nat]
    BY DEF SoundTip, TipType
  <1>2. \A f \in Files : b.files[f] \in Nat /\ b.files[f] <= b.sha
    BY <1>1 DEF SoundTip
  <1>3. F \in [Files -> Nat]
    BY <1>1
  <1>4. ASSUME NEW f \in Files
        PROVE  /\ F[f] <= b.sha + 1 /\ (F[f] \in {b.files[f], 0} \/ F[f] > b.sha)
               /\ b.files[f] = 0 => F[f] = 0
    BY <1>1, <1>2 DEF Touched
  <1>5. d = [[[b EXCEPT !.sha = b.sha + 1] EXCEPT !.over = {}] EXCEPT !.files = F]
    BY DEF Updated
  <1> HIDE DEF d, F
  <1>6. /\ d \in TipType /\ d.sha = b.sha + 1 /\ d.pushes = b.pushes /\ d.listed = b.listed
        /\ d.commit = b.commit /\ d.files = F
    <2> DEFINE s == b.sha + 1
               e == [b EXCEPT !.sha = s]
               o == {}
               u == [e EXCEPT !.over = o]
    <2>1. s \in Nat /\ d = [u EXCEPT !.files = F] /\ o \in SUBSET (Files \cup {Elsewhere})
      BY <1>1, <1>5
    <2> HIDE DEF s, o
    <2>2. /\ e \in TipType /\ e.sha = s /\ e.pushes = b.pushes /\ e.listed = b.listed
          /\ e.commit = b.commit
      BY <1>1, <2>1 DEF TipType
    <2> HIDE DEF e
    <2>3. /\ u \in TipType /\ u.sha = s /\ u.pushes = b.pushes /\ u.listed = b.listed
          /\ u.commit = b.commit
      BY <2>1, <2>2 DEF TipType
    <2> HIDE DEF u
    <2>4. /\ d \in TipType /\ d.sha = s /\ d.pushes = b.pushes /\ d.listed = b.listed
          /\ d.commit = b.commit /\ d.files = F
      BY <1>3, <2>1, <2>3 DEF TipType
    <2> QED
      BY <2>4 DEF s
  <1>7. TipMay(b, d)
    BY <1>1, <1>4, <1>6 DEF TipMay
  <1>8. d \in SoundTip
    BY <1>4, <1>6 DEF SoundTip
  <1> QED
    BY <1>1, <1>6, <1>7, <1>8 DEF d

\* The forge's list brought up to date, and main moving on.
LEMMA ListedMay ==
  ASSUME NEW b \in SoundTip
  PROVE  LET d == [b EXCEPT !.listed = Touched(b)] IN d \in SoundTip /\ TipMay(b, d)
  <1> DEFINE d == [b EXCEPT !.listed = Touched(b)]
  <1>1. b \in TipType /\ b.sha \in Nat /\ b.pushes \in Nat /\ b.files \in [Files -> Nat]
    BY DEF SoundTip, TipType
  <1>2. Touched(b) \subseteq Files
    BY DEF Touched
  <1>3. /\ d \in TipType /\ d.sha = b.sha /\ d.pushes = b.pushes /\ d.listed = Touched(b)
        /\ d.commit = b.commit /\ d.files = b.files
    BY <1>1, <1>2 DEF TipType
  <1> HIDE DEF d
  <1>4. TipMay(b, d) /\ d \in SoundTip
    BY <1>1, <1>3 DEF TipMay, SoundTip
  <1> QED
    BY <1>4 DEF d

LEMMA OverMay ==
  ASSUME NEW b \in SoundTip, NEW f \in Files \cup {Elsewhere}
  PROVE  LET d == [b EXCEPT !.over = b.over \cup {f}, !.overtakes = b.overtakes + 1]
         IN  d \in SoundTip /\ TipMay(b, d)
  <1> DEFINE d == [b EXCEPT !.over = b.over \cup {f}, !.overtakes = b.overtakes + 1]
  <1>1. b \in TipType /\ b.sha \in Nat /\ b.pushes \in Nat /\ b.files \in [Files -> Nat]
    BY DEF SoundTip, TipType
  <1>2. b.over \cup {f} \in SUBSET (Files \cup {Elsewhere}) /\ b.overtakes + 1 \in Nat
    BY <1>1 DEF TipType
  <1>3. /\ d \in TipType /\ d.sha = b.sha /\ d.pushes = b.pushes /\ d.listed = b.listed
        /\ d.commit = b.commit /\ d.files = b.files
    BY <1>1, <1>2 DEF TipType
  <1> HIDE DEF d
  <1>4. TipMay(b, d) /\ d \in SoundTip
    BY <1>1, <1>3 DEF TipMay, SoundTip
  <1> QED
    BY <1>4 DEF d

-----------------------------------------------------------------------------
(* What a step may do to the Changes.                                      *)

\* A merged one stays as it is, none opens again, and the branch of an open one moves as above.
ChangesGrow ==
    /\ changes' \in Seq(ChangeType)
    /\ Len(changes') >= Len(changes) /\ Len(changes') <= MaxChanges
    /\ tip' \in [1..MaxChanges -> SoundTip]
    /\ \A n \in 1..Len(changes) :
          /\ changes'[n].run = changes[n].run
          /\ changes[n].state = "merged" => changes'[n] = changes[n]
          /\ changes'[n].state = "open" => changes[n].state = "open" /\ TipMay(tip[n], tip'[n])

\* The shape of the Changes and of their branches.
ChangesKnown ==
    /\ changes \in Seq(ChangeType) /\ Len(changes) \in Nat /\ Len(changes) <= MaxChanges
    /\ tip \in [1..MaxChanges -> SoundTip]
    /\ \A n \in 1..Len(changes) :
          /\ n \in 1..MaxChanges /\ changes[n] \in ChangeType /\ changes[n].run \in Runs
          /\ tip[n] \in SoundTip

TipsSound == tip \in [1..MaxChanges -> SoundTip]

LEMMA ChangesAre ==
  ASSUME TypeOK, TipsSound
  PROVE  ChangesKnown
  <1>1. changes \in Seq(ChangeType) /\ Len(changes) \in Nat /\ Len(changes) <= MaxChanges /\ MaxChanges \in Nat
    BY BoundsAssumption DEF TypeOK, ChangesOK
  <1>2. ASSUME NEW n \in 1..Len(changes)
        PROVE  n \in 1..MaxChanges /\ changes[n] \in ChangeType /\ tip[n] \in SoundTip
    BY <1>1 DEF TipsSound
  <1>3. \A n \in 1..Len(changes) : changes[n].run \in Runs
    BY <1>2 DEF ChangeType
  <1> QED
    BY <1>1, <1>2, <1>3 DEF ChangesKnown, TipsSound

\* One branch that moves so, and nothing else.
LEMMA PutGrows ==
  ASSUME ChangesKnown, UNCHANGED changes, NEW n \in 1..Len(changes), NEW b \in SoundTip, Put(n, b),
         TipMay(tip[n], b)
  PROVE  ChangesGrow
  <1>1. /\ tip' \in [1..MaxChanges -> SoundTip] /\ tip'[n] = b
        /\ \A j \in 1..MaxChanges : j # n => tip'[j] = tip[j]
    BY DEF Put, ChangesKnown
  <1>2. ASSUME NEW j \in 1..Len(changes)
        PROVE  TipMay(tip[j], tip'[j])
    <2>1. CASE j = n
      BY <1>1, <2>1
    <2>2. CASE j # n
      BY <1>1, <2>2, TipStays DEF ChangesKnown
    <2> QED
      BY <2>1, <2>2
  <1> QED
    BY <1>1, <1>2 DEF ChangesGrow, ChangesKnown

\* One Change merged or closed.
LEMMA ShutGrows ==
  ASSUME ChangesKnown, NEW n \in 1..Len(changes), NEW c \in ChangeType, Shut(n, c),
         c.run = changes[n].run, c.state # "open", changes[n].state # "merged"
  PROVE  /\ ChangesGrow /\ Len(changes') = Len(changes)
         /\ \A j \in 1..Len(changes) : changes'[j] = IF j = n THEN c ELSE changes[j]
  <1>1. /\ changes' \in Seq(ChangeType) /\ Len(changes') = Len(changes)
        /\ \A j \in 1..Len(changes) : changes'[j] = IF j = n THEN c ELSE changes[j]
    BY ExceptSeq DEF Shut, ChangesKnown
  <1>2. /\ tip' \in [1..MaxChanges -> SoundTip]
        /\ \A j \in 1..MaxChanges : j # n => tip'[j] = tip[j]
    BY NoTipSound DEF Shut, Put, ChangesKnown
  <1>3. ASSUME NEW j \in 1..Len(changes)
        PROVE  /\ changes'[j].run = changes[j].run
               /\ changes[j].state = "merged" => changes'[j] = changes[j]
               /\ changes'[j].state = "open" => changes[j].state = "open" /\ TipMay(tip[j], tip'[j])
    <2>1. CASE j = n
      BY <2>1, <1>1
    <2>2. CASE j # n
      BY <1>1, <1>2, <2>2, TipStays DEF ChangesKnown
    <2> QED
      BY <2>1, <2>2
  <1> QED
    BY <1>1, <1>2, <1>3 DEF ChangesGrow, ChangesKnown

LEMMA TaskAt ==
  ASSUME TypeOK, NEW p \in Everyone
  PROVE  /\ Len(changes) \in Nat
         /\ task[p].n \in 0..Len(changes) /\ task[p].commit \in Nat
         /\ task[p].read \in [Files -> Nat] /\ task[p].pin \in Nat
         /\ task[p].pc \in {"record", "merge", "update", "head", "compare", "close", "rejected"} =>
               task[p].n \in 1..Len(changes)
         /\ task[p].pc # "off" => task[p].run \in Runs
  BY DEF TypeOK, ChangesOK, TasksOK, Everyone

LEMMA ChangesStay ==
  ASSUME ChangesKnown, UNCHANGED <<changes, tip>>
  PROVE  ChangesGrow
  BY TipStays DEF ChangesKnown, ChangesGrow

\* A merge's record.
LEMMA MergedIs ==
  ASSUME NEW c \in ChangeType, NEW b \in SoundTip, NEW t
  PROVE  /\ MergedBy(c, b, t) \in ChangeType /\ MergedBy(c, b, t).run = c.run
         /\ MergedBy(c, b, t).state = "merged" /\ MergedBy(c, b, t).commit = b.commit
         /\ MergedBy(c, b, t).unread = (b.files[Manifest] # t.read[Manifest])
  <1> DEFINE u == (b.files[Manifest] # t.read[Manifest])
  <1>1. b.commit \in Nat /\ u \in BOOLEAN
    BY DEF SoundTip, TipType
  <1>2. MergedBy(c, b, t) = [[[c EXCEPT !.state = "merged"] EXCEPT !.commit = b.commit] EXCEPT !.unread = u]
    BY DEF MergedBy
  <1> HIDE DEF u
  <1>3. /\ MergedBy(c, b, t) \in ChangeType /\ MergedBy(c, b, t).run = c.run
        /\ MergedBy(c, b, t).state = "merged" /\ MergedBy(c, b, t).commit = b.commit
        /\ MergedBy(c, b, t).unread = u
    BY <1>1, <1>2 DEF ChangeType
  <1> QED
    BY <1>3 DEF u

LEMMA ClosedIs ==
  ASSUME NEW c \in ChangeType
  PROVE  /\ [c EXCEPT !.state = "closed"] \in ChangeType
         /\ [c EXCEPT !.state = "closed"].run = c.run /\ [c EXCEPT !.state = "closed"].state = "closed"
  BY DEF ChangeType

\* A Change as it is opened.
Opened(r) == [run |-> r, op |-> Operation, state |-> "open", commit |-> 0, unread |-> FALSE]

LEMMA OpenedIs ==
  ASSUME NEW r \in Runs
  PROVE  Opened(r) \in ChangeType /\ Opened(r).run = r
  BY DEF Opened, Operation, ChangeType

\* What is done around the Portal, to one Change.
LEMMA OutsideGrows ==
  ASSUME TypeOK, ChangesKnown, NEW n \in Numbers, Outside(n)
  PROVE  ChangesGrow /\ Len(changes') = Len(changes)
  <1> DEFINE b == tip[n]
  <1>0. n \in 1..Len(changes) /\ b \in SoundTip /\ changes[n] \in ChangeType /\ changes[n].run \in Runs
    BY DEF Numbers, ChangesKnown
  <1>1. ASSUME NEW f \in Files, NEW dropped \in BOOLEAN, Edit(n, f, dropped)
        PROVE  ChangesGrow /\ UNCHANGED changes
    <2> DEFINE h == head[changes[n].run]
    <2>1. /\ Put(n, Push(b, f, dropped, h)) /\ UNCHANGED changes /\ (dropped => f \in Touched(b))
      BY <1>1 DEF Edit
    <2>2. h \in Nat
      BY <1>0 DEF TypeOK, RestOK
    <2> HIDE DEF b, h
    <2>3. Push(b, f, dropped, h) \in SoundTip /\ TipMay(b, Push(b, f, dropped, h))
      BY <1>0, <2>1, <2>2, PushMay
    <2> QED
      BY <1>0, <2>1, <2>3, PutGrows DEF b
  <1>2. ASSUME NEW f \in Files \cup {Elsewhere}, MainMoves(n, f)
        PROVE  ChangesGrow /\ UNCHANGED changes
    <2> DEFINE d == [b EXCEPT !.over = b.over \cup {f}, !.overtakes = b.overtakes + 1]
    <2>1. Put(n, d) /\ UNCHANGED changes
      BY <1>2 DEF MainMoves
    <2>2. d \in SoundTip /\ TipMay(b, d)
      BY <1>0, OverMay
    <2> HIDE DEF d
    <2> QED
      BY <1>0, <2>1, <2>2, PutGrows
  <1>3. ASSUME Refresh(n)
        PROVE  ChangesGrow /\ UNCHANGED changes
    <2> DEFINE d == [b EXCEPT !.listed = Touched(b)]
    <2>1. Put(n, d) /\ UNCHANGED changes
      BY <1>3 DEF Refresh
    <2>2. d \in SoundTip /\ TipMay(b, d)
      BY <1>0, ListedMay
    <2> HIDE DEF d
    <2> QED
      BY <1>0, <2>1, <2>2, PutGrows
  <1>4. ASSUME Close(n)
        PROVE  ChangesGrow /\ Len(changes') = Len(changes)
    <2> DEFINE c == [changes[n] EXCEPT !.state = "closed"]
    <2>1. changes[n].state = "open" /\ Shut(n, c)
      BY <1>4 DEF Close
    <2>2. c \in ChangeType /\ c.run = changes[n].run /\ c.state = "closed"
      BY <1>0, ClosedIs
    <2> HIDE DEF c
    <2> QED
      BY <1>0, <2>1, <2>2, ShutGrows
  <1> QED
    BY <1>1, <1>2, <1>3, <1>4 DEF Outside

LEMMA ChangesStep ==
  ASSUME TypeOK, TipsSound, [Next]_vars
  PROVE  ChangesGrow
  <1>0. ChangesKnown
    BY ChangesAre
  <1>1. ASSUME NEW p \in People, PublishProposes(p)
        PROVE  ChangesGrow
    <2>1. CASE UNCHANGED <<changes, tip>>
      BY <1>0, <2>1, ChangesStay
    <2>2. CASE ~UNCHANGED <<changes, tip>>
      <3> DEFINE c == Opened(task[p].run)
                 n == Len(changes) + 1
                 b == FirstTip(task[p].commit)
      <3>1. changes' = Append(changes, c) /\ task[p].pc = "propose" /\ n <= MaxChanges /\ Put(n, b)
        BY <1>1, <2>2 DEF PublishProposes, Opened
      <3>2. c \in ChangeType /\ b \in SoundTip
        BY <3>1, TaskAt, OpenedIs, FirstTipSound DEF Everyone
      <3> HIDE DEF c, b
      <3>3. /\ changes' \in Seq(ChangeType) /\ Len(changes') = Len(changes) + 1
            /\ \A j \in 1..Len(changes) : changes'[j] = changes[j]
        BY <1>0, <3>1, <3>2, AppendProperties DEF ChangesKnown
      <3>4. /\ tip' \in [1..MaxChanges -> SoundTip]
            /\ \A j \in 1..Len(changes) : tip'[j] = tip[j]
        BY <1>0, <3>1, <3>2 DEF Put, ChangesKnown
      <3> QED
        BY <1>0, <3>1, <3>3, <3>4, TipStays DEF ChangesGrow, ChangesKnown
    <2> QED
      BY <2>1, <2>2
  <1>2. ASSUME NEW p \in People, ApproveMerges(p)
        PROVE  ChangesGrow
    <2>1. CASE UNCHANGED <<changes, tip>>
      BY <1>0, <2>1, ChangesStay
    <2>2. CASE ~UNCHANGED <<changes, tip>>
      <3> DEFINE n == task[p].n
                 c == MergedBy(changes[n], tip[n], task[p])
      <3>1. n \in 1..Len(changes) /\ changes[n].state = "open" /\ Shut(n, c)
        BY <1>2, <2>2, TaskAt DEF ApproveMerges, Everyone
      <3>2. changes[n] \in ChangeType /\ tip[n] \in SoundTip
        BY <1>0, <3>1 DEF ChangesKnown
      <3>3. c \in ChangeType /\ c.run = changes[n].run /\ c.state = "merged"
        BY <3>2, MergedIs
      <3> HIDE DEF n, c
      <3> QED
        BY <1>0, <3>1, <3>3, ShutGrows
    <2> QED
      BY <2>1, <2>2
  <1>3. ASSUME NEW p \in People, ApproveUpdates(p)
        PROVE  ChangesGrow
    <2>1. CASE UNCHANGED <<changes, tip>>
      BY <1>0, <2>1, ChangesStay
    <2>2. CASE ~UNCHANGED <<changes, tip>>
      <3> DEFINE n == task[p].n
      <3>1. n \in 1..Len(changes) /\ UNCHANGED changes
        BY <1>3, <2>2, TaskAt DEF ApproveUpdates, Everyone
      <3>2. PICK taken \in SUBSET (tip[n].over \cap Touched(tip[n])) : Put(n, Updated(tip[n], taken))
        BY <1>3, <2>2 DEF ApproveUpdates
      <3>3. tip[n] \in SoundTip /\ taken \in SUBSET Files
        BY <1>0, <3>1, <3>2 DEF ChangesKnown, Touched
      <3>4. Updated(tip[n], taken) \in SoundTip /\ TipMay(tip[n], Updated(tip[n], taken))
        BY <3>3, UpdatedMay
      <3> HIDE DEF n
      <3> QED
        BY <1>0, <3>1, <3>2, <3>4, PutGrows
    <2> QED
      BY <2>1, <2>2
  <1>4. ASSUME NEW p \in People, RejectCloses(p)
        PROVE  ChangesGrow
    <2>1. CASE UNCHANGED <<changes, tip>>
      BY <1>0, <2>1, ChangesStay
    <2>2. CASE ~UNCHANGED <<changes, tip>>
      <3> DEFINE n == task[p].n
                 c == [changes[n] EXCEPT !.state = "closed"]
      <3>1. n \in 1..Len(changes) /\ changes[n].state # "merged" /\ Shut(n, c)
        BY <1>4, <2>2, TaskAt DEF RejectCloses, Everyone
      <3>2. c \in ChangeType /\ c.run = changes[n].run /\ c.state = "closed"
        BY <1>0, <3>1, ClosedIs DEF ChangesKnown
      <3> HIDE DEF n, c
      <3> QED
        BY <1>0, <3>1, <3>2, ShutGrows
    <2> QED
      BY <2>1, <2>2
  <1>5. CASE UNCHANGED <<changes, tip>>
    BY <1>0, <1>5, ChangesStay
  <1>6. CASE Next
    BY <1>0, <1>1, <1>2, <1>3, <1>4, <1>5, <1>6, ChangesBy, OutsideGrows
  <1> QED
    BY <1>5, <1>6 DEF vars

-----------------------------------------------------------------------------
(* What a step may do to the runs.                                         *)

Statuses == Live \cup Terminal \cup {"none"}
RunSet(k) == [status : Statuses, change : 0..k, ticket : BOOLEAN, lease : {"build", "approval"}]

\* A run that was created stays so, its ticket is not given back, and it becomes published and
\* cancelled only by the requests that say so.
RunMay(r) ==
    /\ runs[r].status # "none" => runs'[r].status # "none" /\ (runs'[r].ticket => runs[r].ticket)
    /\ runs'[r].status = "published" =>
          runs[r].status = "published" \/ \E p \in Everyone : task[p].pc = "publish" /\ task[p].run = r
    /\ runs'[r].status = "cancelled" =>
          \/ runs[r].status = "cancelled" /\ runs'[r].ticket = runs[r].ticket
          \/ \E p \in Everyone : /\ task[p].pc = "end" /\ task[p].run = r
                                 /\ runs'[r].ticket = runs[r].ticket
          \/ ~runs'[r].ticket

RunsGrow ==
    /\ runs' \in [Runs -> RunSet(Len(changes'))]
    /\ \A r \in Runs : RunMay(r)

LEMMA RunsTyped ==
  ASSUME TypeOK, ChangesGrow
  PROVE  /\ runs \in [Runs -> RunSet(Len(changes))]
         /\ runs \in [Runs -> RunSet(Len(changes'))]
         /\ Len(changes) \in Nat /\ Len(changes') \in Nat
  <1>1. runs \in [Runs -> RunSet(Len(changes))]
    BY DEF TypeOK, RunsOK, RunSet, Statuses
  <1>2. Len(changes) \in Nat /\ Len(changes') \in Nat /\ Len(changes) <= Len(changes')
    BY DEF TypeOK, ChangesOK, ChangesGrow
  <1>3. RunSet(Len(changes)) \subseteq RunSet(Len(changes'))
    BY <1>2 DEF RunSet
  <1> QED
    BY <1>1, <1>2, <1>3

LEMMA RunsStay ==
  ASSUME TypeOK, ChangesGrow, UNCHANGED runs
  PROVE  RunsGrow
  BY RunsTyped DEF RunsGrow, RunMay

\* set_status: to a status that is neither published nor cancelled, or as a request says.
LEMMA StatusMoves ==
  ASSUME TypeOK, ChangesGrow, NEW r \in Runs, NEW to \in Statuses, Moves(r, to), to # "none",
         to = "published" => \E p \in Everyone : task[p].pc = "publish" /\ task[p].run = r,
         to = "cancelled" => \E p \in Everyone : task[p].pc = "end" /\ task[p].run = r
  PROVE  RunsGrow
  <1>1. /\ runs \in [Runs -> RunSet(Len(changes'))]
        /\ runs' = [runs EXCEPT ![r] = [runs[r] EXCEPT !.status = to]]
    BY RunsTyped DEF Moves
  <1>2. /\ [runs[r] EXCEPT !.status = to] \in RunSet(Len(changes'))
        /\ [runs[r] EXCEPT !.status = to].status = to
        /\ [runs[r] EXCEPT !.status = to].ticket = runs[r].ticket
    BY <1>1 DEF RunSet
  <1>3. /\ runs' \in [Runs -> RunSet(Len(changes'))]
        /\ runs'[r].status = to /\ runs'[r].ticket = runs[r].ticket
        /\ \A s \in Runs : s # r => runs'[s] = runs[s]
    BY <1>1, <1>2
  <1>4. RunMay(r)
    BY <1>3 DEF RunMay
  <1>5. \A s \in Runs : s # r => RunMay(s)
    BY <1>3 DEF RunMay
  <1> QED
    BY <1>3, <1>4, <1>5 DEF RunsGrow

\* A lease, a ticket cleared, a Change remembered.
LEMMA FieldMoves ==
  ASSUME TypeOK, ChangesGrow, NEW r \in Runs, NEW v \in RunSet(Len(changes')),
         runs' = [runs EXCEPT ![r] = v], v.status = runs[r].status,
         v.ticket = runs[r].ticket \/ v.ticket = FALSE
  PROVE  RunsGrow
  <1>1. runs \in [Runs -> RunSet(Len(changes'))]
    BY RunsTyped
  <1>2. /\ runs' \in [Runs -> RunSet(Len(changes'))] /\ runs'[r] = v
        /\ \A s \in Runs : s # r => runs'[s] = runs[s]
    BY <1>1
  <1>3. RunMay(r)
    BY <1>2 DEF RunMay
  <1>4. \A s \in Runs : s # r => RunMay(s)
    BY <1>2 DEF RunMay
  <1> QED
    BY <1>2, <1>3, <1>4 DEF RunsGrow

LEMMA LeaseMoves ==
  ASSUME TypeOK, ChangesGrow, NEW r \in Runs, Leases(r)
  PROVE  RunsGrow
  <1> DEFINE v == [runs[r] EXCEPT !.lease = "approval"]
  <1>1. runs \in [Runs -> RunSet(Len(changes'))] /\ runs' = [runs EXCEPT ![r] = v]
    BY RunsTyped DEF Leases
  <1>2. v \in RunSet(Len(changes')) /\ v.status = runs[r].status /\ v.ticket = runs[r].ticket
    BY <1>1 DEF RunSet
  <1> HIDE DEF v
  <1> QED
    BY <1>1, <1>2, FieldMoves

\* The driver's steps.
LEMMA RunsDriven ==
  ASSUME TypeOK, ChangesGrow, NEW r \in Runs,
         Create(r) \/ Commit(r) \/ Drive(r) \/ DriverFails(r) \/ Passes(r)
  PROVE  RunsGrow
  <1>1. CASE Create(r)
    <2> DEFINE v == [status |-> "building", change |-> 0, ticket |-> TRUE, lease |-> "build"]
    <2>1. runs[r].status = "none" /\ runs' = [runs EXCEPT ![r] = v]
      BY <1>1 DEF Create
    <2>2. v \in RunSet(Len(changes')) /\ v.status = "building"
      BY RunsTyped DEF RunSet, Statuses, Live
    <2> HIDE DEF v
    <2>3. /\ runs' \in [Runs -> RunSet(Len(changes'))] /\ runs'[r] = v
          /\ \A s \in Runs : s # r => runs'[s] = runs[s]
      BY <2>1, <2>2, RunsTyped
    <2>4. RunMay(r)
      BY <2>1, <2>2, <2>3 DEF RunMay
    <2>5. \A s \in Runs : s # r => RunMay(s)
      BY <2>3 DEF RunMay
    <2> QED
      BY <2>3, <2>4, <2>5 DEF RunsGrow
  <1>2. CASE Moves(r, "previewing") \/ Moves(r, "awaiting") \/ Moves(r, "failed") \/ Moves(r, "expired")
    <2>1. {"previewing", "awaiting", "failed", "expired"} \subseteq Statuses
      BY DEF Statuses, Live, Terminal
    <2> QED
      BY <1>2, <2>1, StatusMoves
  <1>3. CASE Leases(r)
    BY <1>3, LeaseMoves
  <1>4. CASE UNCHANGED runs
    BY <1>4, RunsStay
  <1>5. CASE Commit(r) \/ Drive(r) \/ DriverFails(r) \/ Passes(r)
    BY <1>2, <1>3, <1>4, <1>5
    DEF Commit, Drive, DriverFails, Passes, Previews, DriverWaits, DriverLeases, Deadline,
        DriverExpires, DriverStops
  <1> QED
    BY <1>1, <1>5

\* The steps of a request, of a person or of the reaper.
LEMMA RunsHandled ==
  ASSUME TypeOK, ChangesGrow, NEW p \in Everyone,
         Publish(p) \/ Approve(p) \/ RejectCloses(p) \/ End(p)
  PROVE  RunsGrow
  <1> DEFINE r == task[p].run
  <1>0. UNCHANGED runs => RunsGrow
    BY RunsStay
  <1>1. CASE PublishRecords(p)
    <2> DEFINE v == [runs[r] EXCEPT !.change = Recorded(p)]
    <2>1. task[p].pc = "record" /\ (UNCHANGED runs \/ runs' = [runs EXCEPT ![r] = v])
      BY <1>1 DEF PublishRecords
    <2>2. r \in Runs /\ Recorded(p) \in 0..Len(changes')
      BY <2>1, TaskAt, RunsTyped DEF Recorded, ChangesGrow
    <2>3. v \in RunSet(Len(changes')) /\ v.status = runs[r].status /\ v.ticket = runs[r].ticket
      BY <2>2, RunsTyped DEF RunSet
    <2> HIDE DEF v, r
    <2> QED
      BY <1>0, <2>1, <2>2, <2>3, FieldMoves
  <1>2. CASE PublishWaits(p)
    <2>1. task[p].pc = "wait" /\ (UNCHANGED runs \/ Moves(r, "awaiting"))
      BY <1>2 DEF PublishWaits
    <2>2. r \in Runs /\ "awaiting" \in Statuses
      BY <2>1, TaskAt DEF Statuses, Live
    <2> HIDE DEF r
    <2> QED
      BY <1>0, <2>1, <2>2, StatusMoves
  <1>3. CASE PublishLeases(p)
    <2>1. task[p].pc = "lease" /\ (UNCHANGED runs \/ Leases(r))
      BY <1>3 DEF PublishLeases
    <2>2. r \in Runs
      BY <2>1, TaskAt
    <2> QED
      BY <1>0, <2>1, <2>2, LeaseMoves
  <1>4. CASE RunPublished(p)
    <2>1. task[p].pc = "publish" /\ (UNCHANGED runs \/ Moves(r, "published"))
      BY <1>4 DEF RunPublished
    <2>2. r \in Runs /\ "published" \in Statuses
      BY <2>1, TaskAt DEF Statuses, Terminal
    <2>3. \E q \in Everyone : task[q].pc = "publish" /\ task[q].run = r
      BY <2>1
    <2> HIDE DEF r
    <2> QED
      BY <1>0, <2>1, <2>2, <2>3, StatusMoves
  <1>5. CASE EndTicket(p)
    <2> DEFINE v == [runs[r] EXCEPT !.ticket = FALSE]
    <2>1. task[p].pc = "ticket" /\ (UNCHANGED runs \/ runs' = [runs EXCEPT ![r] = v])
      BY <1>5 DEF EndTicket
    <2>2. r \in Runs
      BY <2>1, TaskAt
    <2>3. v \in RunSet(Len(changes')) /\ v.status = runs[r].status /\ v.ticket = FALSE
      BY <2>2, RunsTyped DEF RunSet
    <2> HIDE DEF v, r
    <2> QED
      BY <1>0, <2>1, <2>2, <2>3, FieldMoves
  <1>6. CASE EndStatus(p)
    <2>1. task[p].pc = "end" /\ (UNCHANGED runs \/ Moves(r, task[p].to))
      BY <1>6 DEF EndStatus
    <2>2. r \in Runs /\ task[p].to \in {"cancelled", "expired"}
      BY <2>1 DEF TypeOK, TasksOK, Everyone
    <2>3. task[p].to \in Statuses /\ task[p].to # "none" /\ task[p].to # "published"
      BY <2>2 DEF Statuses, Terminal
    <2>4. \E q \in Everyone : task[q].pc = "end" /\ task[q].run = r
      BY <2>1
    <2> HIDE DEF r
    <2> QED
      BY <1>0, <2>1, <2>2, <2>3, <2>4, StatusMoves
  <1>7. CASE \/ PublishSource(p) \/ PublishProposes(p) \/ ApproveMerges(p) \/ ApproveUpdates(p)
             \/ ApproveHeads(p) \/ ApproveCompares(p) \/ ApplicationMerges(p) \/ RejectCloses(p) \/ RejectedReads(p)
    BY <1>0, <1>7 DEF PublishSource, PublishProposes, ApproveMerges, ApproveUpdates, ApproveHeads, ApproveCompares,
                      ApplicationMerges, RejectCloses, RejectedReads
  <1> QED
    BY <1>1, <1>2, <1>3, <1>4, <1>5, <1>6, <1>7 DEF Publish, Approve, End

LEMMA RunsStep ==
  ASSUME TypeOK, ChangesGrow, [Next]_vars
  PROVE  RunsGrow
  <1>1. CASE Asked
    <2>1. UNCHANGED runs
      BY <1>1 DEF Asked, PublishReads, Cancel, ApproveReads, RejectReads
    <2> QED
      BY <2>1, RunsStay
  <1>2. CASE Reap
    <2>1. CASE End(Reaper)
      BY <2>1, RunsHandled DEF Everyone
    <2>2. CASE ~End(Reaper)
      <3>1. UNCHANGED runs
        BY <1>2, <2>2 DEF Reap, ReapLists, ReapEnds, ReapLooks, ReapAsks
      <3> QED
        BY <3>1, RunsStay
    <2> QED
      BY <2>1, <2>2
  <1>3. ASSUME NEW n \in Numbers, Outside(n)
        PROVE  RunsGrow
    <2>1. UNCHANGED runs
      BY <1>3 DEF Outside, Edit, Close, Refresh, MainMoves
    <2> QED
      BY <2>1, RunsStay
  <1>4. CASE Restart
    BY <1>4, RunsStay DEF Restart
  <1>5. CASE UNCHANGED vars
    BY <1>5, RunsStay DEF vars
  <1>6. ASSUME NEW p \in People, Handles(p)
        PROVE  RunsGrow
    BY <1>6, RunsHandled DEF Handles, Everyone
  <1> QED
    BY <1>1, <1>2, <1>3, <1>4, <1>5, <1>6, RunsDriven DEF Next, Outside

-----------------------------------------------------------------------------
(* The inductive invariant.  A request that holds a Change knows how what  *)
(* it read compares with what the Change is now; one past a merge, or past *)
(* a cleared ticket, knows that it happened.                               *)

Tos == {"none", "awaiting", "cancelled", "expired"}
Holding == {"record", "merge", "update", "head", "compare", "close", "rejected"}
Approving == {"merge", "update", "head", "compare"}

FileSets == SUBSET Files
TaskRec(k) == [pc : Pcs, run : Runs \cup {None}, n : 0..k, commit : Nat, to : Tos, read : [Files -> Nat],
               pin : Nat, pushes : Nat, differ : FileSets, list : FileSets]

Held(t) ==
    /\ t.pc # "off" => t.run \in Runs
    /\ t.pc \in Holding => t.n # 0
    /\ t.pc \in {"ticket", "end"} => t.to \in {"cancelled", "expired"}

\* The approval t and the branch b of its open Change.  It pins no later head and read no later
\* file, and the manifest vouches for the commit; the pinned head reads as it was read in every
\* file of the list it was compared by, or, before that, in every file not known to differ.
Vouches(t, b) ==
    /\ t.pin <= b.sha
    /\ t.read[Manifest] # 0 /\ (b.files[Manifest] = t.read[Manifest] => b.commit = t.commit)
    /\ \A f \in Files : t.read[f] <= b.sha
    /\ t.pc = "merge" /\ b.sha = t.pin => \A f \in t.list : b.files[f] = t.read[f]
    /\ t.pc = "compare" /\ b.sha = t.pin => \A f \in Files : b.files[f] = t.read[f] \/ f \in t.differ

\* While nobody pushed to the branch since the read, it touches only files that were read, and
\* the forge, and the list the approval compares by, name all of them.
Lists(t, b) ==
    /\ t.pushes <= b.pushes
    /\ b.pushes = t.pushes =>
          \A f \in Files : b.files[f] # 0 => t.read[f] # 0 /\ f \in b.listed /\ f \in t.list

AsRead(t, b) == Vouches(t, b) /\ Lists(t, b)

Merged(c, r, commit) == c.state = "merged" /\ c.run = r /\ (c.commit = commit \/ c.unread)

Approved(r, commit) == \E n \in Numbers : Merged(changes[n], r, commit)

InMain(r) == \E m \in appMain : m.run = r

Sound(t) ==
    /\ t.pc # "off" => runs[t.run].status # "none"
    /\ t.pc = "end" => ~runs[t.run].ticket
    /\ t.pc \in Approving => t.run = changes[t.n].run /\ (changes[t.n].state = "open" => AsRead(t, tip[t.n]))
    /\ t.pc = "merged" => Approved(t.run, t.commit)
    /\ t.pc = "publish" => InMain(t.run)

\* The same of a request t, read in the state after the step.
SoundNext(t) ==
    /\ t.pc # "off" => runs'[t.run].status # "none"
    /\ t.pc = "end" => ~runs'[t.run].ticket
    /\ t.pc \in Approving => t.run = changes'[t.n].run /\ (changes'[t.n].state = "open" => AsRead(t, tip'[t.n]))
    /\ t.pc = "merged" => \E n \in 1..Len(changes') : Merged(changes'[n], t.run, t.commit)
    /\ t.pc = "publish" => \E m \in appMain' : m.run = t.run

TasksSound == \A p \in Everyone : Sound(task[p])
ChangesStarted == \A n \in Numbers : runs[changes[n].run].status # "none"
TodoStarted == \A t \in reaper : runs[t.run].status # "none"

IInv == /\ TypeOK /\ TipsSound /\ TasksSound /\ ChangesStarted /\ TodoStarted
        /\ PublishedIsApproved /\ CancelledHasNoTicket

\* The rest of the state grows as well.
MainGrows == appMain \subseteq appMain'

\* What an approved commit is stays approved.
LEMMA ApprovedStays ==
  ASSUME TypeOK, ChangesGrow, NEW r, NEW commit, Approved(r, commit)
  PROVE  \E n \in 1..Len(changes') : Merged(changes'[n], r, commit)
  <1>1. PICK n \in Numbers : Merged(changes[n], r, commit)
    BY DEF Approved
  <1>2. n \in 1..Len(changes') /\ changes'[n] = changes[n]
    BY <1>1 DEF ChangesGrow, Numbers, TypeOK, ChangesOK, Merged
  <1> QED
    BY <1>1, <1>2

\* What an approval knows of a branch it still knows after a step.
LEMMA AsReadKeeps ==
  ASSUME NEW k \in Nat, NEW t \in TaskRec(k), NEW b \in SoundTip, NEW d \in SoundTip,
         AsRead(t, b), TipMay(b, d)
  PROVE  AsRead(t, d)
  <1>0. /\ t.pin \in Nat /\ t.pushes \in Nat /\ t.read \in [Files -> Nat]
        /\ t.list \subseteq Files
        /\ b.sha \in Nat /\ b.pushes \in Nat /\ b.files \in [Files -> Nat]
        /\ d.sha \in Nat /\ d.pushes \in Nat /\ d.files \in [Files -> Nat]
        /\ Manifest \in Files
    BY FilesAssumption DEF TaskRec, FileSets, SoundTip, TipType
  <1>1. t.pin <= d.sha /\ \A f \in Files : t.read[f] <= d.sha
    BY <1>0 DEF AsRead, Vouches, TipMay
  <1>2. ASSUME d.files[Manifest] = t.read[Manifest]
        PROVE  d.commit = t.commit
    <2>1. d.files[Manifest] = b.files[Manifest]
      BY <1>0, <1>2 DEF AsRead, Vouches, TipMay
    <2> QED
      BY <1>2, <2>1 DEF AsRead, Vouches, TipMay
  <1>3. ASSUME d.sha = t.pin
        PROVE  b.sha = t.pin /\ d.files = b.files
    BY <1>0, <1>3 DEF AsRead, Vouches, TipMay
  <1>4. t.pc = "merge" /\ d.sha = t.pin => \A f \in t.list : d.files[f] = t.read[f]
    BY <1>3 DEF AsRead, Vouches
  <1>5. t.pc = "compare" /\ d.sha = t.pin => \A f \in Files : d.files[f] = t.read[f] \/ f \in t.differ
    BY <1>3 DEF AsRead, Vouches
  <1>6. Vouches(t, d)
    BY <1>1, <1>2, <1>4, <1>5 DEF AsRead, Vouches
  <1>7. t.pushes <= d.pushes
    BY <1>0 DEF AsRead, Lists, TipMay
  <1>8. ASSUME d.pushes = t.pushes, NEW f \in Files, d.files[f] # 0
        PROVE  t.read[f] # 0 /\ f \in d.listed /\ f \in t.list
    <2>1. b.pushes = t.pushes /\ d.pushes = b.pushes
      BY <1>0, <1>8 DEF AsRead, Lists, TipMay
    <2>2. b.files[f] # 0
      BY <1>8, <2>1 DEF TipMay
    <2>3. t.read[f] # 0 /\ f \in b.listed /\ f \in t.list
      BY <2>1, <2>2 DEF AsRead, Lists
    <2> QED
      BY <2>2, <2>3 DEF TipMay, Touched
  <1> QED
    BY <1>6, <1>7, <1>8 DEF AsRead, Lists

\* A request that a step leaves alone stays sound.
LEMMA SoundKeeps ==
  ASSUME TypeOK, TipsSound, ChangesGrow, RunsGrow, MainGrows,
         NEW t \in TaskRec(Len(changes)), Held(t), Sound(t)
  PROVE  SoundNext(t) /\ t \in TaskRec(Len(changes'))
  <1>0. Len(changes) \in Nat /\ Len(changes') \in Nat /\ Len(changes') >= Len(changes)
    BY DEF TypeOK, ChangesOK, ChangesGrow
  <1>1. t \in TaskRec(Len(changes'))
    BY <1>0 DEF TaskRec
  <1>2. t.pc # "off" => runs'[t.run].status # "none"
    BY DEF Sound, Held, RunsGrow, RunMay
  <1>3. t.pc = "end" => ~runs'[t.run].ticket
    BY DEF Sound, Held, RunsGrow, RunMay
  <1>4. ASSUME t.pc \in Approving
        PROVE  t.run = changes'[t.n].run /\ (changes'[t.n].state = "open" => AsRead(t, tip'[t.n]))
    <2>1. t.n \in 1..Len(changes)
      BY <1>0, <1>4 DEF Held, Approving, Holding, TaskRec
    <2>2. /\ t.run = changes[t.n].run /\ (changes[t.n].state = "open" => AsRead(t, tip[t.n]))
      BY <1>4 DEF Sound
    <2>3. t.n \in 1..MaxChanges /\ tip[t.n] \in SoundTip /\ tip'[t.n] \in SoundTip
      BY <2>1, ChangesAre DEF ChangesKnown, ChangesGrow
    <2>4. /\ changes'[t.n].run = changes[t.n].run
          /\ changes'[t.n].state = "open" => changes[t.n].state = "open" /\ TipMay(tip[t.n], tip'[t.n])
      BY <2>1 DEF ChangesGrow
    <2> QED
      BY <1>0, <2>2, <2>3, <2>4, AsReadKeeps
  <1>5. t.pc = "merged" => \E n \in 1..Len(changes') : Merged(changes'[n], t.run, t.commit)
    BY ApprovedStays DEF Sound
  <1>6. t.pc = "publish" => \E m \in appMain' : m.run = t.run
    BY DEF Sound, InMain, MainGrows
  <1> QED
    BY <1>1, <1>2, <1>3, <1>4, <1>5, <1>6 DEF SoundNext

\* What a request has to be after a step.
Good(t) == t \in TaskRec(Len(changes')) /\ Held(t) /\ SoundNext(t)

LEMMA TasksTyped ==
  ASSUME TypeOK
  PROVE  /\ task \in [Everyone -> TaskRec(Len(changes))]
         /\ \A p \in Everyone : Held(task[p])
  BY DEF TypeOK, TasksOK, Everyone, TaskRec, FileSets, Held, Holding, Tos

\* The requests after a step, from what each of them is.
LEMMA TasksFrom ==
  ASSUME task' \in [Everyone -> TaskRec(Len(changes'))], \A q \in Everyone : Good(task'[q])
  PROVE  TasksOK' /\ TasksSound'
  <1>1. TasksOK'
    BY DEF TasksOK, Everyone, TaskRec, FileSets, Held, Holding, Tos, Good
  <1>2. \A q \in Everyone : SoundNext(task'[q])
    BY DEF Good
  <1>3. TasksSound'
    BY <1>2 DEF TasksSound, Everyone, Sound, SoundNext, Approved, Numbers, InMain
  <1> QED
    BY <1>1, <1>3

LEMMA OthersGood ==
  ASSUME IInv, ChangesGrow, RunsGrow, MainGrows
  PROVE  task \in [Everyone -> TaskRec(Len(changes))] /\ \A q \in Everyone : Good(task[q])
  <1>1. task \in [Everyone -> TaskRec(Len(changes))] /\ \A q \in Everyone : Held(task[q])
    BY TasksTyped DEF IInv
  <1> QED
    BY <1>1, SoundKeeps DEF IInv, TasksSound, Good

LEMMA TaskMoves ==
  ASSUME IInv, ChangesGrow, RunsGrow, MainGrows, NEW p \in Everyone, NEW t, Goes(p, t), Good(t)
  PROVE  TasksOK' /\ TasksSound'
  <1>1. task \in [Everyone -> TaskRec(Len(changes))] /\ \A q \in Everyone : Good(task[q])
    BY OthersGood
  <1>2. task' = [q \in Everyone |-> IF q = p THEN t ELSE task[q]]
    BY <1>1 DEF Goes
  <1>3. \A q \in Everyone : Good(task'[q])
    BY <1>1, <1>2
  <1>4. task' \in [Everyone -> TaskRec(Len(changes'))]
    BY <1>2, <1>3 DEF Good
  <1> QED
    BY <1>3, <1>4, TasksFrom

LEMMA TasksStay ==
  ASSUME IInv, ChangesGrow, RunsGrow, MainGrows, UNCHANGED task
  PROVE  TasksOK' /\ TasksSound'
  <1>1. task \in [Everyone -> TaskRec(Len(changes))] /\ \A q \in Everyone : Good(task[q])
    BY OthersGood
  <1>2. task' \in [Everyone -> TaskRec(Len(changes'))]
    BY <1>1 DEF Good
  <1> QED
    BY <1>1, <1>2, TasksFrom

LEMMA NoFilesAre == NoFiles \in [Files -> Nat]
  BY DEF NoFiles

LEMMA OffIs ==
  ASSUME NEW k \in Nat
  PROVE  Off \in TaskRec(k) /\ Off.pc = "off" /\ Off.n = 0
  BY NoFilesAre DEF Off, TaskRec, FileSets, Pcs, Tos

LEMMA OffGood ==
  ASSUME ChangesGrow
  PROVE  Good(Off)
  <1>1. Off \in TaskRec(Len(changes')) /\ Off.pc = "off"
    BY OffIs DEF ChangesGrow
  <1> QED
    BY <1>1 DEF Good, Held, SoundNext, Approving, Holding

\* A request at another step, on another run, with another Change, commit or end.
LEMMA PcSet ==
  ASSUME NEW k \in Nat, NEW t \in TaskRec(k), NEW v \in Pcs
  PROVE  LET u == [t EXCEPT !.pc = v]
         IN  /\ u \in TaskRec(k) /\ u.pc = v /\ u.run = t.run /\ u.n = t.n /\ u.commit = t.commit
             /\ u.to = t.to /\ u.read = t.read /\ u.pin = t.pin /\ u.pushes = t.pushes
             /\ u.differ = t.differ /\ u.list = t.list
  BY DEF TaskRec

LEMMA RunSetTo ==
  ASSUME NEW k \in Nat, NEW t \in TaskRec(k), NEW v \in Runs
  PROVE  LET u == [t EXCEPT !.run = v]
         IN  u \in TaskRec(k) /\ u.pc = t.pc /\ u.run = v /\ u.n = t.n
  BY DEF TaskRec

LEMMA NSet ==
  ASSUME NEW k \in Nat, NEW t \in TaskRec(k), NEW v \in 0..k
  PROVE  LET u == [t EXCEPT !.n = v]
         IN  u \in TaskRec(k) /\ u.pc = t.pc /\ u.run = t.run /\ u.n = v
  BY DEF TaskRec

LEMMA CommitSet ==
  ASSUME NEW k \in Nat, NEW t \in TaskRec(k), NEW v \in Nat
  PROVE  LET u == [t EXCEPT !.commit = v]
         IN  u \in TaskRec(k) /\ u.pc = t.pc /\ u.run = t.run /\ u.n = t.n /\ u.commit = v
  BY DEF TaskRec

LEMMA ReadSet ==
  ASSUME NEW k \in Nat, NEW t \in TaskRec(k), NEW v \in [Files -> Nat]
  PROVE  LET u == [t EXCEPT !.read = v]
         IN  /\ u \in TaskRec(k) /\ u.pc = t.pc /\ u.run = t.run /\ u.n = t.n /\ u.commit = t.commit
             /\ u.read = v
  BY DEF TaskRec

LEMMA PinSet ==
  ASSUME NEW k \in Nat, NEW t \in TaskRec(k), NEW v \in Nat
  PROVE  LET u == [t EXCEPT !.pin = v]
         IN  /\ u \in TaskRec(k) /\ u.pc = t.pc /\ u.run = t.run /\ u.n = t.n /\ u.commit = t.commit
             /\ u.read = t.read /\ u.pin = v /\ u.pushes = t.pushes /\ u.list = t.list
  BY DEF TaskRec

LEMMA PushesSet ==
  ASSUME NEW k \in Nat, NEW t \in TaskRec(k), NEW v \in Nat
  PROVE  LET u == [t EXCEPT !.pushes = v]
         IN  /\ u \in TaskRec(k) /\ u.pc = t.pc /\ u.run = t.run /\ u.n = t.n /\ u.commit = t.commit
             /\ u.read = t.read /\ u.pin = t.pin /\ u.pushes = v
  BY DEF TaskRec

LEMMA DifferSet ==
  ASSUME NEW k \in Nat, NEW t \in TaskRec(k), NEW v \in FileSets
  PROVE  LET u == [t EXCEPT !.differ = v]
         IN  /\ u \in TaskRec(k) /\ u.pc = t.pc /\ u.run = t.run /\ u.n = t.n /\ u.commit = t.commit
             /\ u.read = t.read /\ u.pin = t.pin /\ u.pushes = t.pushes /\ u.list = t.list
             /\ u.differ = v
  BY DEF TaskRec

LEMMA ListSet ==
  ASSUME NEW k \in Nat, NEW t \in TaskRec(k), NEW v \in FileSets
  PROVE  LET u == [t EXCEPT !.list = v]
         IN  /\ u \in TaskRec(k) /\ u.pc = t.pc /\ u.run = t.run /\ u.n = t.n /\ u.commit = t.commit
             /\ u.read = t.read /\ u.pin = t.pin /\ u.pushes = t.pushes /\ u.list = v
  BY DEF TaskRec

LEMMA ToSet ==
  ASSUME NEW k \in Nat, NEW t \in TaskRec(k), NEW v \in Tos
  PROVE  LET u == [t EXCEPT !.to = v]
         IN  u \in TaskRec(k) /\ u.pc = t.pc /\ u.run = t.run /\ u.n = t.n /\ u.to = v
  BY DEF TaskRec

LEMMA AtIs ==
  ASSUME NEW k \in Nat, NEW pc \in Pcs, NEW r \in Runs
  PROVE  At(pc, r) \in TaskRec(k) /\ At(pc, r).pc = pc /\ At(pc, r).run = r /\ At(pc, r).n = 0
  <1> DEFINE t == [Off EXCEPT !.pc = pc]
  <1>1. t \in TaskRec(k) /\ t.pc = pc /\ t.n = 0
    BY OffIs, PcSet
  <1>2. At(pc, r) = [t EXCEPT !.run = r]
    BY DEF At
  <1> HIDE DEF t
  <1> QED
    BY <1>1, <1>2, RunSetTo

\* What is known of a request and of its run, around a step.
LEMMA TaskKnows ==
  ASSUME IInv, ChangesGrow, RunsGrow, NEW p \in Everyone, task[p].pc # "off"
  PROVE  /\ task[p].run \in Runs /\ runs'[task[p].run].status # "none"
         /\ task[p].n \in 0..Len(changes) /\ task[p].n \in 0..Len(changes')
         /\ task[p].pc \in Holding => task[p].n \in 1..Len(changes)
         /\ task[p].commit \in Nat
         /\ task[p].pc \in {"ticket", "end"} => task[p].to \in {"cancelled", "expired"}
         /\ task[p] \in TaskRec(Len(changes')) /\ Len(changes') \in Nat
         /\ Sound(task[p])
  <1>1. task[p] \in TaskRec(Len(changes)) /\ Held(task[p]) /\ Sound(task[p])
    BY TasksTyped DEF IInv, TasksSound
  <1>2. Len(changes) \in Nat /\ Len(changes') \in Nat /\ Len(changes') >= Len(changes)
    BY DEF IInv, TypeOK, ChangesOK, ChangesGrow
  <1>3. task[p].run \in Runs /\ runs'[task[p].run].status # "none"
    BY <1>1 DEF Held, Sound, RunsGrow, RunMay
  <1>4. task[p].n \in 0..Len(changes) /\ task[p].commit \in Nat /\ task[p] \in TaskRec(Len(changes'))
    BY <1>1, <1>2 DEF TaskRec
  <1> QED
    BY <1>1, <1>2, <1>3, <1>4 DEF Held, Holding

\* A request that is at no step the invariant says more of.
LEMMA PlainGood ==
  ASSUME NEW t \in TaskRec(Len(changes')), t.run \in Runs, runs'[t.run].status # "none",
         t.pc \notin Approving \cup {"end", "merged", "publish"},
         t.pc \in Holding => t.n # 0,
         t.pc = "ticket" => t.to \in {"cancelled", "expired"}
  PROVE  Good(t)
  <1>1. Held(t)
    BY DEF Held
  <1>2. SoundNext(t)
    BY DEF SoundNext
  <1> QED
    BY <1>1, <1>2 DEF Good

\* The requests as they begin.
LEMMA AskedGood ==
  ASSUME IInv, ChangesGrow, RunsGrow, MainGrows, Asked
  PROVE  TasksOK' /\ TasksSound'
  <1>0. /\ \A r \in Runs : runs[r].status # "none" => runs'[r].status # "none"
        /\ Len(changes') \in Nat
    BY DEF RunsGrow, RunMay, ChangesGrow
  <1>1. ASSUME NEW p \in Owners, NEW r \in Runs, PublishReads(p, r)
        PROVE  TasksOK' /\ TasksSound'
    <2> DEFINE a == At("source", r)
               v == IF runs[r].status = "awaiting" THEN "none" ELSE "awaiting"
               t == [a EXCEPT !.to = v]
    <2>1. runs[r].status # "none" /\ Goes(p, t)
      BY <1>1 DEF PublishReads
    <2>2. v \in Tos
      BY DEF Tos
    <2>3. a \in TaskRec(Len(changes')) /\ a.pc = "source" /\ a.run = r
      BY <1>0, AtIs DEF Pcs
    <2> HIDE DEF a, v
    <2>4. t \in TaskRec(Len(changes')) /\ t.pc = "source" /\ t.run = r
      BY <1>0, <2>2, <2>3, ToSet
    <2> HIDE DEF t
    <2>5. Good(t)
      BY <1>0, <2>1, <2>4, PlainGood DEF Approving, Holding
    <2> QED
      BY <2>1, <2>5, TaskMoves DEF Everyone, People
  <1>2. ASSUME NEW p \in Owners, NEW r \in Runs, Cancel(p, r)
        PROVE  TasksOK' /\ TasksSound'
    <2> DEFINE a == At("ticket", r)
               t == [a EXCEPT !.to = "cancelled"]
    <2>1. runs[r].status # "none" /\ Goes(p, t)
      BY <1>2 DEF Cancel
    <2>2. a \in TaskRec(Len(changes')) /\ a.pc = "ticket" /\ a.run = r
      BY <1>0, AtIs DEF Pcs
    <2> HIDE DEF a
    <2>3. t \in TaskRec(Len(changes')) /\ t.pc = "ticket" /\ t.run = r /\ t.to = "cancelled"
      BY <1>0, <2>2, ToSet DEF Tos
    <2> HIDE DEF t
    <2>4. Good(t)
      BY <1>0, <2>1, <2>3, PlainGood DEF Approving, Holding
    <2> QED
      BY <2>1, <2>4, TaskMoves DEF Everyone, People
  <1>3. ASSUME NEW p \in Approvers, NEW n \in Numbers, ApproveReads(p, n)
        PROVE  TasksOK' /\ TasksSound'
    <2> DEFINE c == changes[n]
               x == tip[n]
               a == At("merge", c.run)
               b == [a EXCEPT !.n = n]
               d == [b EXCEPT !.commit = x.commit]
               e == [d EXCEPT !.read = x.files]
               g == [e EXCEPT !.pin = x.sha]
               h == [g EXCEPT !.pushes = x.pushes]
               all == Files
               t == [h EXCEPT !.list = all]
    <2>1. Goes(p, t) /\ x.listed = Touched(x) /\ Manifest \in x.listed /\ changes' = changes /\ tip' = tip
      BY <1>3 DEF ApproveReads, forge
    <2>2. /\ n \in 1..Len(changes) /\ n \in 0..Len(changes') /\ n # 0
          /\ c.run \in Runs /\ runs[c.run].status # "none" /\ x \in SoundTip /\ all \in FileSets
      BY <2>1, ChangesAre DEF IInv, ChangesKnown, ChangesStarted, Numbers, FileSets
    <2>3. /\ x.commit \in Nat /\ x.sha \in Nat /\ x.pushes \in Nat /\ x.files \in [Files -> Nat]
          /\ \A f \in Files : x.files[f] <= x.sha
      BY <2>2 DEF SoundTip, TipType
    <2>4. a \in TaskRec(Len(changes')) /\ a.pc = "merge" /\ a.run = c.run
      BY <1>0, <2>2, AtIs DEF Pcs
    <2> HIDE DEF a, c, x, all
    <2>5. b \in TaskRec(Len(changes')) /\ b.pc = "merge" /\ b.run = c.run /\ b.n = n
      BY <1>0, <2>2, <2>4, NSet
    <2> HIDE DEF b
    <2>6. /\ d \in TaskRec(Len(changes')) /\ d.pc = "merge" /\ d.run = c.run /\ d.n = n
          /\ d.commit = x.commit
      BY <1>0, <2>3, <2>5, CommitSet
    <2> HIDE DEF d
    <2>7. /\ e \in TaskRec(Len(changes')) /\ e.pc = "merge" /\ e.run = c.run /\ e.n = n
          /\ e.commit = x.commit /\ e.read = x.files
      BY <1>0, <2>3, <2>6, ReadSet
    <2> HIDE DEF e
    <2>8. /\ g \in TaskRec(Len(changes')) /\ g.pc = "merge" /\ g.run = c.run /\ g.n = n
          /\ g.commit = x.commit /\ g.read = x.files /\ g.pin = x.sha
      BY <1>0, <2>3, <2>7, PinSet
    <2> HIDE DEF g
    <2>9. /\ h \in TaskRec(Len(changes')) /\ h.pc = "merge" /\ h.run = c.run /\ h.n = n
          /\ h.commit = x.commit /\ h.read = x.files /\ h.pin = x.sha /\ h.pushes = x.pushes
      BY <1>0, <2>3, <2>8, PushesSet
    <2> HIDE DEF h
    <2>10. /\ t \in TaskRec(Len(changes')) /\ t.pc = "merge" /\ t.run = c.run /\ t.n = n
           /\ t.commit = x.commit /\ t.read = x.files /\ t.pin = x.sha /\ t.pushes = x.pushes
           /\ t.list = Files
      BY <1>0, <2>2, <2>9, ListSet DEF all
    <2> HIDE DEF t
    <2>11. Vouches(t, x)
      BY <2>1, <2>3, <2>10 DEF Vouches, Touched
    <2>12. Lists(t, x)
      BY <2>1, <2>3, <2>10 DEF Lists, Touched
    <2>13. Held(t)
      BY <2>2, <2>10 DEF Held, Holding
    <2>14. t.run = changes'[t.n].run /\ AsRead(t, tip'[t.n])
      BY <2>1, <2>10, <2>11, <2>12 DEF AsRead, c, x
    <2>15. SoundNext(t)
      BY <1>0, <2>2, <2>10, <2>14 DEF SoundNext
    <2> QED
      BY <2>1, <2>10, <2>13, <2>15, TaskMoves DEF Everyone, People, Good
  <1>4. ASSUME NEW p \in Approvers, NEW n \in Numbers, RejectReads(p, n)
        PROVE  TasksOK' /\ TasksSound'
    <2> DEFINE r == changes[n].run
               a == At("close", r)
               t == [a EXCEPT !.n = n]
    <2>1. Goes(p, t)
      BY <1>4 DEF RejectReads
    <2>2. /\ r \in Runs /\ n \in 1..Len(changes) /\ n \in 0..Len(changes') /\ n # 0
          /\ runs[r].status # "none"
      BY <1>4, ChangesAre DEF IInv, ChangesKnown, ChangesStarted, Numbers, RejectReads, forge
    <2> HIDE DEF r
    <2>3. a \in TaskRec(Len(changes')) /\ a.pc = "close" /\ a.run = r
      BY <1>0, <2>2, AtIs DEF Pcs
    <2> HIDE DEF a
    <2>4. t \in TaskRec(Len(changes')) /\ t.pc = "close" /\ t.run = r /\ t.n = n
      BY <1>0, <2>2, <2>3, NSet
    <2> HIDE DEF t
    <2>5. Good(t)
      BY <1>0, <2>2, <2>4, PlainGood DEF Approving, Holding
    <2> QED
      BY <2>1, <2>5, TaskMoves DEF Everyone, People
  <1> QED
    BY <1>1, <1>2, <1>3, <1>4 DEF Asked

\* publish_run's steps.
LEMMA PublishGood ==
  ASSUME IInv, ChangesGrow, RunsGrow, MainGrows, NEW p \in Everyone, Publish(p)
  PROVE  TasksOK' /\ TasksSound'
  <1> DEFINE T == task[p]
  <1>0. Goes(p, Off) => TasksOK' /\ TasksSound'
    BY OffGood, TaskMoves
  <1>a. Len(changes') \in Nat /\ 0 \in Nat /\ {"propose", "record", "wait", "lease"} \subseteq Pcs
    BY DEF ChangesGrow, Pcs
  <1>1. CASE PublishSource(p)
    <2> DEFINE h == head[T.run]
               b == [T EXCEPT !.pc = "propose"]
               t == [b EXCEPT !.commit = h]
    <2>1. T.pc = "source" /\ (Goes(p, Off) \/ Goes(p, t))
      BY <1>1 DEF PublishSource
    <2>2. h \in Nat /\ T \in TaskRec(Len(changes')) /\ T.run \in Runs /\ runs'[T.run].status # "none"
      BY <2>1, TaskKnows DEF IInv, TypeOK, RestOK
    <2> HIDE DEF h, T
    <2>3. b \in TaskRec(Len(changes')) /\ b.pc = "propose" /\ b.run = T.run
      BY <1>a, <2>2, PcSet
    <2> HIDE DEF b
    <2>4. t \in TaskRec(Len(changes')) /\ t.pc = "propose" /\ t.run = T.run
      BY <1>a, <2>2, <2>3, CommitSet
    <2> HIDE DEF t
    <2>5. Good(t)
      BY <2>2, <2>4, PlainGood DEF Approving, Holding
    <2> QED
      BY <1>0, <2>1, <2>5, TaskMoves
  <1>2. CASE PublishProposes(p)
    <2> DEFINE n == Len(changes) + 1
               b == [T EXCEPT !.pc = "record"]
               zero == 0
               d == [b EXCEPT !.commit = zero]
               t == [d EXCEPT !.n = n]
    <2>1. T.pc = "propose" /\ (Goes(p, Off) \/ (Goes(p, t) /\ \E c : changes' = Append(changes, c)))
      BY <1>2 DEF PublishProposes
    <2>2. T \in TaskRec(Len(changes')) /\ T.run \in Runs /\ runs'[T.run].status # "none"
      BY <2>1, TaskKnows
    <2>3. CASE Goes(p, t) /\ \E c : changes' = Append(changes, c)
      <3>1. n \in 0..Len(changes') /\ n # 0 /\ zero \in Nat
        BY <2>3 DEF IInv, TypeOK, ChangesOK
      <3> HIDE DEF n, T, zero
      <3>2. b \in TaskRec(Len(changes')) /\ b.pc = "record" /\ b.run = T.run
        BY <1>a, <2>2, PcSet
      <3> HIDE DEF b
      <3>3. d \in TaskRec(Len(changes')) /\ d.pc = "record" /\ d.run = T.run
        BY <1>a, <3>1, <3>2, CommitSet
      <3> HIDE DEF d
      <3>4. t \in TaskRec(Len(changes')) /\ t.pc = "record" /\ t.run = T.run /\ t.n = n
        BY <1>a, <3>1, <3>3, NSet
      <3> HIDE DEF t
      <3>5. Good(t)
        BY <2>2, <3>1, <3>4, PlainGood DEF Approving, Holding
      <3> QED
        BY <2>3, <3>5, TaskMoves
    <2> QED
      BY <1>0, <2>1, <2>3
  <1>3. CASE PublishRecords(p) \/ PublishWaits(p) \/ PublishLeases(p)
    <2> DEFINE a == At("wait", T.run)
               t == [T EXCEPT !.pc = "lease"]
    <2>1. T.pc # "off" /\ (Goes(p, Off) \/ Goes(p, a) \/ Goes(p, t))
      BY <1>3 DEF PublishRecords, PublishWaits, PublishLeases, Step
    <2>2. T \in TaskRec(Len(changes')) /\ T.run \in Runs /\ runs'[T.run].status # "none"
      BY <2>1, TaskKnows
    <2> HIDE DEF T
    <2>3. a \in TaskRec(Len(changes')) /\ a.pc = "wait" /\ a.run = T.run
      BY <1>a, <2>2, AtIs DEF Pcs
    <2>4. t \in TaskRec(Len(changes')) /\ t.pc = "lease" /\ t.run = T.run
      BY <1>a, <2>2, PcSet
    <2> HIDE DEF a, t
    <2>5. Good(a) /\ Good(t)
      BY <2>2, <2>3, <2>4, PlainGood DEF Approving, Holding
    <2> QED
      BY <1>0, <2>1, <2>5, TaskMoves
  <1> QED
    BY <1>1, <1>2, <1>3 DEF Publish

\* The approval's steps.
LEMMA ApproveGood ==
  ASSUME IInv, ChangesGrow, RunsGrow, MainGrows, NEW p \in Everyone, Approve(p)
  PROVE  TasksOK' /\ TasksSound'
  <1> DEFINE T == task[p]
             c == changes[T.n]
             x == tip[T.n]
  <1>0. Goes(p, Off) => TasksOK' /\ TasksSound'
    BY OffGood, TaskMoves
  <1>a. /\ Len(changes') \in Nat /\ Approving \subseteq Pcs
        /\ "merged" \in Pcs /\ "publish" \in Pcs
    BY DEF ChangesGrow, Pcs, Approving
  <1>b. ASSUME T.pc \in Approving
        PROVE  /\ T \in TaskRec(Len(changes')) /\ T.run \in Runs /\ runs'[T.run].status # "none"
               /\ T.n \in 1..Len(changes) /\ T.n # 0 /\ Sound(T) /\ SoundNext(T)
               /\ c \in ChangeType /\ c.run = T.run /\ x \in SoundTip
               /\ changes'[T.n].run = T.run
               /\ c.state = "open" => AsRead(T, x)
               /\ changes'[T.n].state = "open" => AsRead(T, tip'[T.n])
    <2>1. T.pc # "off" /\ T.pc \in Holding
      BY <1>b DEF Approving, Holding
    <2>2. T \in TaskRec(Len(changes)) /\ Held(T) /\ Sound(T)
      BY TasksTyped DEF IInv, TasksSound
    <2>3. SoundNext(T)
      BY <2>2, SoundKeeps DEF IInv
    <2>4. /\ T \in TaskRec(Len(changes')) /\ T.run \in Runs /\ runs'[T.run].status # "none"
          /\ T.n \in 1..Len(changes)
      BY <2>1, TaskKnows
    <2>5. c \in ChangeType /\ x \in SoundTip
      BY <2>4, ChangesAre DEF IInv, ChangesKnown
    <2>6. /\ c.run = T.run /\ changes'[T.n].run = T.run
          /\ c.state = "open" => AsRead(T, x)
          /\ changes'[T.n].state = "open" => AsRead(T, tip'[T.n])
      BY <1>b, <2>2, <2>3 DEF Sound, SoundNext
    <2> QED
      BY <2>2, <2>3, <2>4, <2>5, <2>6
  <1>c. ASSUME NEW t \in TaskRec(Len(changes')), t.pc \in Approving, T.pc \in Approving,
               t.run = T.run, t.n = T.n, changes'[T.n].state = "open" => AsRead(t, tip'[T.n])
        PROVE  Good(t)
    <2>1. Held(t)
      BY <1>b, <1>c DEF Held, Approving, Holding
    <2>2. t.pc \notin {"end", "merged", "publish"}
      BY <1>c DEF Approving
    <2>3. SoundNext(t)
      BY <1>b, <1>c, <2>2 DEF SoundNext
    <2> QED
      BY <2>1, <2>3 DEF Good
  <1>1. CASE ApproveMerges(p)
    <2> DEFINE a == At("merged", c.run)
               t == [a EXCEPT !.commit = T.commit]
               u == [T EXCEPT !.pc = "update"]
               d == MergedBy(c, x, T)
    <2>1. /\ T.pc \in Approving
          /\ \/ Goes(p, Off) \/ Goes(p, u)
             \/ Goes(p, t) /\ c.state = "open" /\ Shut(T.n, d)
      BY <1>1 DEF ApproveMerges, Step, Approving
    <2>2. CASE Goes(p, u)
      <3>1. /\ u \in TaskRec(Len(changes')) /\ u.pc = "update" /\ u.run = T.run /\ u.n = T.n
            /\ u.commit = T.commit /\ u.read = T.read /\ u.pin = T.pin /\ u.pushes = T.pushes
            /\ u.list = T.list
        BY <1>a, <1>b, <2>1, PcSet DEF Approving
      <3> HIDE DEF u
      <3>2. changes'[T.n].state = "open" => AsRead(u, tip'[T.n])
        BY <1>b, <2>1, <3>1 DEF AsRead, Vouches, Lists
      <3>3. u.pc \in Approving
        BY <3>1 DEF Approving
      <3>4. Good(u)
        BY <1>c, <2>1, <3>1, <3>2, <3>3
      <3> QED
        BY <2>2, <3>4, TaskMoves
    <2>3. CASE Goes(p, t) /\ c.state = "open" /\ Shut(T.n, d)
      <3>1. c \in ChangeType /\ x \in SoundTip /\ c.run = T.run /\ AsRead(T, x) /\ T.run \in Runs
        BY <1>b, <2>1, <2>3
      <3>2. T.commit \in Nat
        BY <1>b, <2>1 DEF TaskRec
      <3>3. a \in TaskRec(Len(changes')) /\ a.pc = "merged" /\ a.run = T.run
        <4> HIDE DEF c
        <4>1. a \in TaskRec(Len(changes')) /\ a.pc = "merged" /\ a.run = c.run
          BY <1>a, <3>1, AtIs
        <4> QED
          BY <3>1, <4>1
      <3> HIDE DEF a
      <3>4. t \in TaskRec(Len(changes')) /\ t.pc = "merged" /\ t.run = T.run /\ t.commit = T.commit
        BY <1>a, <3>2, <3>3, CommitSet
      <3>5. Merged(d, T.run, T.commit) /\ d \in ChangeType
        <4> HIDE DEF c, x
        <4>1. /\ d \in ChangeType /\ d.run = c.run /\ d.state = "merged" /\ d.commit = x.commit
              /\ d.unread = (x.files[Manifest] # T.read[Manifest])
          BY <3>1, MergedIs
        <4> HIDE DEF d, T
        <4>2. x.files[Manifest] = T.read[Manifest] => x.commit = T.commit
          BY <3>1 DEF AsRead, Vouches
        <4> QED
          BY <3>1, <4>1, <4>2 DEF Merged
      <3>6. changes'[T.n] = d /\ T.n \in 1..Len(changes')
        BY <1>b, <2>1, <2>3, <3>5, ExceptSeq DEF Shut, IInv, TypeOK, ChangesOK
      <3> HIDE DEF t, d
      <3>7. Held(t) /\ SoundNext(t)
        BY <1>b, <2>1, <3>4, <3>5, <3>6 DEF Held, SoundNext, Approving, Holding
      <3> QED
        BY <2>3, <3>4, <3>7, TaskMoves DEF Good
    <2> QED
      BY <1>0, <2>1, <2>2, <2>3
  <1>2. CASE ApproveUpdates(p)
    <2> DEFINE u == [T EXCEPT !.pc = "head"]
    <2>1. T.pc \in Approving /\ (Goes(p, Off) \/ Goes(p, u))
      BY <1>2 DEF ApproveUpdates, Step, Approving
    <2>2. CASE Goes(p, u)
      <3>1. /\ u \in TaskRec(Len(changes')) /\ u.pc = "head" /\ u.run = T.run /\ u.n = T.n
            /\ u.commit = T.commit /\ u.read = T.read /\ u.pin = T.pin /\ u.pushes = T.pushes
            /\ u.list = T.list
        BY <1>a, <1>b, <2>1, PcSet DEF Approving
      <3> HIDE DEF u
      <3>2. changes'[T.n].state = "open" => AsRead(u, tip'[T.n])
        BY <1>b, <2>1, <3>1 DEF AsRead, Vouches, Lists
      <3>3. u.pc \in Approving
        BY <3>1 DEF Approving
      <3>4. Good(u)
        BY <1>c, <2>1, <3>1, <3>2, <3>3
      <3> QED
        BY <2>2, <3>4, TaskMoves
    <2> QED
      BY <1>0, <2>1, <2>2
  <1>3. CASE ApproveHeads(p)
    <2> DEFINE D == { f \in Files : x.files[f] # T.read[f] }
               b == [T EXCEPT !.pc = "compare"]
               s == x.sha
               e == [b EXCEPT !.pin = s]
               t == [e EXCEPT !.differ = D]
    <2>1. T.pc \in Approving /\ Goes(p, t) /\ changes' = changes /\ tip' = tip
      BY <1>3 DEF ApproveHeads, Approving, forge
    <2>2. D \in FileSets /\ s \in Nat /\ "compare" \in Pcs
      BY <1>b, <2>1 DEF SoundTip, TipType, Pcs, FileSets
    <2>3. b \in TaskRec(Len(changes')) /\ b.pc = "compare" /\ b.run = T.run /\ b.n = T.n
          /\ b.commit = T.commit /\ b.read = T.read /\ b.pushes = T.pushes /\ b.list = T.list
      BY <1>a, <1>b, <2>1, <2>2, PcSet
    <2> HIDE DEF b, s
    <2>4. e \in TaskRec(Len(changes')) /\ e.pc = "compare" /\ e.run = T.run /\ e.n = T.n
          /\ e.commit = T.commit /\ e.read = T.read /\ e.pushes = T.pushes /\ e.list = T.list
          /\ e.pin = s
      BY <1>a, <2>2, <2>3, PinSet
    <2> HIDE DEF e
    <2>5. t \in TaskRec(Len(changes')) /\ t.pc = "compare" /\ t.run = T.run /\ t.n = T.n
          /\ t.commit = T.commit /\ t.read = T.read /\ t.pushes = T.pushes /\ t.list = T.list
          /\ t.pin = s /\ t.differ = D
      <3> HIDE DEF D
      <3> QED
        BY <1>a, <2>2, <2>4, DifferSet
    <2> HIDE DEF t
    <2>6. ASSUME AsRead(T, x)
          PROVE  AsRead(t, x)
      BY <2>2, <2>5, <2>6 DEF AsRead, Vouches, Lists, s
    <2>7. t.pc \in Approving
      BY <2>5 DEF Approving
    <2>8. Good(t)
      BY <1>b, <1>c, <2>1, <2>5, <2>6, <2>7
    <2> QED
      BY <2>1, <2>8, TaskMoves
  <1>6. CASE ApproveCompares(p)
    <2> DEFINE b == [T EXCEPT !.pc = "merge"]
               l == x.listed
               t == [b EXCEPT !.list = l]
    <2>1. /\ T.pc = "compare" /\ T.pc \in Approving /\ changes' = changes /\ tip' = tip
          /\ Goes(p, Off) \/ (Goes(p, t) /\ x.listed \cap T.differ = {})
      BY <1>6 DEF ApproveCompares, Approving, forge
    <2>2. CASE Goes(p, t) /\ x.listed \cap T.differ = {}
      <3>1. l \in FileSets /\ "merge" \in Pcs
        BY <1>b, <2>1 DEF SoundTip, TipType, Pcs, FileSets
      <3>2. b \in TaskRec(Len(changes')) /\ b.pc = "merge" /\ b.run = T.run /\ b.n = T.n
            /\ b.commit = T.commit /\ b.read = T.read /\ b.pin = T.pin /\ b.pushes = T.pushes
        BY <1>a, <1>b, <2>1, <3>1, PcSet
      <3> HIDE DEF b, l
      <3>3. t \in TaskRec(Len(changes')) /\ t.pc = "merge" /\ t.run = T.run /\ t.n = T.n
            /\ t.commit = T.commit /\ t.read = T.read /\ t.pin = T.pin /\ t.pushes = T.pushes
            /\ t.list = l
        BY <1>a, <3>1, <3>2, ListSet
      <3> HIDE DEF t
      <3>4. ASSUME AsRead(T, x)
            PROVE  AsRead(t, x)
        <4>1. x.sha = T.pin => \A f \in t.list : x.files[f] = T.read[f]
          BY <2>1, <2>2, <3>1, <3>3, <3>4 DEF AsRead, Vouches, FileSets, l
        <4>2. Vouches(t, x)
          BY <3>3, <3>4, <4>1 DEF AsRead, Vouches
        <4>3. Lists(t, x)
          BY <3>3, <3>4 DEF AsRead, Lists, l
        <4> QED
          BY <4>2, <4>3 DEF AsRead
      <3>5. t.pc \in Approving
        BY <3>3 DEF Approving
      <3>6. Good(t)
        BY <1>b, <1>c, <2>1, <3>3, <3>4, <3>5
      <3> QED
        BY <2>2, <3>6, TaskMoves
    <2> QED
      BY <1>0, <2>1, <2>2
  <1>4. CASE ApplicationMerges(p)
    <2> DEFINE a == At("publish", T.run)
    <2>1. T.pc = "merged" /\ (Goes(p, Off) \/ (Goes(p, a) /\ \E m \in appMain' : m.run = T.run))
      <3> DEFINE m == [run |-> T.run, commit |-> head[T.run]]
      <3>1. T.pc = "merged" /\ (Goes(p, Off) \/ (Goes(p, a) /\ m \in appMain'))
        BY <1>4 DEF ApplicationMerges
      <3>2. m.run = T.run
        OBVIOUS
      <3> HIDE DEF m
      <3> QED
        BY <3>1, <3>2
    <2>2. T.run \in Runs /\ runs'[T.run].status # "none"
      BY <2>1, TaskKnows
    <2>3. a \in TaskRec(Len(changes')) /\ a.pc = "publish" /\ a.run = T.run
      BY <1>a, <2>2, AtIs
    <2> HIDE DEF a
    <2>4. CASE Goes(p, a) /\ \E m \in appMain' : m.run = T.run
      <3>1. Held(a) /\ SoundNext(a)
        BY <2>2, <2>3, <2>4 DEF Held, SoundNext, Approving, Holding
      <3> QED
        BY <2>3, <2>4, <3>1, TaskMoves DEF Good
    <2> QED
      BY <1>0, <2>1, <2>4
  <1>5. CASE RunPublished(p)
    BY <1>0, <1>5 DEF RunPublished
  <1> QED
    BY <1>1, <1>2, <1>3, <1>4, <1>5, <1>6 DEF Approve

\* Rejecting, and the end of a run.
LEMMA EndGood ==
  ASSUME IInv, ChangesGrow, RunsGrow, MainGrows, NEW p \in Everyone, RejectCloses(p) \/ End(p)
  PROVE  TasksOK' /\ TasksSound'
  <1> DEFINE T == task[p]
  <1>0. Goes(p, Off) => TasksOK' /\ TasksSound'
    BY OffGood, TaskMoves
  <1>a. /\ Len(changes') \in Nat /\ "rejected" \in Pcs /\ "ticket" \in Pcs /\ "end" \in Pcs
        /\ "cancelled" \in Tos
    BY DEF ChangesGrow, Pcs, Tos
  <1>1. CASE RejectCloses(p)
    <2> DEFINE t == [T EXCEPT !.pc = "rejected"]
    <2>1. T.pc = "close" /\ (Goes(p, Off) \/ Goes(p, t))
      BY <1>1 DEF RejectCloses, Step
    <2>2. T \in TaskRec(Len(changes')) /\ T.run \in Runs /\ runs'[T.run].status # "none" /\ T.n # 0
      BY <2>1, TaskKnows DEF Holding
    <2> HIDE DEF T
    <2>3. t \in TaskRec(Len(changes')) /\ t.pc = "rejected" /\ t.run = T.run /\ t.n = T.n
      BY <1>a, <2>2, PcSet
    <2> HIDE DEF t
    <2>4. Good(t)
      BY <2>2, <2>3, PlainGood DEF Approving
    <2> QED
      BY <1>0, <2>1, <2>4, TaskMoves
  <1>2. CASE RejectedReads(p)
    <2> DEFINE a == At("ticket", T.run)
               t == [a EXCEPT !.to = "cancelled"]
    <2>1. T.pc = "rejected" /\ (Goes(p, Off) \/ Goes(p, t))
      BY <1>2 DEF RejectedReads
    <2>2. T.run \in Runs /\ runs'[T.run].status # "none"
      BY <2>1, TaskKnows
    <2> HIDE DEF T
    <2>3. a \in TaskRec(Len(changes')) /\ a.pc = "ticket" /\ a.run = T.run
      BY <1>a, <2>2, AtIs
    <2> HIDE DEF a
    <2>4. t \in TaskRec(Len(changes')) /\ t.pc = "ticket" /\ t.run = T.run /\ t.to = "cancelled"
      BY <1>a, <2>3, ToSet
    <2> HIDE DEF t
    <2>5. Good(t)
      BY <2>2, <2>4, PlainGood DEF Approving, Holding
    <2> QED
      BY <1>0, <2>1, <2>5, TaskMoves
  <1>3. CASE EndTicket(p)
    <2> DEFINE t == [T EXCEPT !.pc = "end"]
    <2>1. T.pc = "ticket" /\ (Goes(p, Off) \/ (Goes(p, t) /\ runs' = [runs EXCEPT ![T.run].ticket = FALSE]))
      BY <1>3 DEF EndTicket, Step
    <2>2. /\ T \in TaskRec(Len(changes')) /\ T.run \in Runs /\ runs'[T.run].status # "none"
          /\ T.to \in {"cancelled", "expired"}
      BY <2>1, TaskKnows
    <2>3. CASE Goes(p, t) /\ runs' = [runs EXCEPT ![T.run].ticket = FALSE]
      <3>1. ~runs'[T.run].ticket
        BY <2>2, <2>3, RunsTyped DEF IInv, RunSet
      <3> HIDE DEF T
      <3>2. t \in TaskRec(Len(changes')) /\ t.pc = "end" /\ t.run = T.run /\ t.to = T.to
        BY <1>a, <2>2, PcSet
      <3> HIDE DEF t
      <3>3. Held(t) /\ SoundNext(t)
        BY <2>2, <3>1, <3>2 DEF Held, SoundNext, Approving, Holding
      <3> QED
        BY <2>3, <3>2, <3>3, TaskMoves DEF Good
    <2> QED
      BY <1>0, <2>1, <2>3
  <1>4. CASE EndStatus(p)
    BY <1>0, <1>4 DEF EndStatus
  <1> QED
    BY <1>1, <1>2, <1>3, <1>4 DEF End

\* The reaper takes up a run.
LEMMA ReapGood ==
  ASSUME IInv, ChangesGrow, RunsGrow, MainGrows, Reap, ~End(Reaper), task' # task
  PROVE  TasksOK' /\ TasksSound'
  <1>a. /\ Len(changes') \in Nat /\ "rejected" \in Pcs /\ "ticket" \in Pcs
        /\ "expired" \in Tos /\ Reaper \in Everyone
    BY DEF ChangesGrow, Pcs, Tos, Everyone
  <1>b. ASSUME NEW e \in reaper
        PROVE  e.run \in Runs /\ e.n \in 0..Len(changes') /\ runs'[e.run].status # "none"
    <2>1. e \in [run : Runs, n : 0..Len(changes)]
      BY DEF IInv, TypeOK, ReaperOK
    <2>2. runs[e.run].status # "none"
      BY DEF IInv, TodoStarted
    <2>3. Len(changes) \in Nat /\ Len(changes') >= Len(changes)
      BY DEF IInv, TypeOK, ChangesOK, ChangesGrow
    <2> QED
      BY <1>a, <2>1, <2>2, <2>3 DEF RunsGrow, RunMay
  <1>1. CASE ReapEnds
    <2>1. PICK e \in reaper : Goes(Reaper, [At("ticket", e.run) EXCEPT !.to = "expired"])
      BY <1>1 DEF ReapEnds
    <2> DEFINE a == At("ticket", e.run)
               t == [a EXCEPT !.to = "expired"]
    <2>2. a \in TaskRec(Len(changes')) /\ a.pc = "ticket" /\ a.run = e.run
      BY <1>a, <1>b, AtIs
    <2>3. Goes(Reaper, t)
      BY <2>1
    <2> HIDE DEF a
    <2>4. t \in TaskRec(Len(changes')) /\ t.pc = "ticket" /\ t.run = e.run /\ t.to = "expired"
      BY <1>a, <2>2, ToSet
    <2> HIDE DEF t
    <2>5. Good(t)
      BY <1>b, <2>4, PlainGood DEF Approving, Holding
    <2> QED
      BY <1>a, <2>3, <2>5, TaskMoves
  <1>2. CASE ReapAsks
    <2>1. PICK e \in reaper : e.n # 0 /\ Goes(Reaper, [At("rejected", e.run) EXCEPT !.n = e.n])
      BY <1>2 DEF ReapAsks
    <2> DEFINE a == At("rejected", e.run)
               t == [a EXCEPT !.n = e.n]
    <2>2. a \in TaskRec(Len(changes')) /\ a.pc = "rejected" /\ a.run = e.run
      BY <1>a, <1>b, AtIs
    <2>3. Goes(Reaper, t)
      BY <2>1
    <2> HIDE DEF a
    <2>4. t \in TaskRec(Len(changes')) /\ t.pc = "rejected" /\ t.run = e.run /\ t.n = e.n
      BY <1>a, <1>b, <2>2, NSet
    <2> HIDE DEF t
    <2>5. Good(t)
      BY <1>b, <2>1, <2>4, PlainGood DEF Approving, Holding
    <2> QED
      BY <1>a, <2>3, <2>5, TaskMoves
  <1> QED
    BY <1>1, <1>2 DEF Reap, ReapLists, ReapLooks

LEMMA TasksStep ==
  ASSUME IInv, ChangesGrow, RunsGrow, MainGrows, [Next]_vars
  PROVE  TasksOK' /\ TasksSound'
  <1>1. ASSUME NEW r \in Runs, Create(r) \/ Commit(r) \/ Drive(r) \/ DriverFails(r) \/ Passes(r)
        PROVE  UNCHANGED task
    BY <1>1 DEF Create, Commit, Drive, DriverFails, Passes, Previews, DriverWaits, DriverLeases,
                Deadline, DriverExpires, DriverStops, actors
  <1>2. ASSUME NEW n \in Numbers, Outside(n)
        PROVE  UNCHANGED task
    BY <1>2 DEF Outside, Edit, Close, Refresh, MainMoves, actors
  <1>3. CASE Reap
    <2>1. CASE End(Reaper)
      BY <2>1, EndGood DEF Everyone
    <2>2. CASE ~End(Reaper)
      BY <1>3, <2>2, ReapGood, TasksStay
    <2> QED
      BY <2>1, <2>2
  <1>4. CASE Restart
    <2>1. task \in [Everyone -> TaskRec(Len(changes))]
      BY TasksTyped DEF IInv
    <2>2. task' = [p \in Everyone |-> Off]
      BY <1>4, <2>1 DEF Restart
    <2>3. Good(Off)
      BY OffGood
    <2>4. task' \in [Everyone -> TaskRec(Len(changes'))] /\ \A q \in Everyone : Good(task'[q])
      BY <2>2, <2>3 DEF Good
    <2> QED
      BY <2>4, TasksFrom
  <1>5. ASSUME NEW p \in People, Handles(p)
        PROVE  TasksOK' /\ TasksSound'
    BY <1>5, PublishGood, ApproveGood, EndGood DEF Handles, Everyone
  <1>6. CASE UNCHANGED vars
    BY <1>6, TasksStay DEF vars
  <1> QED
    BY <1>1, <1>2, <1>3, <1>4, <1>5, <1>6, AskedGood, TasksStay DEF Next, Outside

-----------------------------------------------------------------------------
(* The other variables.                                                    *)

\* Only the merge of an approved commit touches the application's main.
LEMMA MainBy ==
  ASSUME Next
  PROVE  UNCHANGED appMain \/ \E p \in People : ApplicationMerges(p)
  <1>1. ASSUME NEW r \in Runs, Create(r) \/ Commit(r) \/ Drive(r) \/ DriverFails(r) \/ Passes(r)
        PROVE  UNCHANGED appMain
    BY <1>1 DEF Create, Commit, Drive, DriverFails, Passes, Previews, DriverWaits, DriverLeases,
                Deadline, DriverExpires, DriverStops, forge
  <1>2. CASE Asked
    BY <1>2 DEF Asked, PublishReads, Cancel, ApproveReads, RejectReads, forge
  <1>3. ASSUME NEW p, End(p)
        PROVE  UNCHANGED appMain
    BY <1>3 DEF End, RejectedReads, EndTicket, EndStatus, forge
  <1>4. ASSUME NEW p \in People, Publish(p) \/ RejectCloses(p)
        PROVE  UNCHANGED appMain
    BY <1>4 DEF Publish, PublishSource, PublishProposes, PublishRecords, PublishWaits, PublishLeases,
                RejectCloses, forge
  <1>5. ASSUME NEW p \in People, Approve(p)
        PROVE  UNCHANGED appMain \/ ApplicationMerges(p)
    BY <1>5 DEF Approve, ApproveMerges, ApproveUpdates, ApproveHeads, ApproveCompares, RunPublished, forge
  <1>6. CASE Reap
    BY <1>6, <1>3 DEF Reap, ReapLists, ReapEnds, ReapLooks, ReapAsks, forge
  <1>7. CASE Restart
    BY <1>7 DEF Restart, forge
  <1>8. ASSUME NEW n \in Numbers, Outside(n)
        PROVE  UNCHANGED appMain
    BY <1>8 DEF Outside, Edit, Close, Refresh, MainMoves
  <1> QED
    BY <1>1, <1>2, <1>3, <1>4, <1>5, <1>6, <1>7, <1>8 DEF Next, Handles, Outside

\* What comes into the application's main: a commit its request found approved.
LEMMA MainStep ==
  ASSUME IInv, [Next]_vars
  PROVE  /\ MainGrows
         /\ \A m \in appMain' \ appMain :
               m \in [run : Runs, commit : Nat] /\ Approved(m.run, m.commit)
  <1>1. CASE UNCHANGED appMain
    BY <1>1 DEF MainGrows
  <1>2. ASSUME NEW p \in People, ApplicationMerges(p), ~UNCHANGED appMain
        PROVE  /\ MainGrows
               /\ \A m \in appMain' \ appMain :
                     m \in [run : Runs, commit : Nat] /\ Approved(m.run, m.commit)
    <2> DEFINE r == task[p].run
               m == [run |-> r, commit |-> head[r]]
    <2>1. /\ task[p].pc = "merged" /\ head[r] = task[p].commit /\ appMain' = appMain \cup {m}
      BY <1>2 DEF ApplicationMerges, MergeablePublished
    <2>2. Approved(r, task[p].commit)
      BY <2>1 DEF IInv, TasksSound, Sound, Everyone
    <2>3. r \in Runs /\ task[p].commit \in Nat
      BY <2>1, TaskAt DEF IInv, Everyone
    <2>4. m \in [run : Runs, commit : Nat] /\ m.run = r /\ m.commit = task[p].commit
      BY <2>1, <2>3
    <2>5. Approved(m.run, m.commit)
      BY <2>2, <2>4
    <2> HIDE DEF m
    <2> QED
      BY <2>1, <2>4, <2>5 DEF MainGrows
  <1> QED
    BY <1>1, <1>2, MainBy DEF vars

\* The reaper's list names runs that were created.
LEMMA ReaperStep ==
  ASSUME IInv, ChangesGrow, RunsGrow, [Next]_vars
  PROVE  ReaperOK' /\ TodoStarted'
  <1> DEFINE Entry(k) == [run : Runs, n : 0..k]
  <1>0. /\ Len(changes) \in Nat /\ Len(changes') \in Nat /\ Len(changes') >= Len(changes)
        /\ Entry(Len(changes)) \subseteq Entry(Len(changes'))
    BY DEF IInv, TypeOK, ChangesOK, ChangesGrow
  <1>a. \A r \in Runs : runs[r].status # "none" => runs'[r].status # "none"
    BY DEF RunsGrow, RunMay
  <1>b. \A t \in reaper : t \in Entry(Len(changes)) /\ t.run \in Runs /\ runs[t.run].status # "none"
    BY DEF IInv, TypeOK, ReaperOK, TodoStarted
  <1>1. ASSUME reaper' \subseteq reaper
        PROVE  ReaperOK' /\ TodoStarted'
    <2>1. reaper' \subseteq Entry(Len(changes'))
      BY <1>0, <1>b, <1>1
    <2>2. \A t \in reaper' : runs'[t.run].status # "none"
      BY <1>a, <1>b, <1>1
    <2> QED
      BY <2>1, <2>2 DEF ReaperOK, TodoStarted
  <1>2. ASSUME UNCHANGED reaper
        PROVE  ReaperOK' /\ TodoStarted'
    BY <1>1, <1>2
  <1>3. CASE ReapLists
    <2> DEFINE S == { s \in Runs : runs[s].status \in Live /\ Due(s) }
               E == { [run |-> r, n |-> 0] : r \in S }
    <2>1. reaper' = E /\ runs' = runs
      BY <1>3 DEF ReapLists
    <2>2. \A t \in E : t \in Entry(Len(changes')) /\ t.run \in Runs /\ runs[t.run].status # "none"
      BY <1>0 DEF Live
    <2> HIDE DEF E
    <2> QED
      BY <2>1, <2>2 DEF ReaperOK, TodoStarted
  <1>4. CASE ReapLooks
    <2> DEFINE E == { [run |-> r, n |-> runs[r].change] : r \in Waiting }
    <2>1. reaper' = E /\ runs' = runs
      BY <1>4 DEF ReapLooks
    <2>2. \A r \in Runs : runs[r].change \in 0..Len(changes')
      BY <1>0 DEF IInv, TypeOK, RunsOK
    <2>3. \A t \in E : t \in Entry(Len(changes')) /\ t.run \in Runs /\ runs[t.run].status # "none"
      BY <2>2 DEF Waiting
    <2> HIDE DEF E
    <2> QED
      BY <2>1, <2>3 DEF ReaperOK, TodoStarted
  <1>5. CASE ReapEnds \/ ReapAsks
    <2>1. reaper' \subseteq reaper
      BY <1>5 DEF ReapEnds, ReapAsks
    <2> QED
      BY <1>1, <2>1
  <1>6. CASE Restart
    BY <1>1, <1>6 DEF Restart
  <1>7. ASSUME NEW p, Handles(p)
        PROVE  UNCHANGED reaper
    BY <1>7 DEF Handles, Publish, PublishSource, PublishProposes, PublishRecords, PublishWaits,
                PublishLeases, Approve, ApproveMerges, ApproveUpdates, ApproveHeads, ApproveCompares,
                ApplicationMerges, RunPublished, RejectCloses, End, RejectedReads, EndTicket, EndStatus
  <1>8. CASE Asked
    BY <1>2, <1>8 DEF Asked, PublishReads, Cancel, ApproveReads, RejectReads
  <1>9. ASSUME NEW r \in Runs, Create(r) \/ Commit(r) \/ Drive(r) \/ DriverFails(r) \/ Passes(r)
        PROVE  UNCHANGED reaper
    BY <1>9 DEF Create, Commit, Drive, DriverFails, Passes, Previews, DriverWaits, DriverLeases,
                Deadline, DriverExpires, DriverStops, actors
  <1>10. ASSUME NEW n \in Numbers, Outside(n)
        PROVE  UNCHANGED reaper
    BY <1>10 DEF Outside, Edit, Close, Refresh, MainMoves, actors
  <1>11. End(Reaper) => UNCHANGED reaper
    BY <1>7 DEF Handles
  <1>12. CASE UNCHANGED vars
    BY <1>2, <1>12 DEF vars
  <1> QED
    BY <1>2, <1>3, <1>4, <1>5, <1>6, <1>7, <1>8, <1>9, <1>10, <1>11, <1>12 DEF Next, Reap, Outside

LEMMA FaultTyped ==
  ASSUME faults \in Nat, UNCHANGED faults \/ Fault
  PROVE  faults' \in Nat
  BY DEF Fault

\* clock, driver, head, pull and faults.
LEMMA RestStep ==
  ASSUME IInv, [Next]_vars
  PROVE  RestOK'
  <1> DEFINE D == {"off", "build", "wait", "lease", "loop", "expire"}
             Plain == /\ clock' \in [Runs -> 0..2] /\ driver' \in [Runs -> D] /\ head' \in [Runs -> Nat]
                      /\ pull' \in [Runs -> {"none", "open", "merged"}] /\ faults' \in Nat
  <1>0. /\ clock \in [Runs -> 0..2] /\ driver \in [Runs -> D] /\ head \in [Runs -> Nat]
        /\ pull \in [Runs -> {"none", "open", "merged"}] /\ faults \in Nat
        /\ appMain \subseteq [run : Runs, commit : Nat]
    BY DEF IInv, TypeOK, RestOK
  <1>1. ASSUME NEW r \in Runs, Create(r) \/ Drive(r) \/ DriverFails(r)
        PROVE  Plain
    <2>1. UNCHANGED <<clock, head, pull>> /\ (UNCHANGED faults \/ Fault)
      BY <1>1 DEF Create, Drive, DriverFails, Previews, DriverWaits, DriverLeases, Deadline,
                  DriverExpires, DriverStops, forge
    <2>2. \E d \in D : driver' = [driver EXCEPT ![r] = d]
      BY <1>1 DEF Create, Drive, DriverFails, Previews, DriverWaits, DriverLeases, Deadline,
                  DriverExpires, DriverStops
    <2> QED
      BY <1>0, <2>1, <2>2, FaultTyped
  <1>2. ASSUME NEW r \in Runs, Commit(r)
        PROVE  Plain
    BY <1>0, <1>2 DEF Commit, actors
  <1>3. ASSUME NEW r \in Runs, Passes(r)
        PROVE  Plain
    <2>1. UNCHANGED <<driver, head, pull, faults>> /\ clock' = [clock EXCEPT ![r] = clock[r] + 1]
          /\ clock[r] \in 0..1
      BY <1>3 DEF Passes, actors, forge
    <2> QED
      BY <1>0, <2>1
  <1>4. ASSUME Asked
        PROVE  Plain
    BY <1>0, <1>4 DEF Asked, PublishReads, Cancel, ApproveReads, RejectReads, forge
  <1>5. ASSUME NEW p, End(p)
        PROVE  Plain
    <2>1. UNCHANGED <<clock, driver, head, pull>> /\ (UNCHANGED faults \/ Fault)
      BY <1>5 DEF End, RejectedReads, EndTicket, EndStatus, forge
    <2> QED
      BY <1>0, <2>1, FaultTyped
  <1>6. ASSUME NEW p \in People, Publish(p) \/ Approve(p) \/ RejectCloses(p)
        PROVE  Plain
    <2>1. /\ UNCHANGED <<clock, driver, head>> /\ (UNCHANGED faults \/ Fault)
          /\ \/ UNCHANGED pull
             \/ pull' = [pull EXCEPT ![task[p].run] = "open"]
             \/ pull' = [pull EXCEPT ![task[p].run] = "merged"]
      BY <1>6 DEF Publish, PublishSource, PublishProposes, PublishRecords, PublishWaits, PublishLeases,
                  Approve, ApproveMerges, ApproveUpdates, ApproveHeads, ApproveCompares, ApplicationMerges,
                  RunPublished, RejectCloses, forge
    <2> QED
      BY <1>0, <2>1, FaultTyped
  <1>7. ASSUME Reap
        PROVE  Plain
    <2>1. CASE End(Reaper)
      BY <1>5, <2>1
    <2>2. CASE ~End(Reaper)
      <3>1. UNCHANGED <<clock, driver, head, pull>> /\ (UNCHANGED faults \/ Fault)
        BY <1>7, <2>2 DEF Reap, ReapLists, ReapEnds, ReapLooks, ReapAsks, forge
      <3> QED
        BY <1>0, <3>1, FaultTyped
    <2> QED
      BY <2>1, <2>2
  <1>8. ASSUME Restart
        PROVE  Plain
    <2>1. UNCHANGED <<clock, head, pull>> /\ Fault /\ driver' = [r \in Runs |-> "off"]
      BY <1>8 DEF Restart, forge
    <2> QED
      BY <1>0, <2>1, FaultTyped
  <1>9. ASSUME NEW n \in Numbers, Outside(n)
        PROVE  Plain
    <2>1. UNCHANGED <<clock, driver, head, pull, faults>>
      BY <1>9 DEF Outside, Edit, Close, Refresh, MainMoves, actors
    <2> QED
      BY <1>0, <2>1
  <1>10. ASSUME UNCHANGED vars
        PROVE  Plain
    BY <1>0, <1>10 DEF vars
  <1>11. Plain
    BY <1>1, <1>2, <1>3, <1>4, <1>5, <1>6, <1>7, <1>8, <1>9, <1>10 DEF Next, Handles, Outside
  <1>12. appMain' \subseteq [run : Runs, commit : Nat]
    BY <1>0, MainStep
  <1> QED
    BY <1>11, <1>12 DEF RestOK

\* A new Change is of a run that was created.
LEMMA StartedStep ==
  ASSUME IInv, ChangesGrow, RunsGrow, [Next]_vars
  PROVE  ChangesStarted'
  <1>0. /\ ChangesKnown /\ changes \in Seq(ChangeType) /\ Len(changes) \in Nat
        /\ \A r \in Runs : runs[r].status # "none" => runs'[r].status # "none"
    BY ChangesAre DEF IInv, ChangesKnown, RunsGrow, RunMay
  <1>1. \A n \in 1..Len(changes) : runs'[changes'[n].run].status # "none"
    <2> TAKE n \in 1..Len(changes)
    <2>1. changes'[n].run = changes[n].run /\ changes[n].run \in Runs
      BY <1>0 DEF ChangesGrow, ChangesKnown
    <2>2. runs[changes[n].run].status # "none"
      BY DEF IInv, ChangesStarted, Numbers
    <2> QED
      BY <1>0, <2>1, <2>2
  <1>2. CASE Len(changes') = Len(changes)
    BY <1>1, <1>2 DEF ChangesStarted, Numbers
  <1>3. ASSUME NEW p \in People, PublishProposes(p)
        PROVE  ChangesStarted'
    <2> DEFINE c == Opened(task[p].run)
    <2>1. task[p].pc = "propose" /\ (UNCHANGED changes \/ changes' = Append(changes, c))
      BY <1>3 DEF PublishProposes, Opened
    <2>2. c.run \in Runs /\ runs'[c.run].status # "none" /\ c \in ChangeType
      BY <2>1, TaskKnows, OpenedIs DEF Everyone
    <2> HIDE DEF c
    <2>3. CASE changes' = Append(changes, c)
      <3>1. Len(changes') = Len(changes) + 1 /\ changes'[Len(changes) + 1] = c
        BY <1>0, <2>2, <2>3, AppendProperties
      <3> QED
        BY <1>0, <1>1, <2>2, <3>1 DEF ChangesStarted, Numbers
    <2> QED
      BY <1>2, <2>1, <2>3
  <1>4. ASSUME NEW n, NEW c, Shut(n, c)
        PROVE  Len(changes') = Len(changes)
    BY <1>0, <1>4 DEF Shut, ChangesGrow
  <1>5. ASSUME NEW p \in People, ApproveMerges(p) \/ ApproveUpdates(p) \/ RejectCloses(p)
        PROVE  Len(changes') = Len(changes)
    BY <1>4, <1>5 DEF ApproveMerges, ApproveUpdates, RejectCloses
  <1>6. ASSUME NEW n \in Numbers, Outside(n)
        PROVE  Len(changes') = Len(changes)
    BY <1>0, <1>6, OutsideGrows DEF IInv
  <1>7. CASE UNCHANGED changes
    BY <1>2, <1>7
  <1> QED
    BY <1>2, <1>3, <1>5, <1>6, <1>7, ChangesBy DEF vars

-----------------------------------------------------------------------------
(* The invariant, and what follows from it.                                *)

LEMMA PublishedStep ==
  ASSUME IInv, ChangesGrow, RunsGrow, [Next]_vars
  PROVE  PublishedIsApproved'
  <1>1. \A m \in appMain' : Approved(m.run, m.commit)
    BY MainStep DEF IInv, PublishedIsApproved, Approved, Merged
  <1>2. \A m \in appMain' : \E n \in 1..Len(changes') : Merged(changes'[n], m.run, m.commit)
    BY <1>1, ApprovedStays DEF IInv
  <1>3. ASSUME NEW r \in Runs, runs'[r].status = "published"
        PROVE  \E m \in appMain' : m.run = r
    <2>1. CASE runs[r].status = "published"
      BY <2>1, MainStep DEF IInv, PublishedIsApproved, MainGrows
    <2>2. CASE runs[r].status # "published"
      <3>1. PICK p \in Everyone : task[p].pc = "publish" /\ task[p].run = r
        BY <1>3, <2>2 DEF RunsGrow, RunMay
      <3>2. \E m \in appMain : m.run = r
        BY <3>1 DEF IInv, TasksSound, Sound, InMain
      <3> QED
        BY <3>2, MainStep DEF MainGrows
    <2> QED
      BY <2>1, <2>2
  <1> QED
    BY <1>2, <1>3 DEF PublishedIsApproved, Numbers, Merged

LEMMA CancelledStep ==
  ASSUME IInv, RunsGrow
  PROVE  CancelledHasNoTicket'
  <1> SUFFICES ASSUME NEW r \in Runs, runs'[r].status = "cancelled"
               PROVE  ~runs'[r].ticket
    BY DEF CancelledHasNoTicket
  <1>1. CASE runs[r].status = "cancelled" /\ runs'[r].ticket = runs[r].ticket
    BY <1>1 DEF IInv, CancelledHasNoTicket
  <1>2. ASSUME NEW p \in Everyone, task[p].pc = "end", task[p].run = r, runs'[r].ticket = runs[r].ticket
        PROVE  ~runs'[r].ticket
    BY <1>2 DEF IInv, TasksSound, Sound
  <1> QED
    BY <1>1, <1>2 DEF RunsGrow, RunMay

LEMMA Initially ==
  ASSUME Init
  PROVE  IInv
  <1>0. Len(changes) = 0 /\ changes = <<>>
    BY DEF Init
  <1>a. TipsSound /\ tip \in [1..MaxChanges -> TipType]
    BY NoTipSound DEF Init, TipsSound, SoundTip
  <1>1. ChangesOK
    BY <1>0, <1>a, BoundsAssumption DEF ChangesOK
  <1>2. RunsOK
    BY <1>0 DEF Init, RunsOK
  <1>3. /\ task = [p \in Everyone |-> Off] /\ Off \in TaskRec(Len(changes)) /\ Off.pc = "off"
    BY <1>0, OffIs DEF Init, Everyone
  <1>4. task \in [Everyone -> TaskRec(Len(changes))] /\ \A p \in Everyone : task[p].pc = "off"
    BY <1>3
  <1>5. TasksOK
    BY <1>4 DEF TasksOK, Everyone, TaskRec, FileSets, Tos
  <1>6. ReaperOK /\ TodoStarted
    BY DEF Init, ReaperOK, TodoStarted
  <1>7. RestOK
    BY DEF Init, RestOK
  <1>8. TasksSound
    BY <1>4 DEF TasksSound, Sound, Approving
  <1>9. ChangesStarted
    BY <1>0 DEF ChangesStarted, Numbers
  <1>10. PublishedIsApproved /\ CancelledHasNoTicket
    BY DEF Init, PublishedIsApproved, CancelledHasNoTicket
  <1> QED
    BY <1>1, <1>2, <1>5, <1>6, <1>7, <1>8, <1>9, <1>10, <1>a DEF IInv, TypeOK

LEMMA Inductive ==
  ASSUME IInv, [Next]_vars
  PROVE  IInv' /\ ChangesGrow
  <1>1. ChangesGrow
    BY ChangesStep DEF IInv
  <1>2. RunsGrow
    BY <1>1, RunsStep DEF IInv
  <1>3. MainGrows
    BY MainStep
  <1>4. TasksOK' /\ TasksSound'
    BY <1>1, <1>2, <1>3, TasksStep
  <1>5. ReaperOK' /\ TodoStarted'
    BY <1>1, <1>2, ReaperStep
  <1>6. RestOK'
    BY RestStep
  <1>7. RunsOK'
    BY <1>2 DEF RunsOK, RunsGrow, RunSet, Statuses
  <1>8. ChangesStarted' /\ PublishedIsApproved' /\ CancelledHasNoTicket'
    BY <1>1, <1>2, StartedStep, PublishedStep, CancelledStep
  <1>9. ChangesOK' /\ TipsSound'
    BY <1>1 DEF ChangesGrow, ChangesOK, TipsSound, SoundTip
  <1> QED
    BY <1>1, <1>4, <1>5, <1>6, <1>7, <1>8, <1>9 DEF IInv, TypeOK

\* The inductive invariant holds of every behaviour of the publication: requests of any number of
\* owners and approvers, drivers, the reaper, restarts and failed calls.
THEOREM Invariant == Spec => []IInv
  <1>1. Init => IInv
    BY Initially
  <1>2. IInv /\ [Next]_vars => IInv'
    BY Inductive
  <1> QED
    BY <1>1, <1>2, PTL DEF Spec

\* Every variable keeps its shape: what a run and a request remember of a Change is there.
THEOREM PublicationTypes == Spec => []TypeOK
  <1>1. IInv => TypeOK
    BY DEF IInv
  <1> QED
    BY <1>1, Invariant, PTL

\* The application's main holds only commits the manifest of a merged Change names, or the one an
\* approver read when that manifest was overlooked, and a run that says published is in it, however
\* approvals, pushes to the Change, later commits of the driver and restarts interleave.
THEOREM PublishedApproved == Spec => []PublishedIsApproved
  <1>1. IInv => PublishedIsApproved
    BY DEF IInv
  <1> QED
    BY <1>1, Invariant, PTL

\* A run that says cancelled has no live ticket, whatever store error or restart cut an end short.
THEOREM CancelledTicketless == Spec => []CancelledHasNoTicket
  <1>1. IInv => CancelledHasNoTicket
    BY DEF IInv
  <1> QED
    BY <1>1, Invariant, PTL

\* The step of MergedAsRead.
ReadBy(t, b, f) == b.files[f] = t.read[f] \/ Overlooked(t, b, f)

MergesAsRead ==
    \A n \in Numbers : changes[n].state # "merged" /\ changes'[n].state = "merged" =>
        \E p \in People : /\ task[p].pc = "merge" /\ task[p].n = n
                          /\ \A f \in Files : ReadBy(task[p], tip[n], f)

\* Only an approval merges a Change.
LEMMA MergedOnlyBy ==
  ASSUME IInv, [Next]_vars, NEW n \in 1..Len(changes), changes[n].state # "merged", changes'[n].state = "merged"
  PROVE  \E p \in People : ApproveMerges(p) /\ task[p].n = n /\ changes' # changes
  <1>0. ChangesKnown
    BY ChangesAre DEF IInv
  <1>1. changes' # changes
    OBVIOUS
  <1>2. ASSUME NEW k \in 1..Len(changes), NEW c \in ChangeType, Shut(k, c)
        PROVE  n = k /\ c.state = "merged"
    <2>1. changes'[n] = IF n = k THEN c ELSE changes[n]
      BY <1>0, <1>2, ExceptSeq DEF Shut, ChangesKnown
    <2> QED
      BY <2>1
  <1>3. ASSUME NEW p \in People, ApproveMerges(p)
        PROVE  task[p].n = n
    <2> DEFINE k == task[p].n
               c == MergedBy(changes[k], tip[k], task[p])
    <2>1. task[p].pc = "merge" /\ Shut(k, c)
      BY <1>1, <1>3 DEF ApproveMerges
    <2>2. k \in 1..Len(changes)
      BY <2>1, TaskAt DEF IInv, Everyone
    <2>3. c \in ChangeType
      BY <1>0, <2>2, MergedIs DEF ChangesKnown
    <2> HIDE DEF c, k
    <2>4. n = k
      BY <1>2, <2>1, <2>2, <2>3
    <2> QED
      BY <2>4 DEF k
  <1>4. ASSUME NEW p \in People, RejectCloses(p)
        PROVE  FALSE
    <2> DEFINE k == task[p].n
               c == [changes[k] EXCEPT !.state = "closed"]
    <2>1. task[p].pc = "close" /\ Shut(k, c)
      BY <1>1, <1>4 DEF RejectCloses
    <2>2. k \in 1..Len(changes)
      BY <2>1, TaskAt DEF IInv, Everyone
    <2>3. c \in ChangeType /\ c.state = "closed"
      BY <1>0, <2>2, ClosedIs DEF ChangesKnown
    <2> HIDE DEF c, k
    <2> QED
      BY <1>2, <2>1, <2>2, <2>3
  <1>5. ASSUME NEW p \in People, PublishProposes(p)
        PROVE  FALSE
    BY <1>0, <1>1, <1>5 DEF PublishProposes, ChangesKnown
  <1>6. ASSUME NEW p \in People, ApproveUpdates(p)
        PROVE  FALSE
    BY <1>1, <1>6 DEF ApproveUpdates
  <1>7. ASSUME NEW k \in Numbers, Outside(k)
        PROVE  FALSE
    <2> DEFINE c == [changes[k] EXCEPT !.state = "closed"]
    <2>1. k \in 1..Len(changes) /\ Shut(k, c)
      BY <1>1, <1>7 DEF Outside, Edit, MainMoves, Refresh, Close, Numbers
    <2>2. c \in ChangeType /\ c.state = "closed"
      BY <1>0, <2>1, ClosedIs DEF ChangesKnown
    <2> HIDE DEF c
    <2> QED
      BY <1>2, <2>1, <2>2
  <1> QED
    BY <1>1, <1>3, <1>4, <1>5, <1>6, <1>7, ChangesBy DEF vars

\* What an approval merges is as it read it, or was overlooked.
LEMMA MergeStep ==
  ASSUME IInv, [Next]_vars
  PROVE  MergesAsRead
  <1> SUFFICES ASSUME NEW n \in 1..Len(changes), changes[n].state # "merged", changes'[n].state = "merged"
               PROVE  \E p \in People : /\ task[p].pc = "merge" /\ task[p].n = n
                                        /\ \A f \in Files : ReadBy(task[p], tip[n], f)
    BY DEF MergesAsRead, Numbers
  <1>1. PICK p \in People : ApproveMerges(p) /\ task[p].n = n /\ changes' # changes
    BY MergedOnlyBy
  <1> DEFINE t == task[p]
             b == tip[n]
  <1>2. t.pc = "merge" /\ b.sha = t.pin /\ changes[n].state = "open"
    BY <1>1 DEF ApproveMerges
  <1>3. AsRead(t, b)
    BY <1>1, <1>2 DEF IInv, TasksSound, Sound, Everyone, Approving
  <1> HIDE DEF t, b
  <1>4. ASSUME NEW f \in Files, b.files[f] # t.read[f]
        PROVE  Overlooked(t, b, f)
    <2>1. f \notin t.list
      BY <1>2, <1>3, <1>4 DEF AsRead, Vouches
    <2>2. b.pushes = t.pushes => b.files[f] = 0
      BY <1>3, <2>1 DEF AsRead, Lists
    <2> QED
      BY <2>1, <2>2 DEF Overlooked, Touched
  <1>5. \A f \in Files : ReadBy(t, b, f)
    BY <1>4 DEF ReadBy
  <1> QED
    BY <1>1, <1>2, <1>5 DEF t, b

\* A Change merges only as an approval in flight read it: every file of it reads as it was read, or
\* is one the list the updated branch was compared by did not name, of a branch somebody pushed to
\* since the read or that no longer touches the file.
THEOREM MergesWhatWasRead == Spec => MergedAsRead
  <1>1. IInv /\ [Next]_vars => MergesAsRead
    BY MergeStep
  <1>2. MergesAsRead => \A n \in Numbers : changes[n].state # "merged" /\ changes'[n].state = "merged" =>
          \E p \in People : /\ task[p].pc = "merge" /\ task[p].n = n
                            /\ \A f \in Files : \/ tip[n].files[f] = task[p].read[f]
                                                \/ Overlooked(task[p], tip[n], f)
    BY DEF MergesAsRead, ReadBy
  <1> QED
    BY <1>1, <1>2, Invariant, PTL DEF Spec, MergedAsRead
=============================================================================
