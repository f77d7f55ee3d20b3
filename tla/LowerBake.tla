------------------------------ MODULE LowerBake -----------------------------
(***************************************************************************)
(* A lower that several nodes of one host mount, and the bake that changes *)
(* it (internal/enode: lowerguard.go, bake*.go; internal/lower).           *)
(*                                                                         *)
(* A bake Run (build, then merge) and an ordinary Run of some steps are    *)
(* matched to nodes by the mediator. A node holds the lower's shared lock  *)
(* while it may be matched or has a lease; a merge needs the exclusive     *)
(* lock. The mediator learns only from adverts that a node drains, so a    *)
(* lease may show itself after the lock was let go. A node may crash at    *)
(* any step; flocks and the merge helper die with it.                      *)
(*                                                                         *)
(* Left out: an owner's drain and the disk's; roles and records of         *)
(* holders, which are told to people only; the net of foreign mounts, a    *)
(* longer wait; a folder that cannot be moved or read.                     *)
(***************************************************************************)
EXTENDS Integers, FiniteSets

CONSTANTS
    Nodes,      \* nodes that share the lower
    Baked,      \* the one the bake Run is matched to
    NoNode,     \* none of them
    Steps,      \* steps of the ordinary Run
    MaxFaults   \* bound: crashes of nodes, and writes, merges, uploads and answers that fail

ASSUME BakedIsANode == Baked \in Nodes
ASSUME NoNodeIsNone == NoNode \notin Nodes

VARIABLES
    \* on the disk, for all nodes
    lower,      \* ver, half changed or not, and the mark of its metadata
    state,      \* state.json: phase, the owner is the bake Run, last_attempt tells of its pending upper
    place,      \* the pending place: none, building, upper, applied (upper gone), trash
    bakeLock, excl, \* who holds bake.lock, and lower.lock exclusively
    \* in the process of a node
    guard,      \* LowerGuard: shared, mark, streak, refused, baking, stepping, bake
    baker,      \* Baker: held and its flags; abandon, a goroutine; bg, the background work; later
    work,       \* the Worker: step and where it is
    mounted,    \* the version its session sees, or None
    advert,     \* the answer on its way: drain and lease
    \* the mediator
    drain, lease, \* per node
    pick,       \* the node a match has read but not committed
    bake,       \* the bake Run: build, merge (bare: the build left no upper), done (nothing: to merge), failed
    left,       \* steps the ordinary Run has left
    orphan,     \* the Run whose step a life that is over had claimed
    at, excused, \* history: the lower when that Run was matched; nodes whose word it no longer has
    faults

disk == <<lower, state, place>>
locks == <<bakeLock, excl>>
process == <<guard, baker, work, mounted>>
mediator == <<drain, lease, pick, bake, left, orphan>>
history == <<at, excused>>
vars == <<disk, locks, process, advert, mediator, history, faults>>

-----------------------------------------------------------------------------
Committed == [phase |-> "committed", owner |-> FALSE, last |-> FALSE]
NewGuard(mark) == [shared |-> FALSE, mark |-> mark, streak |-> 0, refused |-> {}, baking |-> FALSE, stepping |-> FALSE, bake |-> FALSE]
NewBaker == [held |-> FALSE, done |-> FALSE, merging |-> FALSE, abandon |-> "no", bg |-> "off", later |-> FALSE]
None == -2
NoWork == [step |-> "none", pc |-> "idle"]
NoAnswer == [on |-> FALSE, drain |-> FALSE, lease |-> "none"]

\* A node holds the lock of a lower that is whole; or a merge of an earlier bake was broken off
\* and a node that started since has it to resume, while the nodes drain (the faults are behind it).
Fresh ==
    /\ lower = [ver |-> 0, half |-> FALSE, mark |-> 0] /\ state = Committed /\ place = "none"
    /\ guard = [n \in Nodes |-> [NewGuard(0) EXCEPT !.shared = TRUE]]
    /\ bakeLock = NoNode /\ baker = [n \in Nodes |-> NewBaker] /\ drain = [n \in Nodes |-> FALSE] /\ faults = 0
BrokenOff ==
    /\ lower = [ver |-> -1, half |-> TRUE, mark |-> -1] /\ state = [Committed EXCEPT !.phase = "merging"] /\ place = "upper"
    /\ guard = [n \in Nodes |-> NewGuard(-1)]
    /\ bakeLock \in Nodes /\ baker = [n \in Nodes |-> IF n = bakeLock THEN [NewBaker EXCEPT !.bg = "wait"] ELSE NewBaker]
    /\ drain = [n \in Nodes |-> TRUE] /\ faults = MaxFaults

Init ==
    /\ Fresh \/ BrokenOff
    /\ excl = NoNode
    /\ work = [n \in Nodes |-> NoWork] /\ mounted = [n \in Nodes |-> None] /\ advert = [n \in Nodes |-> NoAnswer]
    /\ lease = [n \in Nodes |-> IF n = Baked THEN "K" ELSE "none"]
    /\ pick = NoNode /\ bake = "build" /\ left = Steps /\ orphan = [n \in Nodes |-> "none"]
    /\ at = 0 /\ excused = {}

At(n, step, pc) == work[n] = [step |-> step, pc |-> pc]
GoTo(n, pc) == work' = [work EXCEPT ![n].pc = pc]
Leased(n, run) == lease[n] = run
Free(runs) == [n \in Nodes |-> IF lease[n] \in runs THEN "none" ELSE lease[n]]
Fault == faults < MaxFaults /\ faults' = faults + 1
NoFault == UNCHANGED faults

-----------------------------------------------------------------------------
(* LowerGuard: pure steps on its record.                                   *)
Released(g) == [g EXCEPT !.shared = FALSE, !.mark = lower.mark, !.streak = 0]
Taken(g) == [g EXCEPT !.shared = TRUE, !.streak = 0]
TryShared == excl = NoNode
Draining == state.phase \in {"pending", "merging"}

\* Slip: the lease's lower is not compared with the mark of the release.
LateUnmarked(g, run) ==
    IF state.phase = "merging" \/ ~TryShared THEN [g EXCEPT !.refused = @ \cup {run}] ELSE Taken(g)

\* A lease seen after the lock was let go: refuse what the lower has changed under, else take it again.
Late(g, run) ==
    IF state.phase = "merging" \/ lower.mark # g.mark \/ ~TryShared THEN [g EXCEPT !.refused = @ \cup {run}]
    ELSE Taken(g)

\* Slip: a merge that was broken off is nobody's.
OnStaleClean(n) ==
    IF state.phase \in {"building", "pending"} /\ ~guard[n].bake /\ ~baker[n].held /\ baker[n].bg = "off" /\ ~baker[n].later
    THEN [baker EXCEPT ![n].bg = "stale"] ELSE baker

\* The state names a bake whose owner may be dead: open the background work, one at a time.
OnStale(n) ==
    IF state.phase # "committed" /\ ~guard[n].bake /\ ~baker[n].held /\ baker[n].bg = "off" /\ ~baker[n].later
    THEN [baker EXCEPT ![n].bg = "stale"] ELSE baker

\* An advert goes out; the mediator writes its drain down, fails what an earlier life had claimed,
\* and answers with the lease it sees.
Advert(n) ==
    LET want == ~Draining /\ ~guard[n].shared /\ ~guard[n].bake
        own == Draining \/ (want /\ ~TryShared) IN
    /\ ~advert[n].on
    /\ baker' = OnStale(n)
    /\ guard' = [guard EXCEPT ![n] = IF want /\ TryShared THEN Taken(@) ELSE @]
    /\ drain' = [drain EXCEPT ![n] = own]
    /\ lease' = Free({orphan[n]} \ {"none"})
    /\ bake' = IF orphan[n] = "K" THEN "failed" ELSE bake
    /\ left' = IF orphan[n] = "R" THEN 0 ELSE left
    /\ orphan' = [orphan EXCEPT ![n] = "none"]
    /\ advert' = [advert EXCEPT ![n] = [on |-> TRUE, drain |-> own, lease |-> lease'[n]]]
    /\ excused' = IF want /\ TryShared /\ Leased(n, "R") THEN excused \cup {n} ELSE excused
    /\ UNCHANGED <<disk, locks, work, mounted, pick, at, faults>>

\* The bake Run's lease is gone while its upper is pending: clean up, in a goroutine of its own.
BakeGone(g, run) == g.bake /\ run # "K" /\ state.phase = "pending" /\ state.owner
Abandon(b) == IF b.held /\ ~b.done /\ ~b.merging THEN [b EXCEPT !.done = TRUE, !.abandon = "write"] ELSE b

Answered(g, a) ==
    LET streak == IF a.lease # "none" \/ ~a.drain THEN 0 ELSE IF g.streak < 2 THEN g.streak + 1 ELSE 2
        baking == g.baking /\ a.lease = "K"
        seen == [g EXCEPT !.streak = streak, !.baking = baking, !.refused = @ \cap {a.lease}]
        counts == a.lease # "none" /\ ~(a.lease = "K" /\ (baking \/ g.bake)) IN
    CASE g.shared /\ a.lease = "none" /\ streak = 2 /\ ~g.stepping -> Released(seen)
      [] ~g.shared /\ ~g.bake /\ counts /\ a.lease \notin seen.refused -> Late(seen, a.lease)
      [] OTHER -> seen

AfterResponse(n) ==
    /\ advert[n].on
    /\ advert' = [advert EXCEPT ![n] = NoAnswer]
    /\ \/ /\ NoFault
          /\ LET gone == BakeGone(guard[n], advert[n].lease) IN
             /\ guard' = [guard EXCEPT ![n] = [Answered(@, advert[n]) EXCEPT !.bake = guard[n].bake /\ ~gone]]
             /\ baker' = IF gone THEN [baker EXCEPT ![n] = Abandon(@)] ELSE baker
       \/ Fault /\ UNCHANGED <<guard, baker>>   \* the answer is lost
    /\ UNCHANGED <<disk, locks, work, mounted, mediator, history>>

DropBake(g) == IF g.shared THEN [g EXCEPT !.bake = FALSE] ELSE [g EXCEPT !.bake = FALSE, !.mark = lower.mark]

-----------------------------------------------------------------------------
(* The Worker: a claim, and the ordinary Run's steps.                      *)
\* A bake step lets the lock go and is never refused; another keeps it, takes it late, or is refused.
OnClaim(g, step) ==
    IF step # "r" THEN [(IF g.shared THEN Released(g) ELSE g) EXCEPT !.baking = TRUE]
    ELSE IF "R" \in g.refused THEN g
    ELSE IF g.shared THEN [g EXCEPT !.streak = 0] ELSE Late(g, "R")

Claim(n, step) ==
    LET next == OnClaim([guard[n] EXCEPT !.stepping = TRUE], step)
        pc == IF step # "r" THEN "guarded" ELSE IF "R" \in next.refused THEN "refused" ELSE "running" IN
    /\ work[n] = NoWork /\ orphan[n] = "none"
    /\ CASE step = "r" -> Leased(n, "R") /\ left > 0
         [] step = "build" -> Leased(n, "K") /\ bake = "build"
         [] step = "merge" -> Leased(n, "K") /\ bake \in {"merge", "bare"}
    /\ work' = [work EXCEPT ![n] = [step |-> step, pc |-> pc]]
    /\ guard' = [guard EXCEPT ![n] = next]
    /\ mounted' = [mounted EXCEPT ![n] = IF pc = "running" THEN lower.ver ELSE @]
    /\ UNCHANGED <<disk, locks, baker, advert, mediator, history, faults>>

\* The session is closed, then the step is done; a result without a lease is refused.
StepEnds(n) ==
    /\ work[n].step = "r" /\ work[n].pc \in {"running", "refused"}
    /\ work' = [work EXCEPT ![n] = NoWork]
    /\ mounted' = [mounted EXCEPT ![n] = None]
    /\ guard' = [guard EXCEPT ![n].stepping = FALSE]
    /\ left' = IF ~Leased(n, "R") THEN left ELSE IF work[n].pc = "refused" THEN 0 ELSE left - 1
    /\ lease' = IF left' = 0 THEN Free({"R"}) ELSE lease
    /\ UNCHANGED <<disk, locks, baker, advert, drain, pick, bake, orphan, history, faults>>

-----------------------------------------------------------------------------
(* The build step.                                                         *)
\* Clean a bake nobody holds: its pending place to the trash, committed with what became of it.
\* Slip: the last attempt does not tell a pending upper from one never made.
CleanedUntold == IF state.phase = "committed" THEN state ELSE Committed
Cleaned == IF state.phase = "committed" THEN state
           ELSE [Committed EXCEPT !.last = state.phase = "pending" /\ state.owner]
Clean == state' = Cleaned /\ place' = IF state.phase = "committed" THEN place ELSE "trash"

\* Ends a bake step that did not hand over: its report fails the Run or, of a command, may not.
Outcome(n, told) ==
    /\ work' = [work EXCEPT ![n] = NoWork]
    /\ guard' = [guard EXCEPT ![n].stepping = FALSE]
    /\ bake' = IF Leased(n, "K") THEN told ELSE bake
    /\ lease' = IF bake' \in {"done", "nothing", "failed"} THEN Free({"K"}) ELSE lease
    /\ UNCHANGED <<drain, pick, left, orphan>>

CanBake(n) == ~baker[n].held /\ baker[n].bg = "off" /\ bakeLock = NoNode

\* Another bake or a background work is on; or a merge was broken off, which this claim takes up.
BakeInProgress(n) ==
    /\ At(n, "build", "guarded") /\ (CanBake(n) => state.phase = "merging")
    /\ GoTo(n, "failing")
    /\ IF CanBake(n) THEN bakeLock' = n /\ baker' = [baker EXCEPT ![n].bg = "wait"] ELSE UNCHANGED <<bakeLock, baker>>
    /\ UNCHANGED <<disk, excl, guard, mounted, advert, mediator, history, faults>>

\* A stale bake is cleaned, then the pending place made, building written and the session opened.
TakeForBuild(n) ==
    /\ At(n, "build", "guarded") /\ CanBake(n) /\ state.phase # "merging"
    /\ bakeLock' = n /\ place' = "building"
    /\ \/ /\ state' = [Cleaned EXCEPT !.phase = "building", !.owner = TRUE]
          /\ baker' = [baker EXCEPT ![n].held = TRUE]
          /\ GoTo(n, "building") /\ mounted' = [mounted EXCEPT ![n] = lower.ver] /\ NoFault
       \/ /\ Fault /\ state' = Cleaned /\ baker' = [baker EXCEPT ![n] = Abandon([@ EXCEPT !.held = TRUE])]
          /\ GoTo(n, "failing") /\ UNCHANGED mounted
    /\ UNCHANGED <<lower, excl, guard, advert, mediator, history>>

\* The commands are over: keep the upper, or close and clean up (failed, no IR, the lease has ended).
Built(n) ==
    /\ At(n, "build", "building")
    /\ mounted' = [mounted EXCEPT ![n] = None]
    /\ \/ Leased(n, "K") /\ place' = "upper" /\ GoTo(n, "kept") /\ UNCHANGED baker
       \/ \E told \in {"failing", "empty"} :
            GoTo(n, told) /\ baker' = [baker EXCEPT ![n] = Abandon(@)] /\ UNCHANGED place
    /\ UNCHANGED <<lower, state, locks, guard, advert, mediator, history, faults>>

WritePending(n) ==
    /\ At(n, "build", "kept")
    /\ \/ /\ state' = [state EXCEPT !.phase = "pending"]
          /\ GoTo(n, "pending") /\ NoFault /\ UNCHANGED baker
       \/ Fault /\ GoTo(n, "failing") /\ baker' = [baker EXCEPT ![n] = Abandon(@)] /\ UNCHANGED state
    /\ UNCHANGED <<lower, place, locks, guard, mounted, advert, mediator, history>>

\* Then the upload, whose budget may run out: the Run fails, so the merge step will not come.
HoldBake(n) ==
    /\ At(n, "build", "pending")
    /\ guard' = [guard EXCEPT ![n] = [(IF @.shared THEN Released(@) ELSE @) EXCEPT !.bake = TRUE]]
    /\ \/ GoTo(n, "handed") /\ NoFault /\ UNCHANGED baker
       \/ Fault /\ GoTo(n, "failing") /\ baker' = [baker EXCEPT ![n] = Abandon(@)]
    /\ UNCHANGED <<disk, locks, mounted, advert, mediator, history>>

\* The report, after the cleaning the step itself called has come back.
BakeStepEnds(n) ==
    /\ work[n].pc \in {"failing", "empty", "handed", "merged", "silent"} /\ baker[n].abandon = "no"
    /\ Outcome(n, IF work[n].pc = "failing" THEN "failed"
                  ELSE IF work[n].pc = "silent" THEN bake
                  ELSE IF work[n].pc = "handed" THEN "merge"
                  ELSE IF work[n].step = "build" THEN "bare"
                  ELSE IF bake = "bare" THEN "nothing" ELSE "done")
    /\ UNCHANGED <<disk, locks, baker, mounted, advert, history, faults>>

-----------------------------------------------------------------------------
(* Cleaning up a bake that was held, once.                                 *)
AbandonWrites(n) ==
    /\ baker[n].abandon = "write"
    /\ baker' = [baker EXCEPT ![n].abandon = "go"]
    /\ place' = IF place = "none" THEN "none" ELSE "trash"
    /\ \/ state' = Committed /\ NoFault
       \/ Fault /\ UNCHANGED state
    /\ UNCHANGED <<lower, locks, guard, work, mounted, advert, mediator, history>>

\* The bake is let go: its lock, the guard's word, held.
LetGo(n) ==
    /\ bakeLock' = NoNode
    /\ guard' = [guard EXCEPT ![n] = DropBake(@)]
    /\ baker' = [baker EXCEPT ![n] = [@ EXCEPT !.held = FALSE, !.done = FALSE, !.merging = FALSE, !.abandon = "no"]]
    /\ excused' = IF lower.mark # guard[n].mark /\ Leased(n, "R") THEN excused \cup {n} ELSE excused

AbandonEnds(n) ==
    /\ baker[n].abandon = "go" /\ LetGo(n)
    /\ UNCHANGED <<disk, excl, work, mounted, advert, mediator, at, faults>>

-----------------------------------------------------------------------------
(* The merge step.                                                         *)
MergeClaim(n) ==
    LET held == baker[n].held
        mine == state.owner /\ state.phase = "pending"
        begun == state.owner /\ state.phase \in {"pending", "merging"} IN
    /\ At(n, "merge", "guarded")
    /\ \/ held /\ mine /\ GoTo(n, "waiting") /\ UNCHANGED <<guard, baker, bakeLock, excused>>
       \/ held /\ ~mine /\ GoTo(n, "failing") /\ LetGo(n)
       \/ ~held /\ (begun \/ state.last) /\ GoTo(n, "failing") /\ UNCHANGED <<guard, baker, bakeLock, excused>>
       \/ ~held /\ ~(begun \/ state.last) /\ GoTo(n, "empty") /\ UNCHANGED <<guard, baker, bakeLock, excused>>
    /\ UNCHANGED <<disk, excl, mounted, advert, mediator, at, faults>>

Alone == excl = NoNode /\ \A m \in Nodes : ~guard[m].shared

Exclusive(n) ==
    /\ At(n, "merge", "waiting") /\ Alone
    /\ excl' = n /\ GoTo(n, "exclusive")
    /\ UNCHANGED <<disk, bakeLock, guard, baker, mounted, advert, mediator, history, faults>>

\* The lease has ended or the wait is over; or the preflight found the upper wrong or gone.
GaveUp(n) ==
    /\ \/ At(n, "merge", "waiting") /\ UNCHANGED <<excl, faults>>
       \/ At(n, "merge", "exclusive") /\ excl' = NoNode /\ (IF place = "upper" THEN Fault ELSE NoFault)
    /\ GoTo(n, "failing") /\ baker' = [baker EXCEPT ![n] = Abandon(@)]
    /\ UNCHANGED <<disk, bakeLock, guard, mounted, advert, mediator, history>>

\* The mark that merging has begun; not when the bake was cleaned up first.
StartMerging(n) ==
    /\ At(n, "merge", "exclusive") /\ place = "upper"
    /\ IF baker[n].held /\ ~baker[n].done
       THEN GoTo(n, "begun") /\ baker' = [baker EXCEPT ![n].merging = TRUE] /\ UNCHANGED excl
       ELSE GoTo(n, "silent") /\ excl' = NoNode /\ UNCHANGED baker
    /\ UNCHANGED <<disk, bakeLock, guard, mounted, advert, mediator, history, faults>>

WriteMerging(n) ==
    /\ At(n, "merge", "begun")
    /\ \/ /\ state' = [state EXCEPT !.phase = "merging"]
          /\ GoTo(n, "merging") /\ NoFault /\ UNCHANGED <<excl, baker>>
       \/ /\ Fault /\ GoTo(n, "failing") /\ excl' = NoNode
          /\ baker' = [baker EXCEPT ![n] = Abandon([@ EXCEPT !.merging = FALSE])] /\ UNCHANGED state
    /\ UNCHANGED <<lower, place, bakeLock, guard, mounted, advert, mediator, history>>

\* What the lower is after the merge that state.json names: this bake's, or the earlier one's.
Result == IF state.owner THEN 1 ELSE 0

\* The four last steps, as the merge step and a resume take them from "merging", "applying", ...
Apply(pc) ==
    CASE pc = "merging" -> lower' = [lower EXCEPT !.half = TRUE] /\ UNCHANGED <<state, place>>
      [] pc = "applying" -> lower' = [lower EXCEPT !.half = FALSE, !.ver = Result] /\ place' = "applied" /\ UNCHANGED state
      [] pc = "applied" -> lower' = [lower EXCEPT !.mark = Result] /\ UNCHANGED <<state, place>>
      [] pc = "marked" -> state' = Committed /\ UNCHANGED <<lower, place>>
After(pc) == CASE pc = "merging" -> "applying" [] pc = "applying" -> "applied" [] pc = "applied" -> "marked" [] pc = "marked" -> "done"
Merging == {"merging", "applying", "applied", "marked"}

MergeStep(n) ==
    /\ work[n].step = "merge" /\ work[n].pc \in Merging
    /\ Apply(work[n].pc) /\ GoTo(n, After(work[n].pc))
    /\ UNCHANGED <<locks, guard, baker, mounted, advert, mediator, history, faults>>

\* A fault after merging was written leaves it so; committed not written is a warning only.
Stopped(n) ==
    /\ work[n].step = "merge" /\ work[n].pc \in Merging \ {"merging"} /\ Fault
    /\ IF work[n].pc = "marked" THEN GoTo(n, "unsaid") /\ UNCHANGED <<locks, guard, baker, excused>>
       ELSE GoTo(n, "failing") /\ excl' = NoNode /\ LetGo(n)
    /\ UNCHANGED <<disk, mounted, advert, mediator, at>>

Merged(n) ==
    /\ work[n].step = "merge" /\ work[n].pc \in {"done", "unsaid"}
    /\ place' = IF work[n].pc = "done" THEN "trash" ELSE place
    /\ excl' = NoNode /\ LetGo(n) /\ GoTo(n, "merged")
    /\ UNCHANGED <<lower, state, mounted, advert, mediator, at, faults>>

-----------------------------------------------------------------------------
(* The background work: cleaning and resuming.                             *)
Bg(n, at_) == [baker EXCEPT ![n].bg = at_]

\* The state is read again under the bake lock.
Stale(n) ==
    /\ baker[n].bg = "stale"
    /\ CASE bakeLock # NoNode -> baker' = Bg(n, "off") /\ NoFault /\ UNCHANGED <<disk, bakeLock>>
         [] bakeLock = NoNode /\ state.phase = "merging" ->
              bakeLock' = n /\ baker' = Bg(n, "wait") /\ NoFault /\ UNCHANGED disk
         [] OTHER -> \/ baker' = Bg(n, "off") /\ Clean /\ NoFault /\ UNCHANGED <<lower, bakeLock>>
                     \/ /\ Fault /\ state.phase # "committed" /\ place' = "trash"
                        /\ baker' = [baker EXCEPT ![n].bg = "off", ![n].later = TRUE]
                        /\ UNCHANGED <<lower, state, bakeLock>>
    /\ UNCHANGED <<excl, guard, work, mounted, advert, mediator, history>>

ResumeExclusive(n) ==
    /\ baker[n].bg = "wait" /\ Alone /\ excl' = n /\ baker' = Bg(n, "exclusive")
    /\ UNCHANGED <<disk, bakeLock, guard, work, mounted, advert, mediator, history, faults>>

\* Is it finished? Told by the metadata; the upper still there is applied again from its start.
Resume(n) ==
    /\ baker[n].bg = "exclusive"
    /\ baker' = Bg(n, IF lower.mark = Result THEN "marked" ELSE IF place = "upper" THEN "merging" ELSE "applied")
    /\ UNCHANGED <<disk, locks, guard, work, mounted, advert, mediator, history, faults>>

CompleteMerge(n) ==
    /\ baker[n].bg \in Merging
    /\ Apply(baker[n].bg) /\ baker' = Bg(n, After(baker[n].bg))
    /\ UNCHANGED <<locks, guard, work, mounted, advert, mediator, history, faults>>

\* The end of a resume: both locks go; after a fault this node tries again in ten minutes.
ResumeEnds(n) ==
    /\ \/ baker[n].bg = "done" /\ place' = "trash" /\ NoFault
          /\ baker' = [baker EXCEPT ![n].bg = "off", ![n].later = FALSE]
       \/ baker[n].bg \in Merging \cup {"exclusive"} /\ Fault /\ UNCHANGED place
          /\ baker' = [baker EXCEPT ![n].bg = "off", ![n].later = TRUE]
    /\ excl' = NoNode /\ bakeLock' = NoNode
    /\ UNCHANGED <<lower, state, guard, work, mounted, advert, mediator, history>>

RetryDue(n) ==
    /\ baker[n].later /\ baker' = [baker EXCEPT ![n].later = FALSE]
    /\ UNCHANGED <<disk, locks, guard, work, mounted, advert, mediator, history, faults>>

\* The process dies, with its sessions, locks and helper, and starts again: the guard reads the
\* mark of now, the Baker cleans or resumes what nobody holds.
Crash(n) ==
    LET free == bakeLock \in {n, NoNode} IN
    /\ Fault
    /\ guard' = [guard EXCEPT ![n] = NewGuard(lower.mark)]
    /\ work' = [work EXCEPT ![n] = NoWork] /\ mounted' = [mounted EXCEPT ![n] = None]
    /\ advert' = [advert EXCEPT ![n] = NoAnswer]
    /\ excl' = IF excl = n THEN NoNode ELSE excl
    /\ IF free /\ state.phase = "merging"
       THEN bakeLock' = n /\ baker' = [baker EXCEPT ![n] = [NewBaker EXCEPT !.bg = "wait"]]
       ELSE bakeLock' = (IF free THEN NoNode ELSE bakeLock) /\ baker' = [baker EXCEPT ![n] = NewBaker]
    /\ IF free /\ state.phase # "merging" THEN Clean ELSE UNCHANGED <<state, place>>
    /\ excused' = IF Leased(n, "R") THEN excused \cup {n} ELSE excused
    /\ orphan' = IF work[n] = NoWork THEN orphan
                 ELSE [orphan EXCEPT ![n] = IF lease[n] = (IF work[n].step = "r" THEN "R" ELSE "K") THEN lease[n] ELSE @]
    /\ UNCHANGED <<lower, drain, lease, pick, bake, left, at>>

-----------------------------------------------------------------------------
(* The mediator: it matches to a node that does not drain, as it has last  *)
(* heard, and commits later; cancelling a Run frees its nodes at once.     *)
Pick(n) ==
    /\ pick = NoNode /\ left > 0 /\ \A m \in Nodes : ~Leased(m, "R")
    /\ ~drain[n] /\ Leased(n, "none")
    /\ pick' = n
    /\ UNCHANGED <<disk, locks, process, advert, drain, lease, bake, left, orphan, history, faults>>

Match ==
    /\ pick # NoNode /\ pick' = NoNode
    /\ lease' = IF Leased(pick, "none") /\ left > 0 THEN [lease EXCEPT ![pick] = "R"] ELSE lease
    /\ at' = lower.ver
    /\ UNCHANGED <<disk, locks, process, advert, drain, bake, left, orphan, excused, faults>>

Cancel ==
    /\ \/ bake \in {"build", "merge", "bare"} /\ bake' = "failed" /\ lease' = Free({"K"}) /\ UNCHANGED left
       \/ left > 0 /\ left' = 0 /\ lease' = Free({"R"}) /\ UNCHANGED bake
    /\ UNCHANGED <<disk, locks, process, advert, drain, pick, orphan, history, faults>>

-----------------------------------------------------------------------------
Guarding(n) == Advert(n) \/ AfterResponse(n)
Working(n) == (\E step \in {"r", "build", "merge"} : Claim(n, step)) \/ StepEnds(n)
Baking(n) == BakeInProgress(n) \/ TakeForBuild(n) \/ Built(n) \/ WritePending(n) \/ HoldBake(n)
             \/ BakeStepEnds(n) \/ MergeClaim(n) \/ Exclusive(n) \/ StartMerging(n) \/ WriteMerging(n)
             \/ MergeStep(n) \/ Stopped(n) \/ Merged(n)
Cleaning(n) == AbandonWrites(n) \/ AbandonEnds(n)
Resuming(n) == Stale(n) \/ ResumeExclusive(n) \/ Resume(n) \/ CompleteMerge(n) \/ ResumeEnds(n) \/ RetryDue(n)

Next ==
    \/ \E n \in Nodes : \/ Guarding(n) \/ Working(n) \/ Baking(n) \/ GaveUp(n) \/ Cleaning(n) \/ Resuming(n)
                        \/ Crash(n) \/ Pick(n)
    \/ Match \/ Cancel

Spec == Init /\ [][Next]_vars

\* Every node advertises, works and cleans on; nothing is promised of crashes, faults, cancels and matches.
Fairness ==
    \A n \in Nodes :
        /\ WF_vars(Guarding(n)) /\ WF_vars(Working(n) \/ Baking(n))
        /\ WF_vars(Cleaning(n)) /\ WF_vars(Resuming(n))
FairSpec == Spec /\ Fairness

-----------------------------------------------------------------------------
(* The state's type, over the steps the code can be at.                    *)
TypeOK ==
    /\ lower \in [ver : -1..1, half : BOOLEAN, mark : -1..1]
    /\ state \in [phase : {"committed", "building", "pending", "merging"}, owner : BOOLEAN, last : BOOLEAN]
    /\ place \in {"none", "building", "upper", "applied", "trash"}
    /\ {bakeLock, excl, pick} \subseteq Nodes \cup {NoNode}
    /\ \A n \in Nodes : /\ guard[n].refused \subseteq {"K", "R"} /\ guard[n].streak \in 0..2
                         /\ (baker[n].held => bakeLock = n)
                         /\ (guard[n].shared => excl = NoNode)
    /\ left \in 0..Steps /\ at \in -1..1 /\ excused \subseteq Nodes

\* From the match of a Run to the release of its lease the lower under its steps is the one of the
\* match, or the step is refused (lowerguard.go:17-20): however late the lease showed itself, and
\* whoever merged, gave up, crashed or resumed meanwhile. Excused is a node that crashed with the
\* lease, merged itself while it had it, or took the lock again with an advert before it had heard
\* of the lease: see StrictlyUnchanged.
UnchangedSinceMatch == \A n \in Nodes \ excused : At(n, "r", "running") /\ Leased(n, "R") => lower.ver = at /\ ~lower.half

\* The same of every node: what the comment says (lowerguard.go:17-20, :532-533).
StrictlyUnchanged == \A n \in Nodes : At(n, "r", "running") /\ Leased(n, "R") => lower.ver = at /\ ~lower.half

\* While a merge is changing the lower no session of any node mounts it, and the upper it comes from
\* is kept with a state that says merging: a merge that breaks off can be taken up again
\* (bake_merge.go:33, bake.go abandon, clean).
MergeAlone ==
    lower.half => (\A n \in Nodes : mounted[n] = None) /\ state.phase = "merging" /\ place = "upper"

\* A bake Run whose build has handed over an upper ends DONE only if the lower was changed by it: the
\* upper thrown away by a restart or a sibling is told as such (bakerule.go mergeClaim).
HandedIsMerged == bake = "done" => lower.ver = 1 /\ lower.mark = 1

\* A bake comes to its end: whatever it was doing when a node crashed, its Run was cancelled or a
\* write failed, the lower is committed again and the nodes stop draining.
BakesEnd == state.phase # "committed" ~> state.phase = "committed"

=============================================================================
