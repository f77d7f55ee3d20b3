---------------------------- MODULE RunLifecycle ----------------------------
(***************************************************************************)
(* The life of a Run inside the Mediator: how a submission becomes a Run   *)
(* that holds nodes, waits in the queue or is turned away; how steps are   *)
(* claimed, reported, asked and answered; and how a Run ends -- settled,   *)
(* cancelled by a person, or reclaimed by the reaper when its lease runs   *)
(* out -- and how its Record is then sealed.                               *)
(*                                                                         *)
(* Every HTTP handler and the reaper is a process that talks to PostgreSQL *)
(* (READ COMMITTED) in statements and transactions.  Here one action is    *)
(* one statement or one committed transaction, so that everything that can *)
(* happen BETWEEN two of them does.  A process forgets what it was doing   *)
(* when its request is cancelled or the Mediator restarts; the tables and  *)
(* the Record directories survive.                                         *)
(*                                                                         *)
(* Steps that rewrite the step graph (loop, dispatch, expands, acquire,    *)
(* release) are not here: a step is done, failed or asked.  Which nodes    *)
(* satisfy a contract is a constant: Grants[r].                            *)
(***************************************************************************)
EXTENDS Naturals, FiniteSets

CONSTANTS
    Runs,        \* run_id's
    Nodes,       \* node_id's
    Steps,       \* steps of all Runs
    Grants,      \* [Runs -> SUBSET Nodes], the nodes the matcher binds
    RunOf,       \* [Steps -> Runs]
    NodeOf,      \* [Steps -> Nodes \cup {Person}], Person for an ask
    StepNeeds,   \* [Steps -> SUBSET Steps]
    Timed,       \* the asks that declare a timeout
    Judge,       \* [Runs -> SUBSET {"met", "unmet"}], what Verify may say
    Handlers,    \* concurrent requests of the Mediator
    Reaper,      \* the reaper's own calls of SettleIfDone
    Person,      \* stands for the answerer of an ask
    NoRun,
    MaxFaults    \* bound on cancelled requests and restarts

ASSUME GrantsType == Grants \in [Runs -> (SUBSET Nodes) \ {{}}]
ASSUME StepsType ==
    /\ RunOf \in [Steps -> Runs]
    /\ NodeOf \in [Steps -> Nodes \cup {Person}]
    /\ StepNeeds \in [Steps -> SUBSET Steps]
    /\ Timed \subseteq {s \in Steps : NodeOf[s] = Person}
ASSUME StepsBound == \A s \in Steps : NodeOf[s] \in Grants[RunOf[s]] \cup {Person}
ASSUME JudgeType == Judge \in [Runs -> (SUBSET {"met", "unmet"}) \ {{}}]
ASSUME Sentinels == NoRun \notin Runs /\ Person \notin Nodes /\ Reaper \notin Handlers
ASSUME FaultBound == MaxFaults \in Nat

VARIABLES
    state,      \* runs.state, "ABSENT" when there is no row
    verdict,    \* runs.verdict, "none" when NULL
    step,       \* steps.state, "NONE" when there is no row
    lease,      \* leases: the Run that holds the node
    late,       \* nodes whose lease has not_after <= now()
    record,     \* the Record directory: absent, open, or the sealed verdict
    ahead,      \* for a queued Run, those that were queued before it
    creating,   \* Runs whose CreateRun has inserted but not committed
    proc,       \* what each request in flight remembers
    reap,       \* where the reaper's pass stands
    missed,     \* a queue scan was rolled back and none has run since
    faults

tables == <<state, verdict, step, lease, late, ahead, creating, missed>>
vars == <<tables, record, proc, reap, faults>>

-----------------------------------------------------------------------------
(* States, verdicts and what a process remembers.                           *)

Ended   == {"SUCCEEDED", "FAILED"}
Active  == {"RUNNING", "VERIFYING"}
RunState == {"ABSENT", "QUEUED"} \cup Active \cup Ended

\* Verdict{State, Checks}: "met"/"unmet" come from Verify, "ran" says a step
\* did not complete, "cancelled" who stopped it, "expired" is what
\* sealExpired writes for a Run that ended without a verdict.
Verdict == {"met", "unmet", "ran", "cancelled", "expired"}
StateOf(v) == IF v = "met" THEN "SUCCEEDED" ELSE "FAILED"

Open     == {"PENDING", "CLAIMED", "ASKED"}
Terminal == {"DONE", "FAILED"}
StepState == {"NONE"} \cup Open \cup Terminal

Workers == Handlers \cup {Reaper}
Idle == [pc |-> "idle", run |-> NoRun, verdict |-> "none"]
Proc == {Idle}
    \cup [pc : {"read", "count", "verify"}, run : Runs, verdict : {"none"}]
    \cup [pc : {"end", "cancel", "seal"}, run : Runs, verdict : Verdict]

Rested == [pc |-> "idle", todo |-> {}, reclaimed |-> {}]
Reap == [pc : {"idle", "settle", "fail", "steps", "free", "wake", "snap", "seal", "boot"},
         todo : SUBSET Runs, reclaimed : SUBSET Runs]

StepsOf(r) == {s \in Steps : RunOf[s] = r}
HasEnded(r) == state[r] \in Ended
Held(r)     == {n \in Nodes : lease[n] = r}

\* DELETE FROM leases WHERE run_id = r.
FreedForgotten(l, r) == l
Freed(l, r) == [n \in Nodes |-> IF l[n] = r THEN NoRun ELSE l[n]]

-----------------------------------------------------------------------------
(* The queue scan, inside whatever transaction calls it.                    *)

\* Slips: a scan that forgets what it has just given away; one that serves
\* the newest first.
PromotesTwice(P, st, l, a) ==
    P = {r \in Runs : st[r] = "QUEUED" /\ \A n \in Grants[r] : l[n] = NoRun}

PromotesNewestFirst(P, st, l, a) ==
    LET queued == {r \in Runs : st[r] = "QUEUED"}
        taken(r) == {n \in Nodes : l[n] # NoRun}
                      \cup UNION {Grants[p] : p \in {q \in P : r \in a[q]}}
    IN  /\ P \subseteq queued
        /\ \A r \in queued : r \in P <=> Grants[r] \cap taken(r) = {}

\* The Runs one scan promotes: oldest first, a Run goes when none of its
\* nodes is held and none was taken by a Run the same scan promoted earlier.
Promotes(P, st, l, a) ==
    LET queued == {r \in Runs : st[r] = "QUEUED"}
        taken(r) == {n \in Nodes : l[n] # NoRun}
                      \cup UNION {Grants[p] : p \in P \cap a[r]}
    IN  /\ P \subseteq queued
        /\ \A r \in queued : r \in P <=> Grants[r] \cap taken(r) = {}

\* An INSERT that meets a row another transaction has not committed waits
\* for that transaction, and fails when it commits.
Waits(P, c) == (UNION {Grants[p] : p \in P}) \cap Grants[c] # {}

FirstState(s) == IF NodeOf[s] = Person /\ StepNeeds[s] = {} THEN "ASKED" ELSE "PENDING"

\* createRunIn for every Run of P: state, leases, steps with their first
\* asks, open Record.
Running(P, st) == [r \in Runs |-> IF r \in P THEN "RUNNING" ELSE st[r]]
Fresh(P, sp) == [s \in Steps |-> IF RunOf[s] \in P THEN FirstState(s) ELSE sp[s]]
Granted(P, l) == [n \in Nodes |-> IF \E p \in P : n \in Grants[p]
                                  THEN CHOOSE p \in P : n \in Grants[p] ELSE l[n]]

Start(P, st, sp, l) ==
    /\ state' = Running(P, st)
    /\ step'  = Fresh(P, sp)
    /\ lease' = Granted(P, l)
    /\ late' = {n \in late : lease'[n] = lease[n]}

Opened(P) == [r \in Runs |-> IF r \in P /\ record[r] = "absent" THEN "open" ELSE record[r]]

\* The tail of a transaction that wrote st, sp and l: scan, promote, commit.
WakeAndCommit(st, sp, l, a) ==
    \E P \in SUBSET Runs :
        /\ Promotes(P, st, l, a)
        /\ \A c \in creating : ~Waits(P, c)
        /\ Start(P, st, sp, l)
        /\ record' = Opened(P)
        /\ ahead' = a
        /\ missed' = FALSE

\* The transactions of the processes that are about to scan the queue.
ScanBlocked(w, c) ==
    LET p == proc[w]
        l == IF p.pc \in {"end", "cancel"} THEN Freed(lease, p.run) ELSE lease
        st == IF p.pc \in {"end", "cancel"} THEN [state EXCEPT ![p.run] = "FAILED"] ELSE state
    IN  /\ \/ p.pc \in {"end", "cancel"}
           \/ w = Reaper /\ reap.pc \in {"wake", "boot"}
        /\ \E P \in SUBSET Runs : Promotes(P, st, l, ahead) /\ Waits(P, c)

-----------------------------------------------------------------------------
(* Submission.                                                              *)

\* submit found every node it needs free, and CreateRun has inserted.  A
\* committed lease would be ErrNodeTaken, which goes to Enqueue; an
\* uncommitted one makes the INSERT wait.
CreateBegin(r) ==
    /\ state[r] = "ABSENT" /\ r \notin creating
    /\ \A n \in Grants[r] : lease[n] = NoRun
    /\ \A c \in creating : Grants[c] \cap Grants[r] = {}
    /\ creating' = creating \cup {r}
    /\ UNCHANGED <<state, verdict, step, lease, late, ahead, missed, record,
                   proc, reap, faults>>

\* Slip: the Records of reclaimed Runs are not sealed.
AfterWakeUnsealed(p) == Rested
AfterWake(p) == IF p.reclaimed = {} THEN Rested ELSE [p EXCEPT !.pc = "snap"]

\* CreateRun commits.  At most one scan can have been waiting on its
\* leases (the scan holds the queue lock); that one is rolled back whole.
CreateCommit(r) ==
    /\ r \in creating
    /\ creating' = creating \ {r}
    /\ Start({r}, state, step, lease)
    /\ record' = Opened({r})
    /\ \E W \in SUBSET {w \in Workers : ScanBlocked(w, r)} :
        /\ \A w, x \in W : w = x
        /\ proc' = [w \in Workers |-> IF w \in W THEN Idle ELSE proc[w]]
        /\ IF Reaper \in W /\ proc[Reaper] = Idle
           THEN /\ reap' = IF reap.pc = "boot" THEN Rested ELSE AfterWake(reap)
                /\ missed' = TRUE
           ELSE UNCHANGED <<reap, missed>>
    /\ UNCHANGED <<verdict, ahead, faults>>

\* The submitter goes away before the commit.  A Record directory that was
\* already opened stays.
CreateRollback(r) ==
    /\ r \in creating /\ faults < MaxFaults
    /\ creating' = creating \ {r}
    /\ faults' = faults + 1
    /\ record' \in {record, Opened({r})}
    /\ UNCHANGED <<state, verdict, step, lease, late, ahead, missed, proc, reap>>

\* CreateQueuedRun: insert and scan in one transaction.  The Run may be
\* promoted on the spot.
Enqueue(r) ==
    /\ state[r] = "ABSENT" /\ r \notin creating
    /\ WakeAndCommit([state EXCEPT ![r] = "QUEUED"], step, lease,
                     [ahead EXCEPT ![r] = {q \in Runs : state[q] = "QUEUED"}])
    /\ UNCHANGED <<verdict, creating, proc, reap, faults>>

\* CreateRejectedRun: no advert satisfies the contract.
Reject(r) ==
    /\ state[r] = "ABSENT" /\ r \notin creating
    /\ state' = [state EXCEPT ![r] = "FAILED"]
    /\ UNCHANGED <<verdict, step, lease, late, ahead, creating, missed, record,
                   proc, reap, faults>>

-----------------------------------------------------------------------------
(* Steps.                                                                   *)

Ready(s, sp) == \A d \in StepNeeds[s] : sp[d] = "DONE"

\* ClaimStep: no look at not_after -- the worker looks at it itself.
Claim(s) ==
    /\ NodeOf[s] \in Nodes
    /\ step[s] = "PENDING" /\ state[RunOf[s]] = "RUNNING" /\ Ready(s, step)
    /\ lease[NodeOf[s]] = RunOf[s]
    /\ step' = [step EXCEPT ![s] = "CLAIMED"]
    /\ UNCHANGED <<state, verdict, lease, late, ahead, creating, missed, record,
                   proc, reap, faults>>

\* raiseAsks: every ask of the Run whose needs are met becomes a question.
\* Nothing here looks at the state of the Run.
RaiseAsks(r, sp) ==
    [s \in Steps |-> IF RunOf[s] = r /\ NodeOf[s] = Person /\ sp[s] = "PENDING" /\ Ready(s, sp)
                     THEN "ASKED" ELSE sp[s]]

Settling(r) == [pc |-> "read", run |-> r, verdict |-> "none"]

\* postResult: ReportStep commits, then the request goes on to settle.  The
\* guard is on the step alone; the Run may have ended meanwhile.
Report(h, s, ok) ==
    /\ proc[h] = Idle
    /\ step[s] = "CLAIMED"
    /\ step' = IF ok THEN RaiseAsks(RunOf[s], [step EXCEPT ![s] = "DONE"])
                     ELSE [step EXCEPT ![s] = "FAILED"]
    /\ proc' = [proc EXCEPT ![h] = Settling(RunOf[s])]
    /\ UNCHANGED <<state, verdict, lease, late, ahead, creating, missed, record, reap, faults>>

\* postAnswer: AnswerStep commits, then the request goes on to settle.
Answer(h, s) ==
    /\ proc[h] = Idle
    /\ step[s] = "ASKED" /\ state[RunOf[s]] = "RUNNING"
    /\ step' = RaiseAsks(RunOf[s], [step EXCEPT ![s] = "DONE"])
    /\ proc' = [proc EXCEPT ![h] = Settling(RunOf[s])]
    /\ UNCHANGED <<state, verdict, lease, late, ahead, creating, missed, record, reap, faults>>

\* postNodes of a restarted enode: FailRestarted fails what an earlier
\* instance had claimed, then the request settles the Run.
NodeRestarted(h, n) ==
    LET lost == {s \in Steps : NodeOf[s] = n /\ step[s] = "CLAIMED" /\ state[RunOf[s]] = "RUNNING"}
    IN  /\ proc[h] = Idle
        /\ \E s \in lost : proc' = [proc EXCEPT ![h] = Settling(RunOf[s])]
        /\ step' = [s \in Steps |-> IF s \in lost THEN "FAILED" ELSE step[s]]
        /\ UNCHANGED <<state, verdict, lease, late, ahead, creating, missed, record, reap, faults>>

\* RenewLeases: not for a Run that has ended.
Heartbeat(n) ==
    /\ n \in late /\ ~HasEnded(lease[n])
    /\ late' = late \ {n}
    /\ UNCHANGED <<state, verdict, step, lease, ahead, creating, missed, record,
                   proc, reap, faults>>

\* Time passes: not_after of a lease is reached without a renewal.
LeaseExpires(n) ==
    /\ lease[n] # NoRun /\ n \notin late
    /\ late' = late \cup {n}
    /\ UNCHANGED <<state, verdict, step, lease, ahead, creating, missed, record,
                   proc, reap, faults>>

-----------------------------------------------------------------------------
(* SettleIfDone, one action per statement, run by a request or the reaper.  *)

SettleRead(w) ==
    /\ proc[w].pc = "read"
    /\ proc' = [proc EXCEPT ![w] =
                  IF state[proc[w].run] \in Active THEN [@ EXCEPT !.pc = "count"] ELSE Idle]
    /\ UNCHANGED <<tables, record, reap, faults>>

Pending(r) == \E s \in StepsOf(r) : step[s] \in Open
Broke(r) == \E s \in StepsOf(r) : step[s] = "FAILED"

SettleCount(w) ==
    /\ proc[w].pc = "count"
    /\ proc' = [proc EXCEPT ![w] =
                  IF Broke(@.run) THEN [@ EXCEPT !.pc = "end", !.verdict = "ran"]
                  ELSE IF Pending(@.run) THEN Idle
                  ELSE [@ EXCEPT !.pc = "verify"]]
    /\ UNCHANGED <<tables, record, reap, faults>>

\* Slip: VERIFYING is written whatever the state has become.
VerifyingAnyway(r) == [state EXCEPT ![r] = "VERIFYING"]
Verifying(r) == [state EXCEPT ![r] = IF @ = "RUNNING" THEN "VERIFYING" ELSE @]

\* VERIFYING, then Verify against the contract and, if a condition asks for
\* it, against the fleet as it is now.
SettleVerify(w) ==
    /\ proc[w].pc = "verify"
    /\ state' = Verifying(proc[w].run)
    /\ \E v \in Judge[proc[w].run] :
          proc' = [proc EXCEPT ![w].pc = "end", ![w].verdict = v]
    /\ UNCHANGED <<verdict, step, lease, late, ahead, creating, missed, record, reap, faults>>

\* End a Run that has not ended yet; a Run that has keeps what it has.
EndRun(r, v) ==
    IF HasEnded(r) THEN state ELSE [state EXCEPT ![r] = StateOf(v)]
EndVerdict(r, v) ==
    IF HasEnded(r) THEN verdict ELSE [verdict EXCEPT ![r] = v]

SettleEnd(w) ==
    LET p == proc[w]
    IN  /\ p.pc = "end"
        /\ verdict' = EndVerdict(p.run, p.verdict)
        /\ WakeAndCommit(EndRun(p.run, p.verdict), step, Freed(lease, p.run), ahead)
        /\ proc' = [proc EXCEPT ![w].pc = "seal"]
        /\ UNCHANGED <<creating, reap, faults>>

\* Cancel: reads the Run, then ends it in one transaction with its steps.
CancelRead(h, r) ==
    /\ proc[h] = Idle
    /\ state[r] \in Active \cup {"QUEUED"}
    /\ proc' = [proc EXCEPT ![h] = [pc |-> "cancel", run |-> r, verdict |-> "cancelled"]]
    /\ UNCHANGED <<tables, record, reap, faults>>

Closed(r) ==
    [s \in Steps |-> IF RunOf[s] = r /\ step[s] \in Open THEN "FAILED" ELSE step[s]]

CancelEnd(h) ==
    LET p == proc[h]
    IN  /\ p.pc = "cancel"
        /\ verdict' = EndVerdict(p.run, p.verdict)
        /\ WakeAndCommit(EndRun(p.run, p.verdict),
                         Closed(p.run), Freed(lease, p.run), ahead)
        /\ proc' = [proc EXCEPT ![h].pc = "seal"]
        /\ UNCHANGED <<creating, reap, faults>>

Sealed(r) == record[r] \in Verdict

\* sealRecord with the verdict the caller holds; a sealed Record stays.
SealAs(r, v) == [record EXCEPT ![r] = IF @ \in Verdict THEN @ ELSE v]

Seal(w) ==
    /\ proc[w].pc = "seal"
    /\ record' = SealAs(proc[w].run, proc[w].verdict)
    /\ proc' = [proc EXCEPT ![w] = Idle]
    /\ UNCHANGED <<tables, reap, faults>>

-----------------------------------------------------------------------------
(* The reaper, one action per statement.                                    *)

\* ExpireAsks: the asks whose deadline has passed fail.
Whose(due) == {RunOf[s] : s \in due}

ReapAsks ==
    /\ reap.pc = "idle"
    /\ \E due \in SUBSET {s \in Timed : step[s] = "ASKED" /\ state[RunOf[s]] = "RUNNING"} :
        /\ step' = [s \in Steps |-> IF s \in due THEN "FAILED" ELSE step[s]]
        /\ reap' = [reap EXCEPT !.pc = "settle", !.todo = Whose(due)]
    /\ UNCHANGED <<state, verdict, lease, late, ahead, creating, missed, record, proc, faults>>

ReapSettle ==
    /\ reap.pc = "settle" /\ proc[Reaper] = Idle
    /\ \/ /\ reap.todo = {}
          /\ reap' = [reap EXCEPT !.pc = "fail"]
          /\ proc' = proc
       \/ \E r \in reap.todo :
            /\ reap' = [reap EXCEPT !.todo = @ \ {r}]
            /\ proc' = [proc EXCEPT ![Reaper] = Settling(r)]
    /\ UNCHANGED <<tables, record, faults>>

\* Slip: only RUNNING is reclaimed.
ExpiredRunning(r) ==
    /\ state[r] = "RUNNING"
    /\ \E n \in late : lease[n] = r
    /\ \A s \in StepsOf(r) : step[s] # "ASKED"

\* A Run that waits for a person is left alone whatever its leases say.
Expired(r) ==
    /\ state[r] \notin Ended
    /\ \E n \in late : lease[n] = r
    /\ \A s \in StepsOf(r) : step[s] # "ASKED"

ReapFail ==
    LET gone == {r \in Runs : Expired(r)}
    IN  /\ reap.pc = "fail"
        /\ state' = [r \in Runs |-> IF r \in gone THEN "FAILED" ELSE state[r]]
        /\ reap' = [reap EXCEPT !.pc = "steps", !.reclaimed = gone]
        /\ UNCHANGED <<verdict, step, lease, late, ahead, creating, missed, record, proc, faults>>

\* Slip: only the steps of the Runs this pass has failed.
LeftOpenJustNow(s) == RunOf[s] \in reap.reclaimed /\ step[s] \in Open
LeftOpen(s) == state[RunOf[s]] = "FAILED" /\ step[s] \in Open

ReapSteps ==
    /\ reap.pc = "steps"
    /\ step' = [s \in Steps |-> IF LeftOpen(s) THEN "FAILED" ELSE step[s]]
    /\ reap' = [reap EXCEPT !.pc = "free"]
    /\ UNCHANGED <<state, verdict, lease, late, ahead, creating, missed, record, proc, faults>>

\* Slip: every late lease goes.
ToFreeLate == late
ToFree == {n \in Nodes : lease[n] # NoRun /\ HasEnded(lease[n])}

\* Slip: the queue is not woken.
AfterFreeNoWake(freed) == AfterWake(reap)
AfterFree(freed) ==
    IF freed # {} THEN [reap EXCEPT !.pc = "wake"] ELSE AfterWake(reap)

ReapFree ==
    /\ reap.pc = "free"
    /\ lease' = [n \in Nodes |-> IF n \in ToFree THEN NoRun ELSE lease[n]]
    /\ late' = late \ ToFree
    /\ reap' = AfterFree(ToFree)
    /\ UNCHANGED <<state, verdict, step, ahead, creating, missed, record, proc, faults>>

\* WakeQueuedNow after a reclaim, and once when the Mediator starts.
ReapWake ==
    /\ reap.pc \in {"wake", "boot"}
    /\ WakeAndCommit(state, step, lease, ahead)
    /\ reap' = IF reap.pc = "boot" THEN Rested ELSE AfterWake(reap)
    /\ UNCHANGED <<verdict, creating, proc, faults>>

Sealable == {r \in Runs : HasEnded(r)}

\* sealExpired reads every Run that ended within the hour: the ones this
\* pass reclaimed and some of the others.
ReapSnap ==
    /\ reap.pc = "snap"
    /\ \E old \in SUBSET (Sealable \ reap.reclaimed) :
          reap' = [reap EXCEPT !.pc = "seal", !.reclaimed = {}, !.todo = Sealable \ old]
    /\ UNCHANGED <<tables, record, proc, faults>>

SealVerdict(r) == IF verdict[r] = "none" THEN "expired" ELSE verdict[r]

ReapSeal ==
    /\ reap.pc = "seal"
    /\ \/ /\ reap.todo = {}
          /\ reap' = Rested
          /\ record' = record
       \/ \E r \in reap.todo :
            /\ record' = SealAs(r, SealVerdict(r))
            /\ reap' = [reap EXCEPT !.todo = @ \ {r}]
    /\ UNCHANGED <<tables, proc, faults>>

-----------------------------------------------------------------------------
(* Faults.                                                                  *)

\* The client goes away: the request's context is cancelled between two
\* statements and what it still had to do is not done.
Drop(h) ==
    /\ proc[h] # Idle /\ faults < MaxFaults
    /\ proc' = [proc EXCEPT ![h] = Idle]
    /\ faults' = faults + 1
    /\ UNCHANGED <<tables, record, reap>>

\* The Mediator dies and starts again: open transactions are gone, the
\* queue is scanned once, then the reaper runs.
Restart ==
    /\ faults < MaxFaults
    /\ faults' = faults + 1
    /\ proc' = [w \in Workers |-> Idle]
    /\ reap' = [Rested EXCEPT !.pc = "boot"]
    /\ creating' = {}
    /\ UNCHANGED <<state, verdict, step, lease, late, ahead, missed, record>>

-----------------------------------------------------------------------------
Init ==
    /\ state = [r \in Runs |-> "ABSENT"]
    /\ verdict = [r \in Runs |-> "none"]
    /\ step = [s \in Steps |-> "NONE"]
    /\ lease = [n \in Nodes |-> NoRun]
    /\ late = {}
    /\ record = [r \in Runs |-> "absent"]
    /\ ahead = [r \in Runs |-> {}]
    /\ creating = {}
    /\ proc = [w \in Workers |-> Idle]
    /\ reap = [Rested EXCEPT !.pc = "boot"]
    /\ missed = FALSE
    /\ faults = 0

Submit == \E r \in Runs : CreateBegin(r) \/ Enqueue(r) \/ Reject(r)
Create == \E r \in Runs : CreateCommit(r) \/ CreateRollback(r)

Request == \E h \in Handlers :
    \/ \E s \in Steps : Report(h, s, TRUE) \/ Report(h, s, FALSE) \/ Answer(h, s)
    \/ \E n \in Nodes : NodeRestarted(h, n)
    \/ \E r \in Runs : CancelRead(h, r)

Proceed(w) == SettleRead(w) \/ SettleCount(w) \/ SettleVerify(w) \/ SettleEnd(w)
              \/ CancelEnd(w) \/ Seal(w)

Pass == ReapAsks \/ ReapSettle \/ ReapFail \/ ReapSteps \/ ReapFree \/ ReapWake
        \/ ReapSnap \/ ReapSeal

Next ==
    \/ Submit \/ Create \/ Request
    \/ \E s \in Steps : Claim(s)
    \/ \E n \in Nodes : Heartbeat(n) \/ LeaseExpires(n)
    \/ \E w \in Workers : Proceed(w)
    \/ Pass
    \/ \E h \in Handlers : Drop(h)
    \/ Restart

Spec == Init /\ [][Next]_vars

\* Goroutines of the Mediator make progress and the reaper's timer fires.
\* Nothing is assumed of clients, workers, answerers or the clock.
Fairness ==
    /\ WF_vars(\E r \in Runs : CreateCommit(r))
    /\ WF_vars(Pass)
    /\ \A w \in Workers : WF_vars(Proceed(w))

FairSpec == Spec /\ Fairness

-----------------------------------------------------------------------------
(* Safety.                                                                  *)

\* Every variable keeps its type: the states and verdicts of schema.sql, the
\* places a request or the reaper's pass can stand.
TypeOK ==
    /\ state \in [Runs -> RunState]
    /\ verdict \in [Runs -> Verdict \cup {"none"}]
    /\ step \in [Steps -> StepState]
    /\ lease \in [Nodes -> Runs \cup {NoRun}]
    /\ late \subseteq Nodes
    /\ record \in [Runs -> {"absent", "open"} \cup Verdict]
    /\ ahead \in [Runs -> SUBSET Runs]
    /\ creating \subseteq Runs
    /\ proc \in [Workers -> Proc]
    /\ reap \in Reap
    /\ missed \in BOOLEAN
    /\ faults \in 0..MaxFaults

\* I1 and I5: a Run that is under way holds every node it was granted and no
\* other, whoever submitted, queued, ended or restarted in between.
AllOrNothing == \A r \in Runs : state[r] \in Active => Held(r) = Grants[r]

\* I2: a node is held only for a Run under way, or for one the reaper has
\* failed and whose leases its next statement (or the next pass) deletes.
\* Settling and cancelling leave nothing behind.
EndedHoldsNothing ==
    \A n \in Nodes : lease[n] # NoRun =>
        \/ state[lease[n]] \in Active
        \/ state[lease[n]] = "FAILED" /\ verdict[lease[n]] = "none"

\* I4: a Record is sealed only once its Run has ended.
SealedIsEnded == \A r \in Runs : Sealed(r) => HasEnded(r)

\* A Run succeeds only by its contract, with every step done.  The counts
\* are read long before the Run is ended.
SuccessMeansDone ==
    \A r \in Runs : state[r] = "SUCCEEDED" =>
        verdict[r] = "met" /\ \A s \in StepsOf(r) : step[s] = "DONE"

\* A cancelled Run has no step left that a node could hold or a person be
\* asked about.
CancelledIsQuiet ==
    \A r \in Runs : verdict[r] = "cancelled" => \A s \in StepsOf(r) : step[s] \notin Open

\* The queue never sleeps on free nodes: between transactions, a queued Run
\* misses at least one of its nodes.  Two exceptions: a scan that is due (the
\* reaper has just freed nodes, the Mediator has just started) and a scan
\* that was rolled back, with none since.
NoLostWakeup ==
    \/ missed \/ reap.pc \in {"wake", "boot"}
    \/ \A r \in Runs : state[r] = "QUEUED" => \E n \in Grants[r] : lease[n] # NoRun

-----------------------------------------------------------------------------
(* What makes the safety properties inductive.                              *)

\* A Run being created is in no table yet and its nodes are free; two being
\* created want different nodes.
CreatingOK ==
    \A c \in creating :
        /\ state[c] = "ABSENT"
        /\ \A n \in Grants[c] : lease[n] = NoRun
        /\ \A d \in creating : c # d => Grants[c] \cap Grants[d] = {}

\* A verdict is written only with an end.
VerdictIsLast == \A r \in Runs : verdict[r] # "none" => HasEnded(r)

\* Of two queued Runs one came first.
QueueOrdered ==
    \A q, r \in Runs : state[q] = "QUEUED" /\ state[r] = "QUEUED" =>
        q = r \/ q \in ahead[r] \/ r \in ahead[q]

\* A request, the reaper and a step speak of Runs that are in the table.
Known ==
    /\ \A w \in Workers : proc[w] # Idle => state[proc[w].run] # "ABSENT"
    /\ reap.pc = "settle" => \A r \in reap.todo : state[r] # "ABSENT"
    /\ \A s \in Steps : step[s] # "NONE" => state[RunOf[s]] # "ABSENT"

\* Whoever is about to seal a Record knows that its Run has ended.
SealFollowsEnd ==
    /\ \A w \in Workers : proc[w].pc = "seal" => HasEnded(proc[w].run)
    /\ reap.pc = "seal" => \A r \in reap.todo : HasEnded(r)

\* Only Runs that were submitted are ahead of others, and no two are ahead of
\* each other.
Arrivals ==
    \A q, r \in Runs : q \in ahead[r] => state[q] # "ABSENT" /\ r \notin ahead[q]

LedgerInv ==
    TypeOK /\ CreatingOK /\ VerdictIsLast /\ QueueOrdered /\ AllOrNothing /\ EndedHoldsNothing

IInv == LedgerInv /\ Known /\ SealFollowsEnd /\ SealedIsEnded

-----------------------------------------------------------------------------
(* Action properties.                                                       *)

\* A Run that has ended keeps its state and its verdict for ever, although
\* Settle, Cancel and Reap all write runs on the strength of earlier reads.
EndIsFinal ==
    [][\A r \in Runs : HasEnded(r) => state'[r] = state[r] /\ verdict'[r] = verdict[r]]_vars

\* FIFO (ADR-064): a scan skips an older Run only if it cannot go, and what
\* that Run waits for is not taken from it by the younger ones: when r leaves
\* the queue, every Run that queued before r and still waits misses a node
\* that somebody held already, or that went to one that did not come later.
NoOvertaking ==
    [][\A r \in Runs : state[r] = "QUEUED" /\ state'[r] = "RUNNING" =>
         \A q \in ahead[r] : state'[q] = "QUEUED" =>
            \E n \in Grants[q] : /\ lease'[n] \notin {NoRun, r}
                                 /\ lease'[n] = lease[n] \/ q \notin ahead[lease'[n]]]_vars

-----------------------------------------------------------------------------
(* Liveness.                                                                *)

StepsOver(r) == \A s \in StepsOf(r) : step[s] \in Terminal

\* A Run whose steps are all over ends, and its nodes come free, unless a
\* request or the Mediator died on the way.
Settles ==
    \A r \in Runs : state[r] \in Active /\ StepsOver(r) ~> HasEnded(r) \/ faults > 0

Ran(r) == \E s \in StepsOf(r) : step[s] # "NONE"

\* I4: a Run that ran gets its Record sealed once it has ended, unless a
\* request or the Mediator died on the way.
SealsEventually == \A r \in Runs : HasEnded(r) /\ Ran(r) ~> Sealed(r) \/ faults > 0

\* O6: however the Mediator fails on the way, a lease whose Run has ended is
\* deleted.
EndedFreesNodes ==
    \A r \in Runs, n \in Nodes : lease[n] = r /\ HasEnded(r) ~> lease[n] # r

\* O6: a lease nobody renews is reclaimed, unless its Run waits for a person.
LateIsReclaimed ==
    \A r \in Runs, n \in Nodes :
        lease[n] = r /\ n \in late ~>
            \/ lease[n] # r \/ n \notin late
            \/ \E s \in StepsOf(r) : step[s] = "ASKED"

\* What a failed Run leaves open -- a question raised by a late report, a
\* step another branch still held -- is closed.
OrphansClose ==
    \A s \in Steps : state[RunOf[s]] = "FAILED" /\ step[s] \in Open ~> step[s] \in Terminal

-----------------------------------------------------------------------------
(* RunLifecycle implements RunLedger.                                       *)

Phase == [r \in Runs |-> CASE state[r] = "ABSENT" -> "new"
                           [] state[r] = "QUEUED" -> "waiting"
                           [] state[r] \in Active -> "running"
                           [] OTHER -> "over"]

Ledger == INSTANCE RunLedger WITH phase <- Phase, holder <- lease

\* The whole Mediator, with every interleaving and fault, keeps the ledger.
KeepsLedger == Ledger!Spec

-----------------------------------------------------------------------------
(* What the source says of the program and the program does not do.        *)

\* schema.sql: the verdict of runs becomes the verdict.json of the Record;
\* a Run without one is sealed as expired.
SealAgrees ==
    \A r \in Runs : Sealed(r) => record[r] = SealVerdict(r)

\* reap.go: kill the Mediator during a Run and start it again, and its nodes
\* come free. A Run whose steps are over would have to end.
SettlesAlways == \A r \in Runs : state[r] \in Active /\ StepsOver(r) ~> HasEnded(r)
=============================================================================
