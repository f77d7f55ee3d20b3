---------------------------- MODULE ClaimProtocol ----------------------------
(***************************************************************************)
(* How one node and the Mediator hand a step over and take it back.        *)
(*                                                                         *)
(* The node has two goroutines. The Worker is serial: it asks for a step   *)
(* (long poll), runs it, and reports it until the report is answered or    *)
(* its lease is gone. The Advertiser sends heartbeats; the answer is the   *)
(* whole list of the node's leases and REPLACES what the node believes it  *)
(* holds (Held). An exit report may overtake or trail the report.          *)
(*                                                                         *)
(* Any call may be abandoned by its client (timeout, broken connection,    *)
(* restart of the node); an abandoned call may still take effect at the    *)
(* Mediator once, later, or never. A restarted node has a new instance     *)
(* ("life") and no memory. On the Mediator one action is one statement.    *)
(*                                                                         *)
(* The clock: the node never sees a lease expire later than the Mediator.  *)
(***************************************************************************)
EXTENDS Naturals, FiniteSets

CONSTANTS
    Runs,          \* run_id's
    Steps,         \* the steps this node gets
    RunOf,         \* [Steps -> Runs]
    Loops,         \* the steps with a loop on themselves
    MaxAttempts,   \* Loop.Max
    MaxLives,      \* bound: instances of the node
    MaxFaults,     \* bound: abandoned calls, store errors, missed renewals
    NoRun, NoStep

ASSUME StepsType == RunOf \in [Steps -> Runs] /\ Loops \subseteq Steps
ASSUME Bounds == MaxAttempts \in Nat \ {0} /\ MaxLives \in Nat \ {0} /\ MaxFaults \in Nat
ASSUME Sentinels == NoRun \notin Runs /\ NoStep \notin Steps

VARIABLES
    lease,     \* leases: the Run that holds the node
    late,      \* its not_after has passed
    over,      \* the Runs that have ended
    row,       \* steps: state, claimed_instance, attempt, phase
    life,      \* the node's instance
    worker,    \* what the Worker is at
    held,      \* Held: the Runs whose leases the node believes in
    asks, reports, beats, exits,   \* calls on their way, at the Mediator or back
    faults,
    began,     \* history: which life has started a step's attempt
    exited,    \* history: which life has seen a step's attempt exit
    rerun,     \* history: attempts started twice
    gaveUp     \* history: attempts the Worker dropped before the Mediator had them

server == <<lease, late, over, row>>
node == <<life, worker, held>>
net == <<asks, reports, beats, exits>>
hist == <<began, exited, rerun, gaveUp>>
vars == <<server, node, net, faults, hist>>

-----------------------------------------------------------------------------
Attempts == 0..(MaxAttempts - 1)
Lives == 1..MaxLives
Execution == Steps \X Attempts

Row == [state : {"NONE", "PENDING", "CLAIMED", "DONE", "FAILED"},
        inst : 0..MaxLives, attempt : Attempts, phase : {"none", "running", "finalizing"}]
Open == {"PENDING", "CLAIMED"}

WithoutStep(pc) == [pc |-> pc, step |-> NoStep, attempt |-> 0, ok |-> FALSE]
Idle == WithoutStep("idle")
Worker == {Idle, WithoutStep("asking")}
    \cup [pc : {"starting", "running", "exited", "reporting"},
          step : Steps, attempt : Attempts, ok : BOOLEAN]

\* live: the client still waits. A claim is sent, has found a step to give
\* again, or has been given a step. A heartbeat is sent, has failed the steps
\* of other lives, or is answered with the list.
Ask == [life : Lives, live : BOOLEAN, at : {"sent", "found", "given"},
        step : Steps \cup {NoStep}, attempt : Attempts, lease : SUBSET Runs]
Report == [live : BOOLEAN, at : {"sent", "answered"}, step : Steps, attempt : Attempts, ok : BOOLEAN]
Beat == [life : Lives, live : BOOLEAN, at : {"sent", "failed", "given"}, list : SUBSET Runs]
Exit == [life : Lives, step : Steps, attempt : Attempts]

Mine == RunOf[worker.step]
Valid(r) == r \in held                \* Held.Valid
Alive == IF late THEN {} ELSE {lease} \ {NoRun}

\* A call its client no longer waits for; an answered one has no effect left.
Orphan(c) == [c EXCEPT !.live = FALSE]
Abandon(calls, c, answered) ==
    (calls \ {c}) \cup (IF c.at \in answered THEN {} ELSE {Orphan(c)})

Fault == faults < MaxFaults /\ faults' = faults + 1

-----------------------------------------------------------------------------
(* What a claim may be given.                                               *)

\* Slip: any life's step is given again.
ToRedeliverAny(c) == {s \in Steps : row[s].state = "CLAIMED" /\ RunOf[s] \in Alive}
\* redeliver's SELECT: claimed by the life that asks, its Run under way, its
\* lease not late.
ToRedeliver(c) ==
    {s \in Steps : row[s].state = "CLAIMED" /\ row[s].inst = c.life /\ RunOf[s] \in Alive}

\* ClaimStep's SELECT: a pending step of the Run that holds the node.
ToTake == {s \in Steps : row[s].state = "PENDING" /\ lease = RunOf[s]}

-----------------------------------------------------------------------------
(* The Worker.                                                              *)

AskClaim ==
    /\ worker = Idle
    /\ worker' = WithoutStep("asking")
    /\ asks' = asks \cup {[life |-> life, live |-> TRUE, at |-> "sent",
                           step |-> NoStep, attempt |-> 0, lease |-> {}]}
    /\ UNCHANGED <<server, life, held, reports, beats, exits, faults, hist>>

\* The claim's answer: Held.Add, then execute.
GetStep(c) ==
    /\ c.live /\ c.at = "given"
    /\ asks' = asks \ {c}
    /\ held' = held \cup c.lease
    /\ worker' = [pc |-> "starting", step |-> c.step, attempt |-> c.attempt, ok |-> FALSE]
    /\ UNCHANGED <<server, life, reports, beats, exits, faults, hist>>

\* The long poll ends with 204, or the client loses it.
EndAsk(c) ==
    /\ c.live
    /\ \/ /\ c.at = "sent" /\ ToRedeliver(c) = {} /\ ToTake = {}
          /\ asks' = asks \ {c} /\ UNCHANGED faults
       \/ Fault /\ asks' = Abandon(asks, c, {"given"})
    /\ worker' = Idle
    /\ UNCHANGED <<server, life, held, reports, beats, exits, hist>>

\* execute: the lease first (ADR-010); without it nothing runs and nothing
\* is reported.
Begin ==
    LET e == <<worker.step, worker.attempt>>
    IN  /\ worker.pc = "starting"
        /\ IF Valid(Mine)
           THEN /\ worker' = [worker EXCEPT !.pc = "running"]
                /\ began' = began \cup {<<e, life>>}
                /\ rerun' = IF \E l \in Lives : <<e, l>> \in began THEN rerun \cup {e} ELSE rerun
           ELSE worker' = Idle /\ UNCHANGED <<began, rerun>>
        /\ UNCHANGED <<server, life, held, net, faults, exited, gaveUp>>

\* The lower guard, the workspace, an input or the runtime refuses: the
\* command never runs and the step is reported as not completed.
Refuse ==
    /\ worker.pc = "starting" /\ Valid(Mine)
    /\ worker' = [worker EXCEPT !.pc = "reporting"]
    /\ UNCHANGED <<server, life, held, net, faults, hist>>

\* The watcher of the running step sees the lease gone.
Abort ==
    /\ worker.pc = "running" /\ ~Valid(Mine)
    /\ worker' = [worker EXCEPT !.pc = "reporting"]
    /\ UNCHANGED <<server, life, held, net, faults, hist>>

\* The command ends: the exit report leaves on its own goroutine.
Exits ==
    /\ worker.pc = "running"
    /\ worker' = [worker EXCEPT !.pc = "exited"]
    /\ exits' = exits \cup {[life |-> life, step |-> worker.step, attempt |-> worker.attempt]}
    /\ exited' = exited \cup {<<<<worker.step, worker.attempt>>, life>>}
    /\ UNCHANGED <<server, life, held, asks, reports, beats, faults, began, rerun, gaveUp>>

\* afterExit: complete, or not (over budget, a signal, the lease gone).
Finalize ==
    /\ worker.pc = "exited"
    /\ \E ok \in BOOLEAN : worker' = [worker EXCEPT !.pc = "reporting", !.ok = ok]
    /\ UNCHANGED <<server, life, held, net, faults, hist>>

SendReport ==
    /\ worker.pc = "reporting" /\ \A c \in reports : ~c.live
    /\ reports' = reports \cup {[live |-> TRUE, at |-> "sent", step |-> worker.step,
                                 attempt |-> worker.attempt, ok |-> worker.ok]}
    /\ UNCHANGED <<server, node, asks, beats, exits, faults, hist>>

\* 200 or 4xx: delivered or rejected, either way the Worker goes on.
Reported(c) ==
    /\ c.live /\ c.at = "answered"
    /\ reports' = reports \ {c}
    /\ worker' = Idle
    /\ UNCHANGED <<server, life, held, asks, beats, exits, faults, hist>>

Dropped == gaveUp \cup {<<worker.step, worker.attempt>>}

\* Slip: a failed report is not sent again.
KeepsTryingNot == FALSE
KeepsTrying == Valid(Mine)

\* No answer, or 5xx: again, for as long as the lease is believed in.
LoseReport(c) ==
    /\ c.live /\ Fault
    /\ reports' = Abandon(reports, c, {"answered"})
    /\ worker' = IF KeepsTrying THEN worker ELSE Idle
    /\ gaveUp' = IF Valid(Mine) THEN gaveUp ELSE Dropped
    /\ UNCHANGED <<server, life, held, asks, beats, exits, began, exited, rerun>>

-----------------------------------------------------------------------------
(* The Advertiser.                                                          *)

SendBeat ==
    /\ \A c \in beats : ~c.live
    /\ beats' = beats \cup {[life |-> life, live |-> TRUE, at |-> "sent", list |-> {}]}
    /\ UNCHANGED <<server, node, asks, reports, exits, faults, hist>>

\* Held.Set replaces: what the list lacks is gone.
HeldSet(list) == list

GetBeat(c) ==
    /\ c.live /\ c.at = "given"
    /\ beats' = beats \ {c}
    /\ held' = HeldSet(c.list)
    /\ UNCHANGED <<server, life, worker, asks, reports, exits, faults, hist>>

LoseBeat(c) ==
    /\ c.live /\ Fault
    /\ beats' = Abandon(beats, c, {"given"})
    /\ UNCHANGED <<server, node, asks, reports, exits, hist>>

-----------------------------------------------------------------------------
(* The Mediator.                                                            *)

Answer(c, at, s) == [c EXCEPT !.at = at, !.step = s, !.attempt = row[s].attempt, !.lease = Alive]

Given(c, answer) == (asks \ {c}) \cup (IF c.live THEN {answer} ELSE {})

Look(c) ==
    /\ c.at = "sent"
    /\ \E s \in ToRedeliver(c) : asks' = (asks \ {c}) \cup {Answer(c, "found", s)}
    /\ UNCHANGED <<server, node, reports, beats, exits, faults, hist>>

\* redeliver reads the lease again, at any moment between the SELECT and the
\* UPDATE, if it is still there.
Reread(c) == {c.lease} \cup {l \in {Alive} : lease = RunOf[c.step]}

\* redeliver's UPDATE looks at nothing but the key.
Redeliver(c) ==
    /\ c.at = "found"
    /\ row' = [row EXCEPT ![c.step].phase = "running"]
    /\ \E l \in Reread(c) : asks' = Given(c, [c EXCEPT !.at = "given", !.lease = l])
    /\ UNCHANGED <<lease, late, over, node, reports, beats, exits, faults, hist>>

\* The lease went between redeliver's two reads: 503.
LeaseWent(c) ==
    /\ c.at = "found" /\ lease # RunOf[c.step]
    /\ asks' = asks \ {c}
    /\ worker' = IF c.live THEN Idle ELSE worker
    /\ UNCHANGED <<server, life, held, reports, beats, exits, faults, hist>>

Claimed(r, l) == [r EXCEPT !.state = "CLAIMED", !.inst = l, !.phase = "running"]

\* Nothing to give again: a pending step is claimed.
\* not_after is not looked at here; it travels with the answer.
Take(c) ==
    /\ c.at = "sent" /\ ToRedeliver(c) = {}
    /\ \E s \in ToTake :
        /\ row' = [row EXCEPT ![s] = Claimed(@, c.life)]
        /\ asks' = Given(c, Answer(c, "given", s))
    /\ UNCHANGED <<lease, late, over, node, reports, beats, exits, faults, hist>>

Again(r) == [r EXCEPT !.state = "PENDING", !.attempt = @ + 1, !.phase = "none"]

\* loopBack: `until` is not met and the attempts are not used up.
MayLoop(c) == c.ok /\ c.step \in Loops /\ row[c.step].attempt + 1 < MaxAttempts

\* What the client of a call sees once the Mediator is done with it.
Answered(c) == (reports \ {c}) \cup (IF c.live THEN {[c EXCEPT !.at = "answered"]} ELSE {})

\* ReportStep: the guard knows the node and CLAIMED, neither the attempt nor
\* the life. A report that meets anything else is a 409. A step that is
\* complete fails all the same if what must follow it fails (afterStep).
ReportStep(c) ==
    /\ c.at = "sent"
    /\ reports' = Answered(c)
    /\ \/ /\ row[c.step].state = "CLAIMED"
          /\ \/ \E done \in {c.ok, FALSE} :
                    row' = [row EXCEPT ![c.step].state = IF done THEN "DONE" ELSE "FAILED"]
             \/ MayLoop(c) /\ row' = [row EXCEPT ![c.step] = Again(@)]
       \/ row[c.step].state # "CLAIMED" /\ UNCHANGED row
    /\ UNCHANGED <<lease, late, over, node, asks, beats, exits, faults, hist>>

\* The store fails under ReportStep: nothing is written, and postResult
\* answers 409 all the same.
ReportErrs(c) ==
    /\ c.at = "sent" /\ c.live /\ Fault
    /\ reports' = Answered(c)
    /\ gaveUp' = Dropped
    /\ UNCHANGED <<server, node, asks, beats, exits, began, exited, rerun>>

\* Slip: any attempt of the step may say it has exited.
AcceptsExitAny(e) ==
    /\ row[e.step].state = "CLAIMED" /\ RunOf[e.step] \notin over
    /\ row[e.step].inst = e.life /\ row[e.step].phase = "running"
AcceptsExit(e) ==
    /\ row[e.step].state = "CLAIMED" /\ RunOf[e.step] \notin over
    /\ row[e.step].inst = e.life /\ row[e.step].attempt = e.attempt
    /\ row[e.step].phase = "running"

\* MarkExited; the node sends it again until it is answered or the report
\* is due, so it may come more than once.
MarkExited(e) ==
    /\ row' = IF AcceptsExit(e) THEN [row EXCEPT ![e.step].phase = "finalizing"] ELSE row
    /\ exits' \in {exits, exits \ {e}}
    /\ UNCHANGED <<lease, late, over, node, asks, reports, beats, faults, hist>>

\* Slip: the steps of an earlier life are left alone.
StrangersNone(l) == {}
\* FailRestarted: every claimed step of a Run under way that another life
\* than the heartbeat's has claimed.
Strangers(l) ==
    {s \in Steps : row[s].state = "CLAIMED" /\ row[s].inst # l /\ RunOf[s] \notin over}

FailRestarted(c) ==
    /\ c.at = "sent"
    /\ row' = [s \in Steps |-> IF s \in Strangers(c.life) THEN [row[s] EXCEPT !.state = "FAILED"]
                               ELSE row[s]]
    /\ beats' = (beats \ {c}) \cup {[c EXCEPT !.at = "failed"]}
    /\ UNCHANGED <<lease, late, over, node, asks, reports, exits, faults, hist>>

\* RenewLeases, late or not; the list is what was renewed.
RenewLeases(c) ==
    /\ c.at = "failed"
    /\ late' = FALSE
    /\ beats' = (beats \ {c}) \cup
                (IF c.live THEN {[c EXCEPT !.at = "given", !.list = {lease} \ {NoRun}]} ELSE {})
    /\ UNCHANGED <<lease, over, row, node, asks, reports, exits, faults, hist>>

\* A Run gets the node: its steps are created.
Grant(r) ==
    /\ lease = NoRun /\ r \notin over
    /\ lease' = r
    /\ row' = [s \in Steps |-> IF RunOf[s] = r THEN [row[s] EXCEPT !.state = "PENDING"] ELSE row[s]]
    /\ UNCHANGED <<late, over, node, net, faults, hist>>

Closed(r) == [s \in Steps |-> IF RunOf[s] = r /\ row[s].state \in Open
                              THEN [row[s] EXCEPT !.state = "FAILED"] ELSE row[s]]

\* The Run ends: cancelled or reclaimed, with its open steps; or settled,
\* because all steps are done or one -- here or on another node -- has
\* failed, which leaves the others as they are.
EndRun(r) ==
    /\ lease = r
    /\ lease' = NoRun /\ late' = FALSE /\ over' = over \cup {r}
    /\ row' \in {row, Closed(r)}
    /\ UNCHANGED <<node, net, faults, hist>>

\* The reaper closes what a failed Run left open.
Sweep ==
    /\ \E s \in Steps : RunOf[s] \in over /\ row[s].state \in Open
    /\ row' = [s \in Steps |-> IF RunOf[s] \in over /\ row[s].state \in Open
                               THEN [row[s] EXCEPT !.state = "FAILED"] ELSE row[s]]
    /\ UNCHANGED <<lease, late, over, node, net, faults, hist>>

-----------------------------------------------------------------------------
(* Time and faults.                                                         *)

\* Renewals fail for too long: the node's copy expires, and the Mediator's
\* with it unless it was the answers that were lost.
LeaseExpires ==
    /\ lease # NoRun /\ Fault
    /\ held' = held \ {lease}
    /\ \/ /\ late' = TRUE
          /\ asks' = {[c EXCEPT !.lease = @ \ {lease}] : c \in asks}
          /\ beats' = {[c EXCEPT !.list = @ \ {lease}] : c \in beats}
       \/ UNCHANGED <<late, asks, beats>>
    /\ UNCHANGED <<lease, over, row, life, worker, reports, exits, hist>>

\* The copy of a lease whose Run has ended expires too.
Forget ==
    /\ held' = held \cap {lease} /\ held' # held
    /\ UNCHANGED <<server, life, worker, net, faults, hist>>

\* An abandoned call that never takes effect.
Vanish ==
    /\ \/ \E c \in asks : ~c.live /\ asks' = asks \ {c} /\ UNCHANGED <<reports, beats>>
       \/ \E c \in reports : ~c.live /\ reports' = reports \ {c} /\ UNCHANGED <<asks, beats>>
       \/ \E c \in beats : ~c.live /\ beats' = beats \ {c} /\ UNCHANGED <<asks, reports>>
    /\ UNCHANGED <<server, node, exits, faults, hist>>

RestartNode ==
    /\ life < MaxLives
    /\ life' = life + 1 /\ worker' = Idle /\ held' = {}
    /\ asks' = {Orphan(c) : c \in {d \in asks : d.at # "given"}}
    /\ reports' = {Orphan(c) : c \in {d \in reports : d.at # "answered"}}
    /\ beats' = {Orphan(c) : c \in {d \in beats : d.at # "given"}}
    /\ UNCHANGED <<server, exits, faults, hist>>

-----------------------------------------------------------------------------
\* The node's life l begins; the Runs of gone were cancelled in the queue.
Starts(l, gone) ==
    /\ lease = NoRun /\ late = FALSE /\ over = gone
    /\ row = [s \in Steps |-> [state |-> "NONE", inst |-> 0, attempt |-> 0, phase |-> "none"]]
    /\ life = l /\ worker = Idle /\ held = {}
    /\ asks = {} /\ reports = {} /\ beats = {} /\ exits = {}
    /\ faults = 0
    /\ began = {} /\ exited = {} /\ rerun = {} /\ gaveUp = {}

Init == Starts(1, {})

Work ==
    \/ AskClaim \/ Begin \/ Refuse \/ Abort \/ Finalize \/ SendReport
    \/ \E c \in asks : GetStep(c)
    \/ \E c \in reports : Reported(c)

Advertise == SendBeat \/ \E c \in beats : GetBeat(c)

Serve ==
    \/ \E c \in asks : Look(c) \/ Redeliver(c) \/ Take(c) \/ LeaseWent(c)
    \/ \E c \in reports : ReportStep(c)

Hear == \E c \in beats : FailRestarted(c) \/ RenewLeases(c)

Lose ==
    \/ \E c \in asks : EndAsk(c)
    \/ \E c \in reports : LoseReport(c) \/ ReportErrs(c)
    \/ \E c \in beats : LoseBeat(c)
    \/ LeaseExpires \/ Forget \/ Vanish \/ RestartNode

Next ==
    \/ Work \/ Exits \/ Advertise \/ Serve \/ Hear \/ Sweep \/ Lose
    \/ \E e \in exits : MarkExited(e)
    \/ \E r \in Runs : Grant(r) \/ EndRun(r)

Spec == Init /\ [][Next]_vars

\* The node's two goroutines and the Mediator's handlers go on, and the
\* reaper's timer fires. Commands need not end, Runs need not be granted or
\* ended, exit reports need not arrive.
Fairness ==
    /\ WF_vars(Work) /\ WF_vars(Serve) /\ WF_vars(Sweep)
    /\ WF_vars(Advertise) /\ WF_vars(Hear)

FairSpec == Spec /\ Fairness

-----------------------------------------------------------------------------
(* Properties.                                                              *)

\* The tables, the node's memory and the calls keep their types.
TypeOK ==
    /\ lease \in Runs \cup {NoRun} /\ late \in BOOLEAN /\ over \subseteq Runs
    /\ row \in [Steps -> Row]
    /\ life \in Lives /\ worker \in Worker /\ held \subseteq Runs
    /\ asks \subseteq Ask /\ reports \subseteq Report /\ beats \subseteq Beat /\ exits \subseteq Exit
    /\ faults \in 0..MaxFaults
    /\ began \subseteq Execution \X Lives /\ exited \subseteq Execution \X Lives
    /\ rerun \subseteq Execution /\ gaveUp \subseteq Execution

\* INVARIANTS 2, no re-execution over a restart: one attempt of a step is
\* started by one life only, however claims of an earlier life trail in.
NoRerunAcrossLives ==
    \A e \in Execution, l, m \in Lives : <<e, l>> \in began /\ <<e, m>> \in began => l = m

\* Within a life an attempt is started again only when the Worker had
\* dropped it before the Mediator had its report.
RerunOnlyAfterGivingUp == rerun \subseteq gaveUp

\* A step is said to have exited only if the attempt in the table has, in
\* the life that claimed it.
ExitIsCurrent ==
    \A s \in Steps : row[s].phase = "finalizing" =>
        <<<<s, row[s].attempt>>, row[s].inst>> \in exited

AtWork(s) == \/ worker.pc = "running"
             \/ worker.step = s /\ worker.pc \in {"exited", "reporting"}

\* A claimed step is never stranded: it comes back to the node's Worker, or
\* is failed -- after lost claims, lost reports and restarts. Only a command
\* that still runs can keep it waiting.
ClaimsComeBack == \A s \in Steps : row[s].state = "CLAIMED" ~> row[s].state # "CLAIMED" \/ AtWork(s)

\* A command stops after its Run has lost the node, although nobody tells
\* the node: the list of the next heartbeat lacks the lease.
RevokedStops ==
    \A r \in Runs : worker.pc = "running" /\ r \in over /\ Mine = r
        ~> ~(worker.pc = "running" /\ Mine = r)

\* claim.go: a step that is given again has not been started, so giving it
\* again does not run it twice.
NoDoubleRun == rerun = {}
=============================================================================
