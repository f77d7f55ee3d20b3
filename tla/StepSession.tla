---------------------------- MODULE StepSession -----------------------------
(***************************************************************************)
(* One step in a runc-overlay session, from the claim to the report        *)
(* (internal/enode: execute and closeOut of claim.go, finalize.go,         *)
(* runc_overlay_linux.go).                                                 *)
(*                                                                         *)
(* The Worker talks over two pipes to a helper in a namespace of its own,  *)
(* which mounts the overlay and runs the commands. Beside the Worker's     *)
(* goroutine each Run has a goroutine that sends a cancel when the lease   *)
(* ends; beside the helper's loop each command has one that starts it,     *)
(* waits for it and answers. The helper may die or not answer, the lease   *)
(* may end and the Finalize budget may run out at any time.                *)
(*                                                                         *)
(* Left out: Project, a request like the others; the writers of stdout and *)
(* stderr, none of which fails; the content of folders.                    *)
(***************************************************************************)
EXTENDS Integers, Sequences, FiniteSets

CONSTANTS
    MaxRuns,     \* commands of the step (a bake has several, a step one)
    WithDiff,    \* the step returns a workspace.diff
    MaxCrashes   \* bound: deaths of the helper nobody asked for

ASSUME RunsAreCounted == MaxRuns \in Nat

VARIABLES
    pc,          \* where the Worker is
    runs,        \* number of the last Run of the session
    ended, late, \* the lease has ended, the Finalize budget has run out
    cancellers,  \* Runs whose cancel goroutine has not come back
    toHelper, toHost, stdin,  \* the pipes; stdin is open or closed
    helper,      \* up, final (in finalize), closing, shot (SIGKILL on its way), gone
    running, canceled,        \* the helper's flags
    proc,        \* its command
    mounted,     \* the overlay is mounted in the helper's namespace
    home, upper, held,        \* session folder, upper, session lock
    step,        \* what the Worker has learned: finErr, closeErr, plan, moved, closedLate,
                 \*   capture, finalize and upload; how it reported
    slot,        \* the checkpoint reservation: none, reserved, used, disposed
    exitNote,    \* the goroutine that reports the exit: none, sending, stopped
    crashes      \* bound: deaths so far

wires == <<toHelper, toHost, stdin>>
inside == <<helper, running, canceled, proc, mounted>>
folders == <<home, upper, held>>
clock == <<ended, late>>
work == <<slot, exitNote>>
vars == <<pc, runs, clock, cancellers, wires, inside, folders, step, work, crashes>>

-----------------------------------------------------------------------------
NoProc == [run |-> 0, st |-> "none", dying |-> FALSE]

Fresh(at) ==
    /\ pc = at /\ runs = 0 /\ ended = FALSE /\ late = FALSE /\ cancellers = {}
    /\ toHelper = <<>> /\ toHost = <<>> /\ stdin = TRUE
    /\ helper = "none" /\ running = FALSE /\ canceled = FALSE /\ proc = NoProc /\ mounted = FALSE
    /\ home = "none" /\ upper = "none" /\ held = FALSE
    /\ step = [finErr |-> "none", closeErr |-> FALSE, plan |-> FALSE, moved |-> "no", closedLate |-> FALSE, capture |-> "no", finalize |-> "none", upload |-> "none", report |-> "none"]
    /\ slot = "none" /\ exitNote = "none" /\ crashes = 0

Init == Fresh("claimed")

Alive == helper \notin {"none", "gone"}

\* A write to a dead helper fails.
Send(op) == toHelper' = IF Alive THEN Append(toHelper, op) ELSE toHelper

Answered(op) == toHost # <<>> /\ Head(toHost).op = op
Take == toHost' = Tail(toHost)
NoAnswer == toHost = <<>> /\ ~Alive

Respond(op, how) == toHost' = Append(toHost, [op |-> op, run |-> proc.run, how |-> how])

\* The kernel: with the helper go its namespace and what runs in it.
Dies == helper' = "gone" /\ running' = FALSE /\ canceled' = FALSE /\ proc' = NoProc /\ mounted' = FALSE

\* release: once; the folder first, the lock second.
Released == home' = "trash" /\ upper' = (IF upper = "home" THEN "trash" ELSE upper) /\ held' = FALSE

\* abort: kill, wait, release.
Abort ==
    /\ Dies /\ toHelper' = <<>> /\ toHost' = <<>> /\ stdin' = FALSE
    /\ Released

-----------------------------------------------------------------------------
(* The Worker.                                                             *)

Reports(how) == step' = [step EXCEPT !.report = how] /\ pc' = "over"

\* The lease is asked before anything is prepared, and then no report is sent;
\* nor without a folder for $OUT or $IN. A lower that changed, a workspace that
\* cannot be prepared and an input that cannot be fetched are reported.
Begin ==
    /\ pc = "claimed"
    /\ \/ Reports("none")
       \/ ~ended /\ Reports("refused")
       \/ ~ended /\ pc' = "open" /\ UNCHANGED step
    /\ UNCHANGED <<runs, clock, cancellers, wires, inside, folders, work, crashes>>

\* The session folder and its lock, the helper, the request; what fails before
\* the helper is up goes through discard.
Open ==
    /\ pc = "open"
    /\ \/ /\ Reports("refused") /\ home' \in {"none", "trash"}
          /\ UNCHANGED <<held, helper, toHelper>>
       \/ /\ ~ended
          /\ home' = "home" /\ held' = TRUE /\ helper' = "up"
          /\ toHelper' = <<[op |-> "open", run |-> 0]>>
          /\ pc' = "opening" /\ UNCHANGED step
    /\ UNCHANGED <<runs, clock, cancellers, toHost, stdin, running, canceled, proc, mounted, upper, work, crashes>>

\* The reservation is made once the session is open, before any command.
Opened ==
    /\ pc = "opening"
    /\ \/ /\ Answered("opened") /\ Head(toHost).how = "ok" /\ Take
          /\ pc' = "ready" /\ slot' \in {"none", "reserved"}
          /\ UNCHANGED <<toHelper, stdin, inside, folders, step>>
       \/ /\ NoAnswer \/ (Answered("opened") /\ Head(toHost).how # "ok")
          /\ Abort /\ Reports("refused") /\ UNCHANGED slot
    /\ UNCHANGED <<runs, clock, cancellers, exitNote, crashes>>

\* run: the request, then the goroutine that sends the cancel.
Request(to) ==
    /\ runs' = runs + 1
    /\ IF Alive THEN /\ Send([op |-> "run", run |-> runs'])
                     /\ cancellers' = cancellers \cup {runs'}
                     /\ pc' = to
       ELSE pc' = (IF to = "running" THEN "stop" ELSE "decide") /\ UNCHANGED <<toHelper, cancellers>>

Run ==
    /\ pc = "ready" /\ runs < MaxRuns
    /\ Request("running")
    /\ UNCHANGED <<clock, toHost, stdin, inside, folders, step, work, crashes>>

\* Run waits for the answer, whatever the context.
RunComesBack == toHost # <<>> \/ NoAnswer

\* A lease that ended ends the step without Finalize; so does a command that
\* did not start, but an agent's step goes on. What started is reported.
Ran ==
    /\ pc = "running" /\ RunComesBack
    /\ toHost' = IF toHost # <<>> THEN Tail(toHost) ELSE toHost
    /\ LET started == toHost # <<>> /\ Head(toHost).how \in {"ok", "killed"} IN
       /\ pc' \in IF ended THEN {"stop"} ELSE IF started THEN {"ready"} ELSE {"stop", "ready"}
       /\ exitNote' = IF started /\ ~ended THEN "sending" ELSE exitNote
    /\ UNCHANGED <<runs, clock, cancellers, toHelper, stdin, inside, folders, step, slot, crashes>>

\* The goroutine of a Run: either branch of its select when both are ready.
Returned(r) == ~(r = runs /\ pc \in {"running", "diffing"})
Over(r) == ended \/ (late /\ r > MaxRuns)

Cancel ==
    /\ \E r \in cancellers :
        /\ cancellers' = cancellers \ {r}
        /\ \/ Over(r) /\ stdin /\ Send([op |-> "cancel", run |-> 0])
           \/ (Returned(r) \/ (Over(r) /\ ~stdin)) /\ UNCHANGED toHelper
    /\ UNCHANGED <<pc, runs, clock, toHost, stdin, inside, folders, step, work, crashes>>

Finalize ==
    /\ pc = "ready" /\ runs > 0
    /\ Send([op |-> "finalize", run |-> 0])
    /\ pc' = IF Alive THEN "finalizing" ELSE "decide"
    /\ step' = [step EXCEPT !.finErr = IF Alive THEN @ ELSE "error"]
    /\ UNCHANGED <<runs, clock, cancellers, toHost, stdin, inside, folders, work, crashes>>

\* ctx.Err of the Finalize context.
Expired == IF ended THEN "error" ELSE IF late THEN "deadline" ELSE "none"

Finalized ==
    /\ pc = "finalizing"
    /\ \/ /\ Answered("finalized") /\ Take
          /\ LET err == IF Head(toHost).how = "ok" THEN (IF WithDiff THEN Expired ELSE "none") ELSE "deadline" IN
             /\ step' = [step EXCEPT !.finErr = err]
             /\ pc' = IF WithDiff /\ err = "none" THEN "diff" ELSE "decide"
       \/ /\ NoAnswer /\ pc' = "decide"
          /\ step' = [step EXCEPT !.finErr = "error"]
          /\ UNCHANGED toHost
    /\ UNCHANGED <<runs, clock, cancellers, toHelper, stdin, inside, folders, work, crashes>>

\* helperGrace after the context ended. Who would still cancel finds the pipe closed.
GraceOver ==
    /\ pc = "finalizing" /\ (ended \/ late) /\ toHost = <<>> /\ Alive
    /\ Abort
    /\ step' = [step EXCEPT !.finErr = Expired, !.moved = "aborted"]
    /\ pc' = "decide" /\ cancellers' = {}
    /\ UNCHANGED <<runs, clock, work, crashes>>

\* diffInSession: the diff, and once more for its summary when it is too long.
Diff ==
    /\ pc = "diff"
    /\ runs' = IF runs < MaxRuns + 1 THEN MaxRuns + 1 ELSE runs + 1
    /\ IF Alive THEN Send([op |-> "run", run |-> runs']) /\ cancellers' = cancellers \cup {runs'} /\ pc' = "diffing"
       ELSE pc' = "decide" /\ UNCHANGED <<toHelper, cancellers>>
    /\ UNCHANGED <<clock, toHost, stdin, inside, folders, step, work, crashes>>

Diffed ==
    /\ pc = "diffing" /\ RunComesBack
    /\ toHost' = IF toHost # <<>> THEN Tail(toHost) ELSE toHost
    /\ pc' \in IF toHost # <<>> /\ Head(toHost).how = "ok" /\ runs = MaxRuns + 1 THEN {"diff", "decide"} ELSE {"decide"}
    /\ step' = [step EXCEPT !.finErr = IF pc' = "decide" THEN Expired ELSE @]
    /\ UNCHANGED <<runs, clock, cancellers, toHelper, stdin, inside, folders, work, crashes>>

\* Decide: not after the budget.
InBudget == step.finErr # "deadline" /\ ~late

\* Decide, Close: to an aborted session nothing is said.
Decide ==
    /\ pc \in {"decide", "stop"}
    /\ \E want \in BOOLEAN :
        /\ want => pc = "decide" /\ InBudget /\ slot = "reserved"
        /\ step' = [step EXCEPT !.plan = want, !.finalize = IF pc = "stop" THEN "none" ELSE "ok",
                                !.closeErr = ~Alive /\ step.moved # "aborted",
                                !.closedLate = late]
    /\ IF step.moved = "aborted" THEN pc' = "closed" /\ UNCHANGED toHelper
       ELSE Send([op |-> "close", run |-> 0]) /\ pc' = IF Alive THEN "closing" ELSE "exiting"
    /\ UNCHANGED <<runs, clock, cancellers, toHost, stdin, inside, folders, work, crashes>>

Closed ==
    /\ pc = "closing"
    /\ \/ toHost # <<>> /\ Take /\ step' = [step EXCEPT !.closeErr = Head(toHost).op # "closed" \/ Head(toHost).how # "ok"]
       \/ NoAnswer /\ step' = [step EXCEPT !.closeErr = TRUE] /\ UNCHANGED toHost
    /\ stdin' = FALSE /\ pc' = "exiting"
    /\ UNCHANGED <<runs, clock, cancellers, toHelper, inside, folders, work, crashes>>

\* The helper's exit, or SIGKILL after three seconds, and no wait. The pipe is
\* closed: who would still cancel has nothing to write to.
Exited ==
    /\ pc = "exiting"
    /\ stdin' = FALSE
    /\ \/ helper = "gone" /\ UNCHANGED <<helper, step>>
       \/ /\ helper # "gone"
          /\ helper' = "shot" /\ step' = [step EXCEPT !.closeErr = TRUE]
    /\ pc' = "keep" /\ cancellers' = {}
    /\ UNCHANGED <<runs, clock, toHelper, toHost, running, canceled, proc, mounted, folders, work, crashes>>

\* keepUpper: one rename, which may fail.
KeepUpper ==
    /\ pc = "keep"
    /\ \/ step.plan /\ ~late /\ upper' = "kept" /\ step' = [step EXCEPT !.moved = "yes"]
       \/ UNCHANGED <<upper, step>>
    /\ pc' = "release"
    /\ UNCHANGED <<runs, clock, cancellers, wires, inside, home, held, work, crashes>>

\* release has two steps: the move and the lock.
Release ==
    /\ pc = "release" /\ home = "home"
    /\ home' = "trash" /\ upper' = (IF upper = "home" THEN "trash" ELSE upper)
    /\ UNCHANGED <<pc, runs, clock, cancellers, wires, inside, held, step, work, crashes>>

LetGo ==
    /\ pc = "release" /\ home = "trash"
    /\ held' = FALSE /\ pc' = "closed"
    /\ step' = [step EXCEPT !.closedLate = late]
    /\ UNCHANGED <<runs, clock, cancellers, wires, inside, home, upper, work, crashes>>

\* Slip: what was moved is committed, in time or not.
CommitsLate(s) == s.moved = "yes"

\* finishKeep: committed while there is budget, abandoned after.
Commits(s) == s.moved = "yes" /\ ~late

\* Finish, and then closedLate, which asks the lease. What cannot be recorded is abandoned.
Finish ==
    /\ pc = "closed"
    /\ \E recorded \in BOOLEAN :
        /\ recorded => Commits(step)
        /\ step' = [step EXCEPT
              !.capture = IF recorded THEN "captured" ELSE IF step.plan THEN "failed" ELSE "no",
              !.closedLate = @ /\ ~ended]
        /\ slot' = IF recorded THEN "used" ELSE IF step.moved = "yes" THEN "disposed" ELSE slot
    /\ pc' = "upload"
    /\ UNCHANGED <<runs, clock, cancellers, wires, inside, folders, exitNote, crashes>>

\* settle: the lease's end is an error and not a timeout.
Stage ==
    IF ~ended /\ (step.finErr = "deadline" \/ (step.finErr = "none" /\ step.closedLate)) THEN "timeout"
    ELSE IF step.finErr # "none" \/ step.closeErr THEN "error" ELSE "ok"

\* The upload may be cut short by its budget, and is by the lease. A step that
\* stopped uploads its log only.
Upload ==
    /\ pc = "upload"
    /\ \E how \in {"ok", "timeout", "error"} :
        step' = IF step.finalize = "none" THEN step
                ELSE [step EXCEPT !.finalize = Stage,
                                  !.upload = IF ended /\ how = "timeout" THEN "error" ELSE how]
    /\ pc' = "report"
    /\ UNCHANGED <<runs, clock, cancellers, wires, inside, folders, work, crashes>>

\* The exit's goroutine is stopped before the result is sent; the reservation
\* goes after it.
Report ==
    /\ pc = "report"
    /\ Reports(IF step.finalize = "none" \/ ended THEN "aborted" ELSE "result")
    /\ exitNote' = (IF exitNote = "sending" THEN "stopped" ELSE exitNote)
    /\ slot' = IF slot = "reserved" THEN "disposed" ELSE slot
    /\ UNCHANGED <<runs, clock, cancellers, wires, inside, folders, crashes>>

Host ==
    \/ Begin \/ Open \/ Opened \/ Run \/ Ran \/ Finalize \/ Finalized \/ GraceOver \/ Diff \/ Diffed
    \/ Decide \/ Closed \/ Exited \/ KeepUpper \/ Release \/ LetGo \/ Finish \/ Upload \/ Report

-----------------------------------------------------------------------------
(* The helper's loop.                                                      *)

Reads(op) == helper = "up" /\ toHelper # <<>> /\ Head(toHelper).op = op
Consume == toHelper' = Tail(toHelper)

HelperOpens ==
    /\ Reads("open") /\ Consume
    /\ \E ok \in BOOLEAN :
        /\ mounted' = ok /\ upper' = IF ok THEN "home" ELSE upper
        /\ Respond("opened", IF ok THEN "ok" ELSE "error")
    /\ UNCHANGED <<pc, runs, clock, cancellers, stdin, helper, running, canceled, proc, home, held, step, work, crashes>>

HelperRuns ==
    /\ Reads("run") /\ Consume
    /\ IF running
       THEN Respond("refused", "error") /\ UNCHANGED <<running, canceled, proc>>
       ELSE /\ running' = TRUE /\ canceled' = FALSE
            /\ proc' = [run |-> Head(toHelper).run, st |-> "spawned", dying |-> FALSE]
            /\ UNCHANGED toHost
    /\ UNCHANGED <<pc, runs, clock, cancellers, stdin, helper, mounted, folders, step, work, crashes>>

\* cancel: the flag, and a kill when the command is known.
Struck == [proc EXCEPT !.dying = @ \/ proc.st = "active"]

HelperCancels ==
    /\ Reads("cancel") /\ Consume
    /\ canceled' = TRUE /\ proc' = Struck
    /\ UNCHANGED <<pc, runs, clock, cancellers, toHost, stdin, helper, running, mounted, folders, step, work, crashes>>

HelperReadsFinal ==
    /\ Reads("finalize") /\ Consume
    /\ helper' = "final"
    /\ UNCHANGED <<pc, runs, clock, cancellers, toHost, stdin, running, canceled, proc, mounted, folders, step, work, crashes>>

\* waitRun, finalize: its own clock has the same deadline.
HelperFinalizes ==
    /\ helper = "final" /\ proc = NoProc
    /\ Respond("finalized", IF late THEN "deadline" ELSE "ok")
    /\ helper' = "up"
    /\ UNCHANGED <<pc, runs, clock, cancellers, toHelper, stdin, running, canceled, proc, mounted, folders, step, work, crashes>>

\* close, or the end of the pipe: cancel.
HelperCloses ==
    /\ \/ Reads("close") /\ Consume /\ helper' = "closing"
       \/ /\ helper = "up" /\ toHelper = <<>> /\ ~stdin
          /\ helper' = "leaving" /\ UNCHANGED toHelper
    /\ canceled' = TRUE /\ proc' = Struck
    /\ UNCHANGED <<pc, runs, clock, cancellers, toHost, stdin, running, mounted, folders, step, work, crashes>>

\* waitRun, cleanup: unmount only. A projection that cannot be unmounted is told; the overlay can.
\* After the answer the process ends, and its pipe and memory with it.
HelperCleans ==
    /\ helper \in {"closing", "leaving"} /\ proc = NoProc
    /\ IF helper = "closing"
       THEN /\ mounted' = FALSE /\ helper' = "leaving"
            /\ \E how \in {"ok", "error"} : Respond("closed", how)
            /\ UNCHANGED <<toHelper, running, canceled, proc>>
       ELSE Dies /\ toHelper' = <<>> /\ UNCHANGED toHost
    /\ UNCHANGED <<pc, runs, clock, cancellers, stdin, folders, step, work, crashes>>

\* runProcess.
Runs(st) == helper \notin {"gone", "shot"} /\ proc.st = st

Start ==
    /\ Runs("spawned")
    /\ \/ proc' = [proc EXCEPT !.st = "started"] /\ UNCHANGED toHost
       \/ proc' = [proc EXCEPT !.st = "answered"] /\ Respond("run-done", "error")
    /\ UNCHANGED <<pc, runs, clock, cancellers, toHelper, stdin, helper, running, canceled, mounted, folders, step, work, crashes>>

\* Slip: the flag is not asked when the command is made known.
MissedCancel == FALSE

\* A cancel that came before the command was known.
EarlyCancel == canceled

Known ==
    /\ Runs("started")
    /\ proc' = [proc EXCEPT !.st = "active", !.dying = EarlyCancel]
    /\ UNCHANGED <<pc, runs, clock, cancellers, wires, helper, running, canceled, mounted, folders, step, work, crashes>>

\* The command ends by itself, or dies.
CommandEnds(dying) ==
    /\ Runs("active") /\ proc.dying = dying
    /\ proc' = [proc EXCEPT !.st = "answered"]
    /\ Respond("run-done", IF dying THEN "killed" ELSE "ok")
    /\ UNCHANGED <<pc, runs, clock, cancellers, toHelper, stdin, helper, running, canceled, mounted, folders, step, work, crashes>>

\* The deferred reset, after the answer.
Reset ==
    /\ Runs("answered")
    /\ running' = FALSE /\ canceled' = FALSE /\ proc' = NoProc
    /\ UNCHANGED <<pc, runs, clock, cancellers, wires, helper, mounted, folders, step, work, crashes>>

HelperDies ==
    /\ \/ helper = "shot" /\ UNCHANGED crashes
       \/ Alive /\ helper # "shot" /\ crashes < MaxCrashes /\ crashes' = crashes + 1
    /\ Dies /\ toHelper' = <<>>
    /\ UNCHANGED <<pc, runs, clock, cancellers, toHost, stdin, folders, step, work>>

Helper ==
    \/ HelperOpens \/ HelperRuns \/ HelperCancels \/ HelperReadsFinal \/ HelperCloses \/ HelperCleans
    \/ Start \/ Known \/ CommandEnds(TRUE) \/ Reset

-----------------------------------------------------------------------------
LeaseEnds ==
    /\ ~ended /\ pc # "over"
    /\ ended' = TRUE
    /\ UNCHANGED <<pc, runs, late, cancellers, wires, inside, folders, step, work, crashes>>

\* The budget of Finalize counts from the exit of the command. Once the capture
\* is settled only the upload can still run out of it (Upload).
BudgetEnds ==
    /\ ~late /\ runs > 0 /\ pc \notin {"running", "upload", "report", "over"}
    /\ late' = TRUE
    /\ UNCHANGED <<pc, runs, ended, cancellers, wires, inside, folders, step, work, crashes>>

Next ==
    \/ Host \/ Cancel \/ Helper \/ HelperFinalizes \/ CommandEnds(FALSE) \/ HelperDies
    \/ LeaseEnds \/ BudgetEnds

Spec == Init /\ [][Next]_vars

\* The Worker and the goroutines run; a command need not end and a finalize
\* need not come back; a budget that is counted runs out.
Fairness ==
    /\ WF_vars(Host) /\ WF_vars(Cancel) /\ WF_vars(Helper)
    /\ WF_vars(HelperDies /\ helper = "shot")
    /\ WF_vars(pc = "finalizing" /\ BudgetEnds)

FairSpec == Spec /\ Fairness

-----------------------------------------------------------------------------
TypeOK ==
    /\ pc \in {"claimed", "open", "opening", "ready", "running", "stop", "finalizing", "diff", "diffing", "decide",
               "closing", "exiting", "keep", "release", "closed", "upload", "report", "over"}
    /\ helper \in {"none", "up", "final", "closing", "leaving", "shot", "gone"}
    /\ proc.st \in {"none", "spawned", "started", "active", "answered"}
    /\ (proc.st # "none") = running
    /\ home \in {"none", "home", "trash"} /\ upper \in {"none", "home", "kept", "trash"}
    /\ cancellers \subseteq 1..MaxRuns + 2
    /\ Len(toHost) <= 1
    /\ step.finalize \in {"none", "ok", "timeout", "error"} /\ step.upload \in {"none", "ok", "timeout", "error"}
    /\ step.capture \in {"no", "captured", "failed"} /\ step.report \in {"none", "refused", "aborted", "result"}

\* What the Worker reads next is the answer to what it asked last, although
\* cancels go in between and Runs are given up by the lease.
AnswersMatch ==
    toHost # <<>> =>
        CASE pc = "opening"    -> Head(toHost).op = "opened"
          [] pc \in {"running", "diffing"} ->
                Head(toHost).op = "refused" \/ (Head(toHost).op = "run-done" /\ Head(toHost).run = runs)
          [] pc = "finalizing" -> Head(toHost).op = "finalized"
          [] pc = "closing"    -> Head(toHost).op = "closed"
          [] OTHER             -> FALSE

\* What the receipt calls captured was moved in time, out of a namespace that
\* had ended, and is not in the trash; and a
\* step whose Finalize ran out of its budget captures nothing.
CapturedIsWhole ==
    /\ step.capture = "captured" =>
          upper = "kept" /\ step.finErr # "deadline" /\ ~mounted
    /\ ~held => home # "home" /\ upper # "home"
    /\ pc = "over" /\ step.finalize = "timeout" => step.capture # "captured"

\* A session runs one command after the other.
NextRunStarts == \A i \in DOMAIN toHost : toHost[i].op # "refused"

\* Once the lease has ended the step comes to its report and leaves no folder,
\* lock, reservation or goroutine, with a helper that died or does not come back from finalize.
StepEnds == ended ~> (pc = "over" /\ home # "home" /\ ~held /\ slot # "reserved" /\ exitNote # "sending")
=============================================================================
