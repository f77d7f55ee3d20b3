---------------------------- MODULE IssueAdapter ----------------------------
(***************************************************************************)
(* The adapter between an issue tracker and the fleet (cmd/iapadapter), at *)
(* one issue.                                                              *)
(*                                                                         *)
(* The tracker queues jobs: new work on the issue, or a mention in a       *)
(* comment. The adapter leases them and handles each in a goroutine: new   *)
(* work starts an orchestrator process, submits a Run named after the      *)
(* issue and a generation, and follows it; a mention is taken for the      *)
(* answer to the question that is open. The adapter keeps no tables: it    *)
(* may die at any step, and a job whose lease runs out is given again.     *)
(* Every call may fail, done or not.                                       *)
(*                                                                         *)
(* The tracker, the Mediator's Runs and the orchestrator processes are     *)
(* modelled as far as the adapter meets them. Left out: the columns of the *)
(* board, which nobody reads back; the texts; the answer 409 to a          *)
(* submission, which the Mediator does not give since it queues Runs.      *)
(***************************************************************************)
EXTENDS Integers, FiniteSets

CONSTANTS
    Work,       \* jobs that are new work
    Mentions,   \* jobs that are mentions
    Handlers,   \* goroutines of the adapter
    NoJob,      \* none of the jobs
    MaxGen,     \* generations of the issue's Run (50 in the code)
    MaxAsks,    \* bound: questions a Run asks
    MaxProcs,   \* bound: orchestrators started
    MaxFaults   \* bound: crashes, failed calls, leases lost

ASSUME GenerationsAreCounted == MaxGen \in Nat

VARIABLES
    jobs,       \* at the tracker: st, result, about (the question a mention replies to)
    comments,   \* on the issue: questions <<g, q>> and results <<g, 0>>
    runs,       \* at the Mediator: st, asks so far, open (the last one is not answered)
    procs,      \* orchestrator processes of the issue: st, held (it had a lease), home, reap
    hs,         \* goroutines: at, job, gen, q, proc, say
    given,      \* <<j, g, q>>: mention j answered question q of Run g
    faults

vars == <<jobs, comments, runs, procs, hs, given, faults>>
outside == <<jobs, comments, runs, procs>>

Jobs == Work \cup Mentions
Gens == 1..MaxGen
Procs == 1..MaxProcs

Idle == [at |-> "idle", job |-> NoJob, gen |-> 0, q |-> 0, proc |-> 0, say |-> "none"]

Ended(g) == runs[g].st \in {"succeeded", "failed"}
Live(g) == runs[g].st = "running"
Asking(g) == Live(g) /\ runs[g].open
Up(p) == procs[p].st = "up"

\* A call that fails counts as a fault, whether it was done or not.
May(fails) == fails => faults < MaxFaults
Count(fails) == faults' = IF fails THEN faults + 1 ELSE faults

-----------------------------------------------------------------------------
(* The tracker, and people.                                                *)

Delegate(j) ==
    /\ j \in Work /\ jobs[j].st = "none"
    /\ jobs' = [jobs EXCEPT ![j].st = "queued"]
    /\ UNCHANGED <<comments, runs, procs, hs, given, faults>>

\* A person replies to a question, or mentions the agent for some other reason.
Mention(j) ==
    /\ j \in Mentions /\ jobs[j].st = "none"
    /\ \E c \in comments \cup {<<0, 0>>} :
          /\ c[2] > 0 \/ c = <<0, 0>>
          /\ jobs' = [jobs EXCEPT ![j].st = "queued", ![j].about = c]
    /\ UNCHANGED <<comments, runs, procs, hs, given, faults>>

Held(j) == \E h \in Handlers : hs[h].job = j

\* Nobody extends the lease, or the heartbeats of who handles it are lost.
LeaseEnds(j) ==
    /\ jobs[j].st = "leased"
    /\ May(Held(j)) /\ Count(Held(j))
    /\ jobs' = [jobs EXCEPT ![j].st = "queued"]
    /\ UNCHANGED <<comments, runs, procs, hs, given>>

-----------------------------------------------------------------------------
(* The Mediator's side of a Run, and the orchestrators.                    *)

Planner == \E p \in Procs : Up(p) /\ procs[p].home

RunAsks(g) ==
    /\ Live(g) /\ ~runs[g].open /\ runs[g].asks < MaxAsks
    /\ Planner
    /\ runs' = [runs EXCEPT ![g].open = TRUE, ![g].asks = @ + 1]
    /\ UNCHANGED <<jobs, comments, procs, hs, given, faults>>

\* Also a question whose time is over, a cancel, or a planner that is lost.
RunEnds(g) ==
    /\ Live(g)
    /\ \E st \in {"succeeded", "failed"} :
          /\ st = "succeeded" => ~runs[g].open /\ Planner
          /\ runs' = [runs EXCEPT ![g].st = st, ![g].open = FALSE]
    /\ UNCHANGED <<jobs, comments, procs, hs, given, faults>>

\* --once: it had a lease, and there is none now.
OnceExits(p) ==
    /\ Up(p) /\ procs[p].held
    /\ \A g \in Gens : ~Live(g)
    /\ procs' = [procs EXCEPT ![p].st = "gone"]
    /\ UNCHANGED <<jobs, comments, runs, hs, given, faults>>

\* Its folder is the issue's: who removes it takes it from all that use it.
Homeless(ps) == [p \in Procs |-> [ps[p] EXCEPT !.home = FALSE]]

\* The goroutine that Detach left behind.
Reap(p) ==
    /\ procs[p].st = "gone" /\ procs[p].reap
    /\ procs' = Homeless([procs EXCEPT ![p].reap = FALSE])
    /\ UNCHANGED <<jobs, comments, runs, hs, given, faults>>

-----------------------------------------------------------------------------
(* The adapter takes a job.                                                *)

Handler(j) == [Idle EXCEPT !.at = IF j \in Work THEN "probe" ELSE "find", !.job = j]

\* When the answer is lost, the job is leased and nobody has it.
Claim(h, j) ==
    /\ hs[h] = Idle /\ jobs[j].st = "queued"
    /\ jobs' = [jobs EXCEPT ![j].st = "leased"]
    /\ \E fails \in BOOLEAN :
          /\ May(fails) /\ Count(fails)
          /\ hs' = [hs EXCEPT ![h] = IF fails THEN Idle ELSE Handler(j)]
    /\ UNCHANGED <<comments, runs, procs, given>>

At(h, at) == hs[h].at = at
Go(h, at) == hs' = [hs EXCEPT ![h].at = at]
Says(h, at, result) == hs' = [hs EXCEPT ![h].at = at, ![h].say = result]

-----------------------------------------------------------------------------
(* New work.                                                               *)

\* nextRunID: the first generation there is not, if those before have ended.
Blocked(g) == \E e \in 1..(g - 1) : ~Ended(e)

\* Slip: only what is there is looked at, not whether it has ended.
NextGenAny == {g \in Gens : runs[g].st = "none" /\ \A e \in 1..(g - 1) : runs[e].st # "none"}

NextGen == {g \in Gens : runs[g].st = "none" /\ ~Blocked(g)}

Probe(h) ==
    /\ At(h, "probe")
    /\ \E fails \in BOOLEAN :
          /\ May(fails) /\ Count(fails)
          /\ IF fails \/ NextGen = {} THEN Says(h, "result", "failed")
             ELSE \E g \in NextGen : hs' = [hs EXCEPT ![h].at = "start", ![h].gen = g]
    /\ UNCHANGED <<outside, given>>

\* A number that stands for no process, or for one nobody has to do with.
Free(p) ==
    /\ ~Up(p) /\ ~procs[p].reap
    /\ \A h \in Handlers : hs[h].proc # p

StartOrchestrator(h) ==
    /\ At(h, "start")
    /\ \E p \in {f \in Procs : Free(f)} :
          /\ \A o \in 1..(p - 1) : ~Free(o)
          /\ procs' = [procs EXCEPT ![p] = [st |-> "up", held |-> FALSE, home |-> TRUE, reap |-> FALSE]]
          /\ hs' = [hs EXCEPT ![h].at = "ready", ![h].proc = p]
    /\ UNCHANGED <<jobs, comments, runs, given, faults>>

\* The ready file is there, and the advert shows the issue's label: it does
\* not tell which process of the issue it is from. Or the time is over.
WaitAdvertised(h) ==
    /\ At(h, "ready")
    /\ \/ /\ procs[hs[h].proc].home /\ Planner
          /\ Go(h, "submit")
          /\ UNCHANGED faults
       \/ /\ LET fails == procs[hs[h].proc].home /\ Planner IN May(fails) /\ Count(fails)
          /\ Says(h, "failout", "failed")
    /\ UNCHANGED <<outside, given>>

\* A Run there is already is left as it is; a new one may be refused for good.
Created(g, st) == IF runs[g].st = "none" THEN [runs EXCEPT ![g].st = st] ELSE runs

\* All processes of the issue are one node to the Mediator.
Leased(g) == [p \in Procs |-> IF Up(p) /\ runs[g].st = "none" THEN [procs[p] EXCEPT !.held = TRUE] ELSE procs[p]]

SubmitRun(h) ==
    /\ At(h, "submit")
    /\ LET g == hs[h].gen IN
       \/ /\ runs' = Created(g, "running") /\ procs' = Leased(g)
          /\ \E lost \in BOOLEAN :
                /\ May(lost) /\ Count(lost)
                /\ IF lost THEN Says(h, "failout", "failed") ELSE Go(h, "follow")
       \/ /\ runs[g].st = "none"
          /\ runs' = Created(g, "failed")
          /\ Says(h, "failout", "failed")
          /\ UNCHANGED <<procs, faults>>
       \/ /\ May(TRUE) /\ Count(TRUE)
          /\ Says(h, "failout", "failed")
          /\ UNCHANGED <<runs, procs>>
    /\ UNCHANGED <<jobs, comments, given>>

-----------------------------------------------------------------------------
(* A Run is followed until it ends or asks.                                *)


Follow(h) ==
    /\ At(h, "follow")
    /\ LET g == hs[h].gen IN
       \/ /\ Ended(g)
          /\ Says(h, "finish", IF runs[g].st = "succeeded" THEN "success" ELSE "failed")
       \/ /\ Asking(g)
          /\ hs' = [hs EXCEPT ![h].at = "handoff", ![h].q = runs[g].asks, ![h].say = "success"]
    /\ UNCHANGED <<outside, given, faults>>

\* A comment is posted or not; whatever the answer, the goroutine goes on.
Post(h, c, fine, failed) ==
    \E posted \in BOOLEAN, fails \in BOOLEAN :
        /\ ~posted => fails
        /\ May(fails) /\ Count(fails)
        /\ comments' = IF posted THEN comments \cup {c} ELSE comments
        /\ hs' = [hs EXCEPT ![h].at = "result", ![h].say = IF fails THEN failed ELSE fine]
        /\ UNCHANGED <<jobs, runs, procs, given>>

HandOff(h) == At(h, "handoff") /\ Post(h, <<hs[h].gen, hs[h].q>>, "success", "failed")

Finish(h) == At(h, "finish") /\ Post(h, <<hs[h].gen, 0>>, hs[h].say, hs[h].say)

\* Its comment tells that it could not start; it is neither question nor result.
FailOut(h) ==
    /\ At(h, "failout")
    /\ Go(h, "result")
    /\ UNCHANGED <<outside, given, faults>>

\* Whoever handed a question off leaves the orchestrator running.
Detached(h) == hs[h].q > 0

\* Stop kills it, waits and removes the folder.
LetGo(h) ==
    LET p == hs[h].proc IN
    procs' = IF p = 0 THEN procs
             ELSE IF Detached(h) THEN [procs EXCEPT ![p].reap = TRUE]
             ELSE Homeless([procs EXCEPT ![p].st = "gone"])

\* The result closes the job, unless the call fails.
Result(h) ==
    /\ At(h, "result")
    /\ \E fails \in BOOLEAN :
          /\ May(fails) /\ Count(fails)
          /\ jobs' = IF fails \/ jobs[hs[h].job].st = "closed" THEN jobs
                     ELSE [jobs EXCEPT ![hs[h].job].st = "closed", ![hs[h].job].result = hs[h].say]
    /\ Go(h, "leave")
    /\ UNCHANGED <<comments, runs, procs, given>>

\* What was deferred, and the goroutine ends.
Leave(h) ==
    /\ At(h, "leave")
    /\ LetGo(h)
    /\ hs' = [hs EXCEPT ![h] = Idle]
    /\ UNCHANGED <<jobs, comments, runs, given, faults>>

-----------------------------------------------------------------------------
(* A mention.                                                              *)

AskingGens == {g \in Gens : Asking(g)}

\* findOpenAsk: the question that is open on this issue, whatever the reply was to.
Find(h) ==
    /\ At(h, "find")
    /\ \/ \E g \in AskingGens : hs' = [hs EXCEPT ![h].at = "answer", ![h].gen = g]
       \/ AskingGens = {} /\ Go(h, "latest")
    /\ UNCHANGED <<outside, given, faults>>

\* The inbox cannot be read: as if there were nothing.
FindFails(h) ==
    /\ At(h, "find") /\ May(TRUE) /\ Count(TRUE)
    /\ Go(h, "latest")
    /\ UNCHANGED <<outside, given>>

\* latestRun: the generations are probed from the first to one there is not,
\* or to a call that fails.
Latest(g, cut) == /\ \A e \in 1..g : runs[e].st # "none"
                  /\ cut \/ (g + 1 \in Gens => runs[g + 1].st = "none")
AlreadySaid(g) == <<g, 0>> \in comments

\* reportUnreported: the latest Run, if it is over and nobody was told.
Report(h) ==
    /\ At(h, "latest")
    /\ \E cut \in BOOLEAN, g \in Gens :
          /\ May(cut) /\ Count(cut)
          /\ Latest(g, cut) /\ Ended(g) /\ ~AlreadySaid(g)
          /\ hs' = [hs EXCEPT ![h].at = "finish", ![h].gen = g,
                              ![h].say = IF runs[g].st = "succeeded" THEN "success" ELSE "failed"]
    /\ UNCHANGED <<outside, given>>

\* There is none, it goes on, or it was told; or Runs or feed cannot be read.
NothingToReport(h) ==
    /\ At(h, "latest")
    /\ \E fails \in BOOLEAN :
          /\ May(fails) /\ Count(fails)
          /\ fails \/ \A g \in Gens : Latest(g, FALSE) /\ Ended(g) => AlreadySaid(g)
    /\ Says(h, "result", "success")
    /\ UNCHANGED <<outside, given>>

\* No verdict can be read from the reply: the question stays open.
Unreadable(h) ==
    /\ At(h, "answer")
    /\ Says(h, "result", "success")
    /\ UNCHANGED <<outside, given, faults>>

\* Slip: the job ends with the answer.
AnswerOnly(h) ==
    /\ At(h, "answer") /\ Asking(hs[h].gen)
    /\ runs' = [runs EXCEPT ![hs[h].gen].open = FALSE]
    /\ given' = given \cup {<<hs[h].job, hs[h].gen, runs[hs[h].gen].asks>>}
    /\ Says(h, "result", "success")
    /\ UNCHANGED <<jobs, comments, procs, faults>>

\* The Mediator takes the answer for the question the Run has open by now.
Answer(h) ==
    /\ At(h, "answer")
    /\ LET g == hs[h].gen IN
       IF Asking(g)
       THEN \E fails \in BOOLEAN :
              /\ May(fails) /\ Count(fails)
              /\ runs' = [runs EXCEPT ![g].open = FALSE]
              /\ given' = given \cup {<<hs[h].job, g, runs[g].asks>>}
              /\ IF fails THEN Says(h, "result", "failed") ELSE Go(h, "follow")
       ELSE Says(h, "result", "failed") /\ UNCHANGED <<runs, given, faults>>
    /\ UNCHANGED <<jobs, comments, procs>>

-----------------------------------------------------------------------------
(* The adapter dies and is started again; orchestrators and Runs live on.  *)

Crash ==
    /\ May(TRUE) /\ Count(TRUE)
    /\ \E h \in Handlers : hs[h] # Idle
    /\ hs' = [h \in Handlers |-> Idle]
    /\ procs' = [p \in Procs |-> [procs[p] EXCEPT !.reap = FALSE]]
    /\ UNCHANGED <<jobs, comments, runs, given>>

-----------------------------------------------------------------------------
Init ==
    /\ jobs = [j \in Jobs |-> [st |-> "none", result |-> "none", about |-> <<0, 0>>]]
    /\ comments = {}
    /\ runs = [g \in Gens |-> [st |-> "none", asks |-> 0, open |-> FALSE]]
    /\ procs = [p \in Procs |-> [st |-> "none", held |-> FALSE, home |-> FALSE, reap |-> FALSE]]
    /\ hs = [h \in Handlers |-> Idle]
    /\ given = {}
    /\ faults = 0

NewWork(h) == Probe(h) \/ StartOrchestrator(h) \/ WaitAdvertised(h) \/ SubmitRun(h)
Steps(h) ==
    \/ NewWork(h) \/ Follow(h) \/ HandOff(h) \/ Finish(h) \/ FailOut(h) \/ Result(h) \/ Leave(h)
    \/ Find(h) \/ FindFails(h) \/ Report(h) \/ NothingToReport(h) \/ Unreadable(h) \/ Answer(h)

Next ==
    \/ \E j \in Jobs : Delegate(j) \/ Mention(j) \/ LeaseEnds(j)
    \/ \E g \in Gens : RunAsks(g) \/ RunEnds(g)
    \/ \E p \in Procs : OnceExits(p) \/ Reap(p)
    \/ \E h \in Handlers : Steps(h) \/ \E j \in Jobs : Claim(h, j)
    \/ Crash

Spec == Init /\ [][Next]_vars

-----------------------------------------------------------------------------
\* Types; only who started an orchestrator has one, and results are told once.
TypeOK ==
    /\ \A j \in Jobs : jobs[j].st \in {"none", "queued", "leased", "closed"}
    /\ \A j \in Jobs : (jobs[j].st = "closed") = (jobs[j].result \in {"success", "failed"})
    /\ comments \subseteq Gens \X (0..MaxAsks)
    /\ \A g \in Gens : runs[g].asks \in 0..MaxAsks /\ (runs[g].open => Live(g) /\ runs[g].asks > 0)
    /\ \A h, k \in Handlers : hs[h].proc # 0 /\ hs[h].proc = hs[k].proc => h = k
    /\ \A h \in Handlers : (hs[h].job = NoJob) = (hs[h] = Idle)
    /\ faults \in 0..MaxFaults

\* One issue holds at most one open Run, however its jobs meet (nextRunID).
OneOpenRun == \A g, e \in Gens : Live(g) /\ Live(e) => g = e

Follows(h, g) == hs[h].gen = g /\ hs[h].at \in {"follow", "handoff"}

\* As long as nothing failed, a Run that is not over is followed by somebody,
\* or the question it waits for stands on the issue (follow, handOff).
NobodyIsForgotten ==
    faults = 0 => \A g \in Gens : Live(g) =>
        \/ \E h \in Handlers : Follows(h, g)
        \/ Asking(g) /\ <<g, runs[g].asks>> \in comments

\* A reply to a question answers that question (handleAnswer: matched by the
\* number of the comment).
AnswersTheirQuestion == \A a \in given : jobs[a[1]].about \in {<<0, 0>>, <<a[2], a[3]>>}
=============================================================================
