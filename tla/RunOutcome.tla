----------------------------- MODULE RunOutcome -----------------------------
(***************************************************************************)
(* What a Run produces and how it is judged (internal/record: WriteBlob,   *)
(* OpenBlob; internal/api: putBlob; internal/store: rollBack, dispatch,    *)
(* Verify; the inputs and the uploads of a step in internal/enode).        *)
(*                                                                         *)
(* A producer knows its own place, a consumer only a name: an artifact is  *)
(* stored under (place, attempt, name) and asked for by name.  Retries go  *)
(* backward, forks skip, and a report may arrive a second time; when all   *)
(* is over the contract's conditions are compared with the rows.           *)
(*                                                                         *)
(* work is what really happened at the nodes; row is what the Mediator     *)
(* believes.  Left out: who performs a step, acquires, releases, questions *)
(* and plans (StepGraph, PlanColumn); what an artifact says, except the    *)
(* name a fork reads in it; refused uploads, which leave nothing behind.   *)
(***************************************************************************)
EXTENDS ContractCheck, TLC

CONSTANTS
    Names,      \* names of artifacts
    Unmet,      \* contract.UnmetName
    Suffixes,   \* the pairs <<m, n>> of names of which m ends in "-" and n
    Given,      \* the contracts: steps, conds, and stray: the names steps may leave
                \* in $OUT though they do not declare them
    Roles,
    MaxLate     \* bound: reports that arrive a second time

NoName == "no name"

\* A step without any of its optional fields. out, from: the names it
\* declares and reads; via: the one in which a fork reads its target; until:
\* when its loop ends; planner: expands; command: it has an exit code.
Blank == Absent @@ [out |-> {}, from |-> {}, via |-> NoName, planner |-> FALSE, command |-> TRUE,
                    until |-> [exit |-> FALSE, produced |-> {}]]

\* Inputs are produced somewhere, reserved names nowhere; planners and forks
\* have what they read.
ArtifactsOk(c) ==
    \A i \in DOMAIN c :
        /\ Unmet \notin c[i].out
        /\ c[i].from \subseteq UNION {c[j].out : j \in DOMAIN c}
        /\ c[i].planner => Cardinality(c[i].out) = 1
        /\ c[i].to # {} => c[i].via \in c[i].out
        /\ c[i].back # 0 => c[i].until.exit \/ c[i].until.produced # {}
        /\ c[i].until.exit => c[i].command

\* A condition asks about a step's exit, its attempts, its artifacts, or about
\* the fleet (step = 0).
CondsOk(c, conds) ==
    \A q \in conds :
        /\ q.step \in DOMAIN c \cup {0}
        /\ q.step = 0 => ~q.exit /\ ~q.within /\ q.produced = {}
        /\ q.step # 0 /\ q.exit => c[q.step].command

ASSUME OutcomeAssumption ==
    /\ Unmet \notin Names /\ NoName \notin Names /\ MaxLate \in Nat
    /\ \A g \in Given :
        /\ Len(g.steps) \in Nat /\ DOMAIN g.steps = 1..Len(g.steps)
        /\ \A i \in DOMAIN g.steps : g.steps[i].kind = "work" /\ g.steps[i].back \in Nat
        /\ g.stray \subseteq Names \cup {Unmet} /\ \A i \in DOMAIN g.steps : g.steps[i].out \subseteq Names
        /\ Validate(g.steps, Roles) /\ ArtifactsOk(g.steps) /\ CondsOk(g.steps, g.conds)

VARIABLES
    c,       \* the contract's steps
    conds,   \* success_when
    stray,    \* the names beside those of the contract that steps may leave in $OUT
    fleet,   \* whether the fleet, read at the end, has what a condition asks: yes, no, unread
    row,     \* the table steps
    work,    \* per step, its last execution at a node
    late,    \* copies of reports on their way
    blobs,   \* the artifacts in the Record
    newest,  \* per name, the place and attempt under which it was last stored
    astray,  \* history: the names that a step stored when its row had gone on without it
    run

vars == <<c, conds, stray, fleet, row, work, late, blobs, newest, astray, run>>
given == <<c, conds, stray, fleet>>

Seqs == DOMAIN c

-----------------------------------------------------------------------------
NoResult == [exit |-> "none", produced |-> {}, of |-> 0]
FirstRow == [state |-> "PENDING", attempt |-> 0, chosen |-> FALSE, result |-> NoResult]
Nowhere == <<0, 0>>
Idle == [st |-> "idle", no |-> 0, attempt |-> -1, old |-> {}, up |-> {}, exit |-> "none"]

Init ==
    /\ \E g \in Given : c = g.steps /\ conds = g.conds /\ stray = g.stray
    /\ fleet \in IF \E q \in conds : q.step = 0 THEN {"yes", "no", "unread"} ELSE {"yes"}
    /\ row = [s \in Seqs |-> FirstRow]
    /\ work = [s \in Seqs |-> Idle]
    /\ late = {} /\ blobs = {} /\ newest = [n \in Names \cup {Unmet} |-> Nowhere]
    /\ astray = {} /\ run = "RUNNING"

\* Names are compared at their ends.
Named(b, n) == b.name = n \/ <<b.name, n>> \in Suffixes

\* Slip: the later step first.
LaterByPlace(b, o) == b.seq > o.seq \/ (b.seq = o.seq /\ b.attempt >= o.attempt)

\* The later attempt first, the later step second.
Later(b, o) == b.attempt > o.attempt \/ (b.attempt = o.attempt /\ b.seq >= o.seq)

Served(n) == {b \in blobs : Named(b, n) /\ \A o \in blobs : Named(o, n) => Later(b, o)}

-----------------------------------------------------------------------------
(* A step at its node.                                                     *)

NeedsOver(s) == \A n \in NeedsOf(c, s) : row[n].state \in {"DONE", "SKIPPED"}

\* The node of a step whose row was rewound finishes what it runs first.
Claim(s) ==
    /\ run = "RUNNING" /\ row[s].state = "PENDING" /\ NeedsOver(s)
    /\ work[s].st \in {"idle", "told"}
    /\ row' = [row EXCEPT ![s].state = "CLAIMED"]
    /\ work' = [work EXCEPT ![s] = [Idle EXCEPT !.st = IF c[s].from = {} THEN "working" ELSE "claimed",
                                               !.no = work[s].no + 1, !.attempt = row[s].attempt]]
    /\ UNCHANGED <<given, late, blobs, newest, astray, run>>

Place(b) == <<b.seq, b.attempt>>

\* What in.from names is laid out; what nobody has produced is left out, and
\* that is no failure. old keeps the names under which something newer is stored.
Fetch(s) ==
    /\ work[s].st = "claimed"
    /\ work' = [work EXCEPT ![s].st = "working",
                   ![s].old = {n \in c[s].from : \E b \in Served(n) : b.name # n \/ Place(b) # newest[n]}]
    /\ UNCHANGED <<given, row, late, blobs, newest, astray, run>>

Stored(s, n, says) ==
    {b \in blobs : Place(b) # <<s, row[s].attempt>> \/ b.name # n}
        \cup {[seq |-> s, attempt |-> row[s].attempt, name |-> n, says |-> says]}

Producers(n) == {p \in Seqs : n \in c[p].out}

\* The row of s is still that of the execution which stores n, or waits for the
\* one that will store it anew, and nobody else does.
InTime(s, n) == row[s].state = "CLAIMED" \/ (row[s].state = "PENDING" /\ Producers(n) = {s})

\* putBlob: everything found in $OUT is sent; the attempt is the row's when
\* the upload is handled. What a fork writes may name anything.
Put(s, n) ==
    /\ run = "RUNNING" /\ work[s].st = "working"
    /\ n \in (c[s].out \cup stray) \ work[s].up
    /\ \E says \in IF n = c[s].via THEN c[s].to \cup {0} ELSE {0} : blobs' = Stored(s, n, says)
    /\ newest' = [newest EXCEPT ![n] = <<s, row[s].attempt>>]
    /\ astray' = IF InTime(s, n) THEN astray ELSE astray \cup {n}
    /\ work' = [t \in Seqs |-> IF t = s THEN [work[s] EXCEPT !.up = @ \cup {n}]
                               ELSE [work[t] EXCEPT !.old = IF n \in c[t].from /\ work[t].st = "working"
                                                            THEN @ \cup {n} ELSE @]]
    /\ UNCHANGED <<given, row, late, run>>

-----------------------------------------------------------------------------
(* A report, and what it sets off.  v is the table during the transaction. *)

\* The steps S begin anew; what a fork once chose stays marked.
Again(v, S, a) ==
    [s \in Seqs |-> IF s \in S THEN [v[s] EXCEPT !.state = "PENDING", !.attempt = a, !.result = NoResult]
                               ELSE v[s]]

UntilMet(s, r) == (c[s].until.exit => r.exit = "zero") /\ c[s].until.produced \subseteq r.produced

LoopsBack(v, s) ==
    c[s].back # 0 /\ ~UntilMet(s, v[s].result) /\ v[s].attempt + 1 < c[s].max

Passed(r) == IF r.exit # "none" THEN r.exit = "zero" ELSE r.produced # {}

\* The last of the steps that s checks, or none.
Checked(s) == {t \in 1..(s - 1) : c[t].checker = s}
Target(s) == Most(Checked(s))
Tries(s) == IF c[s].tries = 0 THEN 1 ELSE c[s].tries

ValidatesBack(v, s) ==
    Checked(s) # {} /\ ~Passed(v[s].result) /\ v[Target(s)].attempt + 1 < Tries(Target(s))

\* The chosen target lives and is marked; the others die if they have not
\* begun, and so does what hangs on the dead alone.
Dispatched(v, to, t) ==
    LET lives == [v EXCEPT ![t].chosen = TRUE, ![t].state = IF @ = "SKIPPED" THEN "PENDING" ELSE @]
        passed == [s \in Seqs |-> IF s \in to \ {t} /\ lives[s].state = "PENDING"
                                  THEN [lives[s] EXCEPT !.state = "SKIPPED"] ELSE lives[s]]
        dead[s \in Seqs] ==
            \/ passed[s].state = "SKIPPED"
            \/ /\ passed[s].state = "PENDING" /\ NeedsOf(c, s) # {}
               /\ \A n \in NeedsOf(c, s) : dead[n]
    IN  [s \in Seqs |-> IF dead[s] THEN [passed[s] EXCEPT !.state = "SKIPPED"] ELSE passed[s]]

\* readDispatchValue: a fork asks for its target by name, as a consumer does.
ChosenBy(s) == {b.says : b \in Served(c[s].via)} \cap c[s].to

\* A fork that reads no target of its own has failed.
Effects(v, s) ==
    CASE c[s].to = {}                       -> {v}
      [] c[s].to # {} /\ ChosenBy(s) = {} -> {[v EXCEPT ![s].state = "FAILED"]}
      [] OTHER -> {Dispatched(v, c[s].to, t) : t \in ChosenBy(s)}

\* ReportStep: going back comes first, and then nothing else happens.
Reported(s, ok, r) ==
    LET v == [row EXCEPT ![s].state = IF ok THEN "DONE" ELSE "FAILED", ![s].result = r]
    IN  CASE ~ok -> {v}
          [] ok /\ LoopsBack(v, s) -> {Again(v, c[s].back..s, v[s].attempt + 1)}
          [] ok /\ ~LoopsBack(v, s) /\ ValidatesBack(v, s) ->
                {Again(v, {Target(s), s}, v[Target(s)].attempt + 1)}
          [] OTHER -> Effects(v, s)

\* The update asks for the state alone, not for the attempt.
Handle(s, ok, r) ==
    IF run = "RUNNING" /\ row[s].state = "CLAIMED" THEN row' \in Reported(s, ok, r) ELSE UNCHANGED row

\* The steps that begin again after e, as a loop or a check says.
LoopOf(e) == IF c[e].back # 0 THEN c[e].back..e ELSE {}
CheckOf(e) == IF Checked(e) # {} THEN {Target(e), e} ELSE {}
Rewinds(e) == LoopOf(e) \cup CheckOf(e)

\* A step that came to its end is reported with what was stored; one that did
\* not is reported as failed. A copy of the report may still be on its way; it
\* matters for a step that can begin again.
Report(s) ==
    /\ work[s].st = "working"
    /\ \E ok \in BOOLEAN, exit \in IF c[s].command THEN {"zero", "other"} ELSE {"none"},
          copied \in {FALSE, Cardinality(late) < MaxLate /\ \E e \in Seqs : s \in Rewinds(e)} :
        LET r == [exit |-> exit, produced |-> work[s].up, of |-> work[s].no]
        IN  /\ Handle(s, ok, r)
            /\ work' = [work EXCEPT ![s].st = "told", ![s].exit = exit]
            /\ late' = IF copied /\ ok THEN late \cup {<<s, r>>} ELSE late
    /\ UNCHANGED <<given, blobs, newest, astray, run>>

Repeated ==
    /\ \E l \in late : Handle(l[1], TRUE, l[2]) /\ late' = late \ {l}
    /\ UNCHANGED <<given, work, blobs, newest, astray, run>>

-----------------------------------------------------------------------------
(* The judgement.                                                          *)

Over == \A s \in Seqs : row[s].state \in {"DONE", "SKIPPED"}
Broke == \E s \in Seqs : row[s].state = "FAILED"

\* Exhausted counts the attempt that has just been made.
Exhausted(s) == c[s].tries # 0 /\ row[s].attempt + 1 >= c[s].tries

\* Slip: a step that did not run has not done what was asked of it.
NeverVacuous(q) == FALSE

\* Slip: a step that did not run asks for nothing, chosen or not.
VacuousEvenChosen(q) == q.step # 0 /\ row[q.step].state = "SKIPPED"

\* A step off the road asks for nothing; one that a fork chose does.
Vacuous(q) == q.step # 0 /\ row[q.step].state = "SKIPPED" /\ ~row[q.step].chosen

Holds(q) ==
    IF q.step = 0 THEN fleet = "yes"
    ELSE /\ row[q.step].state = "DONE"
         /\ q.exit => row[q.step].result.exit = "zero"
         /\ q.within => ~Exhausted(q.step)
         /\ q.produced \subseteq row[q.step].result.produced

GoalGivenUp == \E s \in Seqs : c[s].planner /\ Unmet \in row[s].result.produced

Verified ==
    /\ ~GoalGivenUp
    /\ \A q \in conds : Vacuous(q) \/ Holds(q)
    /\ conds # {} => \E q \in conds : ~Vacuous(q)

\* SettleIfDone: a broken step ends the Run without a comparison.
Settle ==
    /\ run = "RUNNING" /\ (Broke \/ Over)
    /\ run' = IF ~Broke /\ Verified THEN "SUCCEEDED" ELSE "FAILED"
    /\ UNCHANGED <<given, row, work, late, blobs, newest, astray>>

\* The Run is over, and every execution has been told.
Rest ==
    /\ run # "RUNNING" /\ \A s \in Seqs : work[s].st \in {"idle", "told"}
    /\ UNCHANGED vars

Next ==
    \/ \E s \in Seqs : Claim(s) \/ Fetch(s) \/ Report(s) \/ (\E n \in c[s].out \cup stray : Put(s, n))
    \/ Repeated \/ Settle \/ Rest

Spec == Init /\ [][Next]_vars

-----------------------------------------------------------------------------
TypeOK ==
    /\ \A s \in Seqs : /\ row[s].state \in {"PENDING", "CLAIMED", "DONE", "FAILED", "SKIPPED"}
                       /\ row[s].attempt \in Nat /\ row[s].chosen \in BOOLEAN
                       /\ work[s].st \in {"idle", "claimed", "working", "told"}
    /\ \A b \in blobs : b.seq \in Seqs /\ b.attempt \in Nat
    /\ run \in {"RUNNING", "SUCCEEDED", "FAILED"}

\* Nobody writes the name unannounced, or one that ends like it.
Distinct(n) ==
    n \notin stray /\ \A p \in Suffixes : p[2] = n => Producers(p[1]) = {} /\ p[1] \notin stray

\* The row's result is what its last execution did (a copy of an earlier
\* report, accepted for the one that runs, is not).
Own(s) == row[s].result.of = work[s].no /\ work[s].st = "told"

\* A step that two loops or checks begin again. Validate keeps loop and
\* validate_with apart on one step (contract.go:1380), not in the steps they
\* begin again: there the later one to do so may set an attempt back to one
\* that was.
RetriesNest ==
    \E d, e \in Seqs :
        \/ LoopOf(d) \cap CheckOf(e) # {}
        \/ d # e /\ (LoopOf(d) \cap LoopOf(e) # {} \/ CheckOf(d) \cap CheckOf(e) # {})

\* The name of the fork's own choice, of its last attempt.
Picks(f, t) ==
    \E b \in blobs : b.seq = f /\ b.attempt = row[f].attempt /\ b.name = c[f].via /\ b.says = t

Skipped(q) == q.step # 0 /\ row[q.step].state = "SKIPPED"

\* What a condition asks really happened at the node, and its artifacts are in
\* the Record under the attempt that counts.
Truly(q) ==
    IF q.step = 0 THEN fleet = "yes"
    ELSE LET s == q.step IN
         /\ row[s].state = "DONE"
         /\ q.exit => work[s].exit = "zero"
         /\ \A n \in q.produced : n \in work[s].up /\ \E b \in blobs : b.seq = s /\ b.attempt = row[s].attempt /\ b.name = n

\* A Run that succeeded earned it: every step is over, something was really
\* asked of one, what was asked of a step happened in its last attempt and is
\* in the Record, no planner gave the goal up, and no condition was let off on
\* a step that a fork in its last attempt chose.
SucceededIsEarned ==
    run = "SUCCEEDED" =>
        /\ Over
        /\ \A s \in Seqs : c[s].planner /\ row[s].state = "DONE" /\ Own(s) => Unmet \notin work[s].up
        /\ \A q \in conds :
            \/ Truly(q)
            \/ q.step # 0 /\ row[q.step].state = "DONE" /\ ~Own(q.step)
            \/ /\ Skipped(q)
               /\ ~\E f \in Seqs : /\ row[f].state = "DONE" /\ Own(f)
                                  /\ ~RetriesNest /\ q.step \in c[f].to /\ Picks(f, q.step)
                                  /\ Producers(c[f].via) = {f} /\ Distinct(c[f].via)
        /\ conds # {} => \E q \in conds : q.step = 0 \/ row[q.step].state = "DONE"

\* What a reader of the Record finds against a Run. A step stays marked that a
\* fork chose once, in an earlier attempt or against another fork.
Deserved ==
    \/ Broke \/ GoalGivenUp
    \/ \E q \in conds : Skipped(q) /\ row[q.step].chosen
    \/ \E q \in conds : ~Skipped(q) /\ ~Truly(q)
    \/ \E s \in Seqs : row[s].state = "DONE" /\ ~Own(s)
    \/ conds # {} /\ \A q \in conds : Skipped(q)

\* A Run that failed did so for a reason a reader of the Record finds there: a
\* step broke, the goal was given up, a condition is not true of the last
\* attempt, a chosen step never ran; or the attempts were used up.
FailedForAReason == run = "FAILED" => Deserved \/ \E q \in conds : q.within /\ Exhausted(q.step)

\* Of a step whose checker passed, the attempts sufficed.
\* (reap.go, verdict.go: within_attempts fails when retries are exhausted.)
EnoughIsEnough ==
    run = "FAILED" => Deserved \/ \E s \in Seqs : Checked(s) # {} /\ ~Passed(row[s].result)

-----------------------------------------------------------------------------
(* Which inputs are settled when a step begins.                            *)

OverBefore(s, p) == SurelyOver(c, [e \in Seqs |-> Rewinds(e)], s, p)

\* The producers of a distinct name come one after another, and none goes back
\* without those behind it.
Chained(n) ==
    /\ ~RetriesNest /\ Distinct(n)
    /\ \A p, o \in Producers(n) : p < o =>
        OverBefore(o, p) /\ \A e \in Seqs : p \in Rewinds(e) => o \in Rewinds(e)

\* All of them come before s.
Settled(s, n) == Chained(n) /\ \A p \in Producers(n) \ {s} : OverBefore(s, p)

\* A step works on the newest there is: while it is at work for its current
\* attempt, what it read under a name is what was stored last under it; unless
\* the name was once stored by a step that was at work after its row had gone
\* on, because a copy of an earlier report was taken for its own.
InputsAreNewest ==
    \A s \in Seqs : row[s].state = "CLAIMED" /\ work[s].st = "working" /\ work[s].attempt = row[s].attempt =>
        \A n \in work[s].old : Settled(s, n) => n \in astray
=============================================================================
