----------------------------- MODULE PlanColumn -----------------------------
(***************************************************************************)
(* The column of a Run's contracts: plans that add steps, answers that     *)
(* adopt what a plan proposes or take the plan back.                       *)
(*                                                                         *)
(* The Mediator keeps the contract it was given and, in                    *)
(* runs.contract_versions, every later version; the last one is in force.  *)
(* Whoever appends a version reads the whole column, and writes the whole  *)
(* column, without a lock on the Run in between: a transaction is a        *)
(* reading step (its snapshot) and a committing step. The rows of `steps`  *)
(* are found by their place in the contract, their needs by name.          *)
(*                                                                         *)
(* Forks, validations, nodes and the end of the Run are in StepGraph and   *)
(* RunLifecycle; what others do to rows between two steps of a report is   *)
(* StepGraph's too, here the rows are rewritten by the committing step.    *)
(***************************************************************************)
EXTENDS Integers, Sequences, FiniteSets, SequencesExt

CONSTANTS
    Contracts,    \* the contracts considered: [steps, crit]
    Plans,        \* what a planner may report: [steps, proposed, unmet]
    MaxVersions,  \* Store.MaxContractVersions
    Handlers,     \* requests at work at one time
    NoStep        \* no name

VARIABLES
    column,     \* runs.contract and, behind it, runs.contract_versions
    rows,       \* steps: place -> row
    tx,         \* the open transactions
    overlap,    \* history: two transactions have been open at once
    crossed     \* history: what went wrong when plans of several planners were taken back

vars == <<column, rows, tx, overlap, crossed>>
history == <<overlap, crossed>>

-----------------------------------------------------------------------------
Live(col) == Last(col)
Ids(steps) == {steps[i].id : i \in DOMAIN steps}
PlaceOf(steps, id) == CHOOSE i \in DOMAIN steps : steps[i].id = id

\* A version's `by`.
ByStep(id) == <<"step", id>>
ByAnswer(id) == <<"answer", id>>
ByRequester == <<"requester", NoStep>>
ByYolo == <<"contract", NoStep>>

Version(by, proposed, steps, crit) ==
    [by |-> by, proposed |-> proposed, steps |-> steps, crit |-> crit]

Adopters(steps, id) == {i \in DOMAIN steps : steps[i].adopts = id}

\* What Validate asks of the names of a version. A plan is approved in one way.
Valid(v) ==
    /\ \A i, j \in DOMAIN v.steps : v.steps[i].id = v.steps[j].id => i = j
    /\ \A i \in DOMAIN v.steps :
        LET st == v.steps[i]
            earlier == Ids(SubSeq(v.steps, 1, i - 1))
        IN  /\ st.needs \subseteq earlier
            /\ st.back # NoStep => st.back \in earlier
            /\ st.adopts # NoStep => \E j \in DOMAIN v.steps : v.steps[j].id = st.adopts /\ v.steps[j].kind = "plan"
            /\ st.yolo => st.kind = "plan" /\ Adopters(v.steps, st.id) = {}
    /\ v.crit \subseteq Ids(v.steps)

\* The steps that may ever be in a version.
Steps == UNION {Range(c.steps) : c \in Contracts} \cup UNION {Range(p.steps) : p \in Plans}

\* What Validate has made sure of when a Run is submitted.
AllValid ==
    /\ \A c \in Contracts : c.steps \in Seq(Steps) /\ Valid(Version(ByRequester, {}, c.steps, c.crit))
    /\ \A p \in Plans : p.steps \in Seq(Steps)

FirstRow(st) == [name |-> st.id, kind |-> st.kind, needs |-> st.needs, state |-> "PENDING", attempt |-> 0]

Over == {"DONE", "SKIPPED"}

\* A name that no row bears is not waited for.
NeedsOver(r, s) == \A t \in DOMAIN r : r[t].name \in r[s].needs => r[t].state \in Over

\* Slip: a question is asked once.
RaiseOnce(r, steps) ==
    [s \in DOMAIN r |->
        IF /\ r[s].state = "PENDING" /\ r[s].kind = "ask" /\ NeedsOver(r, s)
           /\ s \in DOMAIN steps /\ r[s].attempt = 0
        THEN [r[s] EXCEPT !.state = "ASKED"] ELSE r[s]]

Raise(r, steps) ==
    [s \in DOMAIN r |->
        IF /\ r[s].state = "PENDING" /\ r[s].kind = "ask" /\ NeedsOver(r, s)
           /\ s \in DOMAIN steps /\ steps[s].kind = "ask"
        THEN [r[s] EXCEPT !.state = "ASKED"] ELSE r[s]]

\* A pending step that waits, for skipped steps only, is skipped, to the end.
Propagate(r) ==
    LET dead[s \in DOMAIN r] ==
            \/ r[s].state = "SKIPPED"
            \/ /\ r[s].state = "PENDING" /\ r[s].needs # {}
               /\ \A t \in DOMAIN r : r[t].name \in r[s].needs => t < s /\ dead[t]
    IN  [s \in DOMAIN r |-> IF r[s].state = "PENDING" /\ dead[s] THEN [r[s] EXCEPT !.state = "SKIPPED"] ELSE r[s]]

Again(r, S, a) ==
    [s \in DOMAIN r |-> IF s \in S THEN [r[s] EXCEPT !.state = "PENDING", !.attempt = a] ELSE r[s]]

SkipAdopters(r, steps, id) ==
    Propagate([s \in DOMAIN r |->
        IF r[s].state = "PENDING" /\ r[s].name \in {steps[i].id : i \in Adopters(steps, id)}
        THEN [r[s] EXCEPT !.state = "SKIPPED"] ELSE r[s]])

-----------------------------------------------------------------------------
Closed == [pc |-> "idle", seq |-> 0, seen |-> <<>>, again |-> <<>>, plan |-> {}, yes |-> FALSE]
Open(h) == tx[h].pc # "idle"
Close(h) == tx' = [tx EXCEPT ![h] = Closed]
ThePlan(h) == CHOOSE p \in tx[h].plan : TRUE
Locked(h) == {tx[k].seq : k \in Handlers \ {h}}
Overlaps == overlap' = (overlap \/ \E k \in Handlers : Open(k))

\* The step a transaction is about, in the contract it has read; a row may
\* have outlived its step.
None == [id |-> NoStep, kind |-> "run", needs |-> {}, adopts |-> NoStep, when |-> FALSE, fork |-> FALSE,
         yolo |-> FALSE, back |-> NoStep, max |-> 0]
StepOf(h) ==
    LET steps == Live(tx[h].seen).steps
    IN  IF tx[h].seq \in DOMAIN steps THEN steps[tx[h].seq] ELSE None

Failing == \E s \in DOMAIN rows : rows[s].state = "FAILED"

Init ==
    /\ \E c \in Contracts :
        /\ column = <<Version(ByRequester, {}, c.steps, c.crit)>>
        /\ rows = Raise([i \in DOMAIN c.steps |-> FirstRow(c.steps[i])], c.steps)
    /\ tx = [h \in Handlers |-> Closed]
    /\ overlap = FALSE /\ crossed = {}

\* A step is handed out while the Run goes on.
Claim(s) ==
    /\ ~Failing
    /\ rows[s].state = "PENDING" /\ rows[s].kind # "ask"
    /\ NeedsOver(rows, s)
    /\ rows' = [rows EXCEPT ![s].state = "CLAIMED"]
    /\ UNCHANGED <<column, tx, history>>

Standing(s) ==
    LET steps == Live(column).steps
    IN  IF s \in DOMAIN steps THEN steps[s] ELSE None

\* What a report brings along: a planner's plan, whether a loop may end.
Brought(s) == IF Standing(s).kind = "plan" THEN {{p} : p \in Plans} ELSE {{}}
LoopMet(s) == IF Standing(s).back # NoStep THEN BOOLEAN ELSE {TRUE}

Begin(h, pc, s, plan, yes) ==
    tx' = [tx EXCEPT ![h] = [pc |-> pc, seq |-> s, seen |-> column, again |-> <<>>, plan |-> plan, yes |-> yes]]

\* A report locks its row and reads the column.
Report(h, s) ==
    /\ ~Open(h) /\ s \notin Locked(h)
    /\ rows[s].state = "CLAIMED"
    /\ \E plan \in Brought(s), yes \in LoopMet(s) : Begin(h, "report", s, plan, yes)
    /\ Overlaps
    /\ UNCHANGED <<column, rows, crossed>>

LoopsBack(h) ==
    /\ StepOf(h).back # NoStep /\ ~tx[h].yes
    /\ rows[tx[h].seq].attempt + 1 < StepOf(h).max

GoBack(h) ==
    LET range == PlaceOf(Live(tx[h].seen).steps, StepOf(h).back)..tx[h].seq IN
    /\ tx[h].pc = "report" /\ LoopsBack(h)
    /\ range \cap Locked(h) = {}
    /\ rows' = Again(rows, range \cap DOMAIN rows, rows[tx[h].seq].attempt + 1)
    /\ Close(h)
    /\ UNCHANGED <<column, history>>

-----------------------------------------------------------------------------
(* applyExpands.                                                            *)

Expands(h) == tx[h].pc = "report" /\ StepOf(h).kind = "plan" /\ ~LoopsBack(h)

\* The plan of this step is in force: no answer has come since.
AlreadyGrew(seen, id) ==
    \E i \in DOMAIN seen :
        /\ seen[i].by = ByStep(id)
        /\ \A j \in (i + 1)..Len(seen) : seen[j].by[1] # "answer"

Adds(h) == Expands(h) /\ ~AlreadyGrew(tx[h].seen, StepOf(h).id)

MayGrow(seen) == Len(seen) < MaxVersions

Nothing(p) == p.unmet \/ p.steps = <<>>

\* The plan makes sense, and the contract it makes is valid, with what it
\* proposes and without.
Sound(h, p) ==
    LET live == Live(tx[h].seen)
        next == Version(ByStep(StepOf(h).id), p.proposed, live.steps \o p.steps, live.crit)
    IN  /\ p.unmet => p.steps = <<>>
        /\ p.steps = <<>> => p.unmet \/ p.proposed = {}
        /\ p.proposed # {} /\ p.steps # <<>> =>
            StepOf(h).yolo \/ Adopters(live.steps, StepOf(h).id) # {}
        /\ Valid(next) /\ Valid([next EXCEPT !.crit = @ \cup p.proposed])

Acceptable(h, p) == MayGrow(tx[h].seen) /\ (Nothing(p) \/ p.steps # <<>>) /\ Sound(h, p)

\* The versions a plan adds: what it builds and, if the contract adopts
\* without asking, what it proposes.
Grown(h, p) ==
    LET live == Live(tx[h].seen)
        steps == live.steps \o p.steps
        next == Version(ByStep(StepOf(h).id), p.proposed, steps, live.crit)
    IN  IF StepOf(h).yolo /\ p.proposed # {}
        THEN <<next, Version(ByYolo, {}, steps, live.crit \cup p.proposed)>>
        ELSE <<next>>

Done(h) == [rows EXCEPT ![tx[h].seq].state = "DONE"]

\* Nothing to expand: the step is over.
Finish(h) ==
    /\ tx[h].pc = "report" /\ ~LoopsBack(h) /\ ~Adds(h)
    /\ rows' = Raise(Done(h), Live(column).steps)
    /\ Close(h)
    /\ UNCHANGED <<column, history>>

\* The plan cannot be accepted: its step fails.
Refuse(h) ==
    /\ Adds(h) /\ ~Acceptable(h, ThePlan(h))
    /\ rows' = [rows EXCEPT ![tx[h].seq].state = "FAILED"]
    /\ Close(h)
    /\ UNCHANGED <<column, history>>

\* Nothing is left to do, or nothing will help: there is nothing to approve.
AddNothing(h) ==
    /\ Adds(h) /\ Acceptable(h, ThePlan(h)) /\ Nothing(ThePlan(h))
    /\ LET steps == Live(tx[h].seen).steps IN
        rows' = Raise(SkipAdopters(Done(h), steps, StepOf(h).id), Live(column).steps)
    /\ Close(h)
    /\ UNCHANGED <<column, history>>

NewPlaces(h, p) == LET n == Len(Live(tx[h].seen).steps) IN (n + 1)..(n + Len(p.steps))

\* The whole column is written: what was read, and the new versions.
Grow(h) ==
    LET p == ThePlan(h)
        steps == Live(tx[h].seen).steps \o p.steps
    IN  /\ Adds(h) /\ Acceptable(h, p) /\ ~Nothing(p)
        /\ NewPlaces(h, p) \cap DOMAIN rows = {}
        /\ column' = tx[h].seen \o Grown(h, p)
        /\ rows' = Raise([s \in DOMAIN rows \cup NewPlaces(h, p) |->
                            IF s \in DOMAIN rows THEN Done(h)[s] ELSE FirstRow(steps[s])], steps)
        /\ Close(h)
        /\ UNCHANGED history

\* A row stands where the plan's would go: the transaction is aborted, and the
\* step remains claimed, to be handed out and reported again.
Conflict(h) ==
    /\ Adds(h) /\ Acceptable(h, ThePlan(h)) /\ ~Nothing(ThePlan(h))
    /\ NewPlaces(h, ThePlan(h)) \cap DOMAIN rows # {}
    /\ Close(h)
    /\ UNCHANGED <<column, rows, history>>

-----------------------------------------------------------------------------
(* AnswerStep reads the contract in force, then, for a question that        *)
(* adopts, the column.                                                      *)

\* Only a question of the contract in force is answered.
Answer(h, s) ==
    /\ ~Open(h) /\ ~Failing /\ s \notin Locked(h)
    /\ rows[s].state = "ASKED"
    /\ s \in DOMAIN Live(column).steps /\ Live(column).steps[s].kind = "ask"
    /\ \E yes \in BOOLEAN : Begin(h, "answer", s, {}, yes)
    /\ Overlaps
    /\ UNCHANGED <<column, rows, crossed>>

ReadColumn(h) ==
    /\ tx[h].pc = "answer"
    /\ tx' = [tx EXCEPT ![h].pc = "column", ![h].again = column]
    /\ UNCHANGED <<column, rows, history>>

\* The last version of the planner that proposes something.
Proposals(h) ==
    {i \in DOMAIN tx[h].again : tx[h].again[i].by = ByStep(StepOf(h).adopts)
                                /\ tx[h].again[i].proposed # {}}
LastOf(S) == CHOOSE x \in S : \A y \in S : y <= x

\* What is in force, with the proposal.
Adopted(h) ==
    LET live == Live(tx[h].seen)
        by == ByAnswer(StepOf(h).id)
    IN  IF Proposals(h) = {} THEN <<>>
        ELSE <<Version(by, {}, live.steps, live.crit \cup tx[h].again[LastOf(Proposals(h))].proposed)>>

AnswerCommits(h, col, steps) ==
    /\ column' = col
    /\ rows' = Raise(Done(h), steps)
    /\ Close(h)
    /\ UNCHANGED history

Adopt(h) ==
    /\ tx[h].pc = "column" /\ tx[h].yes
    /\ \A v \in Range(Adopted(h)) : Valid(v)
    /\ IF Adopted(h) = <<>> THEN AnswerCommits(h, column, Live(column).steps)
       ELSE AnswerCommits(h, tx[h].again \o Adopted(h), Adopted(h)[1].steps)

\* A no says that the plan is to be made again, or where else to go.
Rejects(h) ==
    /\ tx[h].pc = "column" /\ ~tx[h].yes
    /\ StepOf(h).adopts # NoStep /\ (StepOf(h).when \/ StepOf(h).fork)

\* It says nothing: the plan stays.
JustNo(h) ==
    /\ tx[h].pc = "column" /\ ~tx[h].yes /\ ~Rejects(h)
    /\ AnswerCommits(h, column, Live(column).steps)

Built(h) == {i \in DOMAIN tx[h].again : tx[h].again[i].by = ByStep(StepOf(h).adopts)}

\* Slip: all the steps of the plan's version.
RetiredAll(h) == Ids(tx[h].again[LastOf(Built(h))].steps)

\* The steps the plan added.
Retired(h) ==
    LET at == LastOf(Built(h)) IN Ids(tx[h].again[at].steps) \ Ids(tx[h].again[at - 1].steps)

\* The contract before the plan is in force again.
TakenBack(h) ==
    LET before == tx[h].again[LastOf(Built(h)) - 1]
    IN  Append(tx[h].again, Version(ByAnswer(StepOf(h).id), {}, before.steps, before.crit))

\* Slip: the rows stay.
DropNone(h) == DOMAIN rows

\* What has begun stays.
Remaining(h) == {s \in DOMAIN rows : ~(rows[s].state = "PENDING" /\ rows[s].name \in Retired(h))}

\* What comes of a plan that is not the last one: steps of a plan that was
\* taken back before are in force again; steps of another plan no longer are.
Crossing(h) ==
    LET before == tx[h].again[LastOf(Built(h)) - 1].steps
        live == Live(tx[h].seen).steps
    IN  (IF IsPrefix(before, live) THEN {} ELSE {"revived"})
            \cup (IF Ids(live) \subseteq Ids(before) \cup Retired(h) THEN {} ELSE {"orphaned"})

\* The rows that are left.
Left(h) == IF Built(h) = {} THEN DOMAIN rows ELSE Remaining(h)

\* A question that belongs to the plan it is about begins again with it.
Own(h) == IF Built(h) # {} /\ StepOf(h).id \in Retired(h) THEN {"own"} ELSE {}

Planner(h) == PlaceOf(Live(tx[h].seen).steps, StepOf(h).adopts)

\* The plan is taken back, and the planner begins again.
Retire(h) ==
    LET range == Planner(h)..tx[h].seq IN
        /\ Rejects(h) /\ ~StepOf(h).fork /\ Planner(h) \in Left(h)
        /\ range \cap Locked(h) = {}
        /\ column' = IF Built(h) = {} THEN column ELSE TakenBack(h)
        /\ crossed' = IF Built(h) = {} THEN crossed ELSE crossed \cup Crossing(h) \cup Own(h)
        /\ rows' = Again([s \in Left(h) |-> rows[s]], range \cap Left(h), rows[Planner(h)].attempt + 1)
        /\ Close(h)
        /\ UNCHANGED overlap

\* The plan is taken back, and the Run goes where the question leads.
Turn(h) ==
    /\ Rejects(h) /\ StepOf(h).fork
    /\ column' = IF Built(h) = {} THEN column ELSE TakenBack(h)
    /\ crossed' = IF Built(h) = {} THEN crossed ELSE crossed \cup Crossing(h)
    /\ rows' = Raise([s \in Left(h) |-> Done(h)[s]], Live(column').steps)
    /\ Close(h)
    /\ UNCHANGED overlap

\* An error, as the adopted contract is not valid or the planner has no row:
\* the answer is undone, the question stays.
Undo(h) ==
    /\ tx[h].pc = "column"
    /\ IF tx[h].yes THEN \E v \in Range(Adopted(h)) : ~Valid(v)
       ELSE Rejects(h) /\ ~StepOf(h).fork /\ Planner(h) \notin Left(h)
    /\ Close(h)
    /\ UNCHANGED <<column, rows, history>>

-----------------------------------------------------------------------------
Transact(h) ==
    \/ GoBack(h) \/ Finish(h) \/ Refuse(h) \/ AddNothing(h) \/ Grow(h) \/ Conflict(h)
    \/ ReadColumn(h) \/ Adopt(h) \/ Undo(h) \/ JustNo(h) \/ Retire(h) \/ Turn(h)

Next ==
    \/ \E s \in DOMAIN rows : Claim(s)
    \/ \E h \in Handlers, s \in DOMAIN rows : Report(h, s) \/ Answer(h, s)
    \/ \E h \in Handlers : Transact(h)

Spec == Init /\ [][Next]_vars

\* Something happens as long as something can: nodes ask for work and report,
\* requests go on, people answer. Nothing is assumed of what they say.
FairSpec == Spec /\ WF_vars(Next)

-----------------------------------------------------------------------------
StepStates == {"PENDING", "CLAIMED", "ASKED", "DONE", "SKIPPED", "FAILED"}

\* The column is never empty, places have no gap before the end of what was
\* submitted, attempts are counted, and an open transaction is about a row.
TypeOK ==
    /\ column # <<>> /\ column[1].by = ByRequester
    /\ \A i \in DOMAIN column : Valid(column[i])
    /\ DOMAIN column[1].steps \subseteq DOMAIN rows
    /\ \A s \in DOMAIN rows : rows[s].state \in StepStates /\ rows[s].attempt \in Nat
    /\ \A h \in Handlers :
        /\ tx[h].pc \in {"idle", "report", "answer", "column"}
        /\ Open(h) => tx[h].seq \in DOMAIN rows /\ tx[h].seq \notin Locked(h)

\* Whoever looks a step up by the place of its row finds that step: the rows
\* begin with the contract in force, after every growth, retreat and loop. Two
\* transactions at once may write over each other's version; and a plan may
\* come back whose rows are gone.
RowsFollowContract ==
    ~overlap /\ "revived" \notin crossed => \A i \in DOMAIN Live(column).steps :
        i \in DOMAIN rows /\ rows[i].name = Live(column).steps[i].id

\* Versions are added and never taken out or rewritten ("the list of versions
\* only grows"), as long as transactions follow each other.
ColumnOnlyGrows == [][~overlap' => IsPrefix(column, column')]_vars

\* After a plan was taken back none of its steps begins: what a node is given
\* is in the contract in force; as long as plans are taken back in the reverse
\* of their order and none holds the question about itself.
RetiredStepsStayUnbegun ==
    [][\A s \in DOMAIN rows \cap DOMAIN rows' :
        ~overlap /\ crossed = {} /\ rows[s].state = "PENDING" /\ rows'[s].state = "CLAIMED"
            => rows[s].name \in Ids(Live(column).steps)]_vars

\* What somebody has approved stays in force until an answer takes it back.
ApprovalsStand ==
    [][~overlap' => \A c \in Live(column).crit :
        \/ c \in Live(column').crit
        \/ Len(column') > Len(column) /\ Live(column').by[1] = "answer"]_vars

\* A step of a plan that was taken back had begun: its row stays where the next
\* plan's first step would go.
Outlived == \E s \in DOMAIN rows : rows[s].name \notin Ids(Live(column).steps)

\* A question whose approval would be refused: the last proposal names a step
\* of an earlier plan.
Unadoptable ==
    \E s \in DOMAIN rows :
        LET asked == Live(column).steps[s]
            made == {i \in DOMAIN column : column[i].by = ByStep(asked.adopts) /\ column[i].proposed # {}}
        IN  /\ rows[s].state = "ASKED" /\ made # {}
            /\ ~(column[LastOf(made)].proposed \subseteq Ids(Live(column).steps))

AllOver == \A s \in DOMAIN rows : rows[s].state \in Over

PlanAtEnd == AllOver \/ Failing \/ Outlived \/ Unadoptable \/ overlap

\* Plans that are refused, taken back and built again come to an end: the limit
\* on versions bounds them. Two known ends without one are left out.
PlansEnd == <>PlanAtEnd

\* "An approve that is refused again leaves reject as the only answer": the
\* proposal is validated when it is made so that this does not happen.
ApprovalsAreAccepted == ~overlap => ~Unadoptable

\* "A step grows the contract once", unless its plan was taken back since.
GrowsOnce ==
    ~overlap => \A i, j \in DOMAIN column :
        /\ i < j /\ column[i].by[1] = "step" /\ column[j].by = column[i].by
        => \E k \in (i + 1)..(j - 1) : column[k].by[1] = "answer" /\ column[k].steps = column[i - 1].steps

\* The contract has no more versions than the limit.
VersionsBounded == Len(column) <= MaxVersions
=============================================================================
