------------------------------ MODULE StepGraph ------------------------------
(***************************************************************************)
(* One Run's steps: who may run, and what a finished step does to the rest.*)
(*                                                                         *)
(* Reports and answers of one Run are handled at the same time, each in a  *)
(* READ COMMITTED transaction that rewrites rows of `steps` and `leases`:  *)
(* go back (loop, validation), take a fork, give up nodes, take nodes,     *)
(* raise questions. A transaction is modelled as its own writes (w, grab,  *)
(* drop) over what is committed; a row it has written is locked until it   *)
(* ends, and whoever would write such a row waits. Nothing locks the Run.  *)
(*                                                                         *)
(* Other Runs are present as an acquire that finds nothing. The end of the *)
(* Run is in RunLifecycle, restarts of nodes are in ClaimProtocol, plans   *)
(* that add steps are left out.                                            *)
(***************************************************************************)
EXTENDS ContractCheck, Functions

CONSTANTS
    Contracts,    \* the contracts considered
    Roles,        \* the roles of their `requires`
    Assignment,   \* [Roles -> Nodes], what the matcher found
    Nodes,
    Handlers,     \* requests at work at one time
    MaxLeases,    \* MaxLeasesPerRun, 0 for none
    MaxFaults,    \* bound: transactions the database gives up
    NoNode

ASSUME Accepted == \A c \in Contracts : Shaped(c, Roles) /\ Validate(c, Roles)
ASSUME Matched == Assignment \in [Roles -> Nodes] /\ NoNode \notin Nodes /\ NoRole \notin Roles
ASSUME Limits == MaxLeases \in Nat /\ MaxFaults \in Nat
ASSUME Fleet == IsFiniteSet(Nodes) /\ Handlers # {}
\* A Run that asks for more nodes than it may hold is not started (queue.go).
ASSUME Width == MaxLeases # 0 => Cardinality({Assignment[r] : r \in Roles}) <= MaxLeases

VARIABLES
    contract,   \* runs.contract
    row,        \* steps
    held,       \* leases of this Run
    assigned,   \* runs.assigned
    work,       \* the step a node's Worker runs, and its attempt
    tx,         \* the open transactions
    faults,
    overlap,    \* history: two transactions have been open at once
    yielded     \* history: the roles given up and not taken again since

tables == <<row, held, assigned>>
history == <<overlap, yielded>>
vars == <<contract, tables, work, tx, faults, history>>

-----------------------------------------------------------------------------
Seqs == 1..Len(contract)
NoWork == <<0, 0>>
NoWrites == [s \in {} |-> {}]

\* What a report or an answer brings along: is the loop's condition met, has
\* the validation passed, which target does the blob name (0: none of them).
Results(s) ==
    [met : IF contract[s].back = 0 THEN {TRUE} ELSE BOOLEAN,
     passed : IF \E t \in Seqs : contract[t].checker = s THEN BOOLEAN ELSE {TRUE},
     pick : contract[s].to \cup {0}]

Closed == [pc |-> "idle", seq |-> 0, who |-> NoNode, res |-> {},
           w |-> NoWrites, grab |-> {}, drop |-> {}, assigned |-> {},
           given |-> {}]   \* what yielded will be

\* A transaction begins with row x of step s.
Opened(s, n, res, x) ==
    [Closed EXCEPT !.pc = "back", !.seq = s, !.who = n, !.res = {res}, !.w = [i \in {s} |-> x],
                   !.given = yielded]

Open(h) == tx[h].pc # "idle"
TheResult(h) == CHOOSE r \in tx[h].res : TRUE

\* What transaction h sees: the committed rows under its own.
View(h) == [s \in Seqs |-> IF s \in DOMAIN tx[h].w THEN tx[h].w[s] ELSE row[s]]
Locked(h) == UNION {DOMAIN tx[k].w : k \in Handlers \ {h}}
HeldBy(h) == (held \ tx[h].drop) \cup tx[h].grab
Known(h) == IF tx[h].assigned = {} THEN assigned ELSE tx[h].assigned

\* h writes the rows S, and those in which v differs from its view; it waits
\* if another transaction has written one of them.
Writes(h, S, v) == S \cup {s \in Seqs : v[s] # View(h)[s]}
Free(h, S, v) == Writes(h, S, v) \cap Locked(h) = {}
Step(h, t) == tx' = [tx EXCEPT ![h] = t]
Wrote(h, S, v, pc) ==
    [tx[h] EXCEPT !.pc = pc, !.w = [s \in DOMAIN tx[h].w \cup Writes(h, S, v) |-> v[s]]]

\* Slip: one need is enough.
NeedsSomeOver(v, s) ==
    NeedsOf(contract, s) = {} \/ \E n \in NeedsOf(contract, s) : v[n].state \in {"DONE", "SKIPPED"}

NeedsOver(v, s) == \A n \in NeedsOf(contract, s) : v[n].state \in {"DONE", "SKIPPED"}

\* A pending step whose needs are all skipped is skipped, to the end.
Propagate(v) ==
    LET dead[s \in Seqs] ==
            \/ v[s].state = "SKIPPED"
            \/ /\ v[s].state = "PENDING"
               /\ NeedsOf(contract, s) # {}
               /\ \A n \in NeedsOf(contract, s) : dead[n]
    IN  [s \in Seqs |-> IF v[s].state = "PENDING" /\ dead[s]
                        THEN [v[s] EXCEPT !.state = "SKIPPED"] ELSE v[s]]

\* Slip: nothing is closed.
SkipNone(v, S) == v

SkipPending(v, S) ==
    [s \in Seqs |-> IF s \in S /\ v[s].state = "PENDING"
                    THEN [v[s] EXCEPT !.state = "SKIPPED"] ELSE v[s]]

Again(v, S, a) ==
    [s \in Seqs |-> IF s \in S THEN [v[s] EXCEPT !.state = "PENDING", !.attempt = a] ELSE v[s]]

-----------------------------------------------------------------------------
(* The Run is created: rows, leases, first acquires and questions commit    *)
(* together; nobody sees the rows before.                                   *)

Creator == CHOOSE h \in Handlers : TRUE

FirstRow(c, s) ==
    [state |-> "PENDING", attempt |-> 0, chosen |-> FALSE,
     node |-> IF c[s].uses \in Roles THEN Assignment[c[s].uses] ELSE NoNode]

Init ==
    /\ contract \in Contracts
    /\ row = [s \in Seqs |-> [FirstRow(contract, s) EXCEPT !.state = "ABSENT"]]
    /\ held = {}
    /\ assigned = {<<r, Assignment[r]>> : r \in Roles}
    /\ work = [n \in Nodes |-> NoWork]
    /\ tx = [h \in Handlers |->
                IF h = Creator
                THEN [Closed EXCEPT !.pc = "acquire", !.grab = {Assignment[r] : r \in Roles},
                                    !.w = [s \in Seqs |-> FirstRow(contract, s)]]
                ELSE Closed]
    /\ faults = 0 /\ overlap = FALSE /\ yielded = {}

-----------------------------------------------------------------------------
(* The nodes.                                                               *)

Claimed(n) == {s \in Seqs : row[s].state = "CLAIMED" /\ row[s].node = n}

\* ClaimStep passes over locked rows; without a lease it fails.
Claimable(n) ==
    {s \in Seqs : /\ row[s].state = "PENDING" /\ row[s].node = n
                  /\ NeedsOver(row, s)
                  /\ \A h \in Handlers : s \notin DOMAIN tx[h].w}

Claim(n) ==
    /\ work[n] = NoWork
    /\ n \in held
    /\ Claimed(n) = {} /\ Claimable(n) # {}
    /\ LET s == Least(Claimable(n)) IN
        /\ row' = [row EXCEPT ![s].state = "CLAIMED"]
        /\ work' = [work EXCEPT ![n] = <<s, row[s].attempt>>]
    /\ UNCHANGED <<contract, held, assigned, tx, faults, history>>

\* The answer to the report was lost: the same life gets its step again.
Redeliver(n) ==
    /\ work[n] = NoWork
    /\ n \in held
    /\ Claimed(n) # {}
    /\ LET s == Least(Claimed(n)) IN work' = [work EXCEPT ![n] = <<s, row[s].attempt>>]
    /\ UNCHANGED <<contract, tables, tx, faults, history>>

\* A node whose lease is gone stops its step and drops it.
Abandon(n) ==
    /\ work[n] # NoWork /\ n \notin held
    /\ \A h \in Handlers : tx[h].who # n
    /\ work' = [work EXCEPT ![n] = NoWork]
    /\ UNCHANGED <<contract, tables, tx, faults, history>>

-----------------------------------------------------------------------------
(* A report or an answer opens a transaction.                               *)

Overlaps == overlap' = (overlap \/ \E h \in Handlers : Open(h)) /\ UNCHANGED yielded

Unlocked(s) == \A h \in Handlers : s \notin DOMAIN tx[h].w

Reportable(n) == work[n] # NoWork /\ \A h \in Handlers : tx[h].who # n

\* UPDATE ... WHERE node_id = n AND state = 'CLAIMED'
Accepts(s, n) == row[s].state = "CLAIMED" /\ row[s].node = n

ReportOk(h, n) ==
    LET s == work[n][1] IN
    /\ ~Open(h) /\ Reportable(n) /\ Unlocked(s)
    /\ Accepts(s, n)
    /\ \E res \in Results(s) :
        Step(h, Opened(s, n, res, [row[s] EXCEPT !.state = "DONE"]))
    /\ Overlaps
    /\ UNCHANGED <<contract, tables, work, faults>>

ReportFailed(h, n) ==
    LET s == work[n][1] IN
    /\ ~Open(h) /\ Reportable(n) /\ Unlocked(s)
    /\ Accepts(s, n)
    /\ \E res \in Results(s) :
        Step(h, [Opened(s, n, res, [row[s] EXCEPT !.state = "FAILED"]) EXCEPT !.pc = "commit"])
    /\ Overlaps
    /\ UNCHANGED <<contract, tables, work, faults>>

ReportRefused(n) ==
    LET s == work[n][1] IN
    /\ Reportable(n) /\ Unlocked(s)
    /\ ~Accepts(s, n)
    /\ work' = [work EXCEPT ![n] = NoWork]
    /\ UNCHANGED <<contract, tables, tx, faults, history>>

Answer(h, s) ==
    /\ ~Open(h) /\ Unlocked(s)
    /\ row[s].state = "ASKED"
    /\ \E res \in Results(s) :
        Step(h, Opened(s, NoNode, res, [row[s] EXCEPT !.state = "DONE"]))
    /\ Overlaps
    /\ UNCHANGED <<contract, tables, work, faults>>

-----------------------------------------------------------------------------
(* Inside the transaction.                                                  *)

\* afterStep failed. A report still counts, as a failure of its step; an
\* answer is undone.
Failed(h, t) ==
    IF t.who = NoNode THEN Closed
    ELSE [t EXCEPT !.pc = "commit", !.w[t.seq].state = "FAILED"]

\* loopBack: everything from back to the step begins again, acquires excepted.
LoopsBack(h) ==
    LET st == contract[tx[h].seq] IN
    /\ st.back # 0 /\ ~TheResult(h).met
    /\ View(h)[tx[h].seq].attempt + 1 < st.max

LoopRange(s) == {k \in contract[s].back..s : contract[k].kind # "acquire"}

LoopBack(h) ==
    /\ tx[h].pc = "back" /\ LoopsBack(h)
    /\ LET s == tx[h].seq
           v == Again(View(h), LoopRange(s), View(h)[s].attempt + 1)
       IN  Free(h, LoopRange(s), v) /\ Step(h, Wrote(h, LoopRange(s), v, "commit"))
    /\ UNCHANGED <<contract, tables, work, faults, history>>

\* validateBack: the step just finished checks an earlier one and was not content.
Checked(s) == {t \in 1..(s - 1) : contract[t].checker = s}
Target(s) == Most(Checked(s))
Tries(s) == IF contract[s].tries = 0 THEN 1 ELSE contract[s].tries

ValidatesBack(h) ==
    LET s == tx[h].seq IN
    /\ Checked(s) # {} /\ ~TheResult(h).passed
    /\ View(h)[Target(s)].attempt + 1 < Tries(Target(s))

ValidateBack(h) ==
    /\ tx[h].pc = "back" /\ ~LoopsBack(h) /\ ValidatesBack(h)
    /\ LET s == tx[h].seq
           t == Target(s)
           v == Again(View(h), {t, s}, View(h)[t].attempt + 1)
       IN  Free(h, {t, s}, v) /\ Step(h, Wrote(h, {t, s}, v, "commit"))
    /\ UNCHANGED <<contract, tables, work, faults, history>>

GoOn(h) ==
    /\ tx[h].pc = "back" /\ ~LoopsBack(h) /\ ~ValidatesBack(h)
    /\ Step(h, [tx[h] EXCEPT !.pc = "effects"])
    /\ UNCHANGED <<contract, tables, work, faults, history>>

\* applyDispatch: the chosen target lives, even if it had been skipped; the
\* others are skipped, and whatever hangs on skipped steps alone.
Dispatched(v, to, t) ==
    LET revived == [v EXCEPT ![t].chosen = TRUE,
                             ![t].state = IF @ = "SKIPPED" THEN "PENDING" ELSE @]
    IN  Propagate(SkipPending(revived, to \ {t}))

\* applyRelease: nodes all of whose roles are given up.
Released(h) ==
    LET out == contract[tx[h].seq].release
        of(R) == {p[2] : p \in {q \in Known(h) : q[1] \in R}}
    IN  of(out) \ of({p[1] : p \in Known(h)} \ out)

Effects(h) ==
    /\ tx[h].pc = "effects"
    /\ LET to == contract[tx[h].seq].to
           t == TheResult(h).pick
           v == IF to = {} THEN View(h) ELSE Dispatched(View(h), to, t)
           S == IF to = {} THEN {} ELSE {t}
       IN  /\ S \subseteq to
           /\ Free(h, S, v)
           /\ Step(h, [Wrote(h, S, v, "acquire") EXCEPT
                           !.drop = Released(h) \cap held,
                           !.given = @ \cup contract[tx[h].seq].release])
    /\ UNCHANGED <<contract, tables, work, faults, history>>

NamesNoTarget(h) ==
    /\ tx[h].pc = "effects"
    /\ contract[tx[h].seq].to # {} /\ TheResult(h).pick = 0
    /\ Step(h, Failed(h, tx[h]))
    /\ UNCHANGED <<contract, tables, work, faults, history>>

\* nextAcquire, doAcquire: one acquire at a time, in order.
Acquirable(h) ==
    {s \in Seqs : /\ contract[s].kind = "acquire"
                  /\ View(h)[s].state = "PENDING" /\ NeedsOver(View(h), s)}

AcquireDone(v, s, skipped) ==
    Propagate(SkipPending([v EXCEPT ![s].state = "DONE"], {skipped}))

\* bindRole: the steps of that role that have no node yet get this one.
Bound(v, r, n) ==
    [s \in Seqs |-> IF contract[s].uses = r /\ v[s].node = NoNode
                    THEN [v[s] EXCEPT !.node = n] ELSE v[s]]

\* Slip: no width limit.
GrabbableBeyond(h) == Nodes \ (HeldBy(h) \cup UNION {tx[k].grab : k \in Handlers})

\* tryGrab sees what it has just given up as free; what another transaction
\* has inserted makes its own INSERT fail.
Grabbable(h) ==
    IF MaxLeases # 0 /\ Cardinality(HeldBy(h)) >= MaxLeases THEN {}
    ELSE Nodes \ (HeldBy(h) \cup UNION {tx[k].grab : k \in Handlers})

Acquire(h) ==
    /\ tx[h].pc = "acquire" /\ Acquirable(h) # {}
    /\ HeldBy(h) # {}
    /\ LET s == Least(Acquirable(h)) IN
       \E n \in Grabbable(h) :
        LET st == contract[s]
            v == AcquireDone(Bound([View(h) EXCEPT ![s].node = n], st.want, n), s, st.unavailable)
        IN  /\ Free(h, {s}, v)
            /\ Step(h, [Wrote(h, {s}, v, "acquire") EXCEPT
                            !.grab = @ \cup {n}, !.drop = @ \ {n},
                            !.assigned = Known(h) \cup {<<st.want, n>>},
                            !.given = @ \ {st.want}])
    /\ UNCHANGED <<contract, tables, work, faults, history>>

\* max(not_after) of no lease is NULL, which the column refuses.
AcquireWithoutLease(h) ==
    /\ tx[h].pc = "acquire" /\ Acquirable(h) # {}
    /\ HeldBy(h) = {} /\ Grabbable(h) # {}
    /\ Step(h, Failed(h, tx[h]))
    /\ UNCHANGED <<contract, tables, work, faults, history>>

\* No candidate, a node lost to another Run, or the width limit: a value.
AcquireNothing(h) ==
    /\ tx[h].pc = "acquire" /\ Acquirable(h) # {}
    /\ LET s == Least(Acquirable(h))
           v == AcquireDone([View(h) EXCEPT ![s].node = NoNode], s, contract[s].acquired)
       IN  Free(h, {s}, v) /\ Step(h, Wrote(h, {s}, v, "acquire"))
    /\ UNCHANGED <<contract, tables, work, faults, history>>

\* raiseAsks
Raised(v) ==
    [s \in Seqs |-> IF contract[s].kind = "ask" /\ v[s].state = "PENDING" /\ NeedsOver(v, s)
                    THEN [v[s] EXCEPT !.state = "ASKED"] ELSE v[s]]

RaiseAsks(h) ==
    /\ tx[h].pc = "acquire" /\ Acquirable(h) = {}
    /\ LET v == Raised(View(h)) IN Free(h, {}, v) /\ Step(h, Wrote(h, {}, v, "commit"))
    /\ UNCHANGED <<contract, tables, work, faults, history>>

Commit(h) ==
    /\ tx[h].pc = "commit"
    /\ row' = View(h)
    /\ held' = HeldBy(h)
    /\ assigned' = Known(h)
    /\ yielded' = tx[h].given
    /\ work' = [n \in Nodes |-> IF n = tx[h].who THEN NoWork ELSE work[n]]
    /\ Step(h, Closed)
    /\ UNCHANGED <<contract, faults, overlap>>

\* The transaction is lost: an error, a deadlock, the Mediator dies. The
\* Worker takes any answer as final and asks for a step.
Rollback(h) ==
    /\ Open(h) /\ tx[h].seq # 0 /\ faults < MaxFaults
    /\ faults' = faults + 1
    /\ work' = [n \in Nodes |-> IF n = tx[h].who THEN NoWork ELSE work[n]]
    /\ Step(h, Closed)
    /\ UNCHANGED <<contract, tables, history>>

-----------------------------------------------------------------------------
Handle(h) ==
    \/ LoopBack(h) \/ ValidateBack(h) \/ GoOn(h)
    \/ Effects(h) \/ NamesNoTarget(h)
    \/ Acquire(h) \/ AcquireWithoutLease(h) \/ AcquireNothing(h)
    \/ RaiseAsks(h) \/ Commit(h)

Report(n) == ReportRefused(n) \/ \E h \in Handlers : ReportOk(h, n) \/ ReportFailed(h, n)
Work(n) == Claim(n) \/ Redeliver(n) \/ Abandon(n)

Next ==
    \/ \E n \in Nodes : Work(n) \/ Report(n)
    \/ \E h \in Handlers : Handle(h) \/ Rollback(h)
    \/ \E h \in Handlers, s \in Seqs : Answer(h, s)

Spec == Init /\ [][Next]_vars

\* Nodes ask for work and finish it, people answer, handlers go on.
Fairness ==
    /\ \A n \in Nodes : WF_vars(Work(n) \/ Report(n))
    /\ \A h \in Handlers : WF_vars(Handle(h))
    /\ \A s \in 1..Most({Len(c) : c \in Contracts}) : WF_vars(s \in Seqs /\ \E h \in Handlers : Answer(h, s))

FairSpec == Spec /\ Fairness

-----------------------------------------------------------------------------
(* Properties.                                                              *)

Row == [state : {"ABSENT", "PENDING", "CLAIMED", "ASKED", "DONE", "SKIPPED", "FAILED"},
        attempt : Nat, chosen : BOOLEAN, node : Nodes \cup {NoNode}]

\* The tables, the Workers and the transactions keep their types.
TypeOK ==
    /\ Len(contract) > 0
    /\ row \in [Seqs -> Row]
    /\ held \subseteq Nodes
    /\ \A p \in assigned : p[2] \in Nodes
    /\ \A n \in Nodes : work[n] = NoWork \/ work[n][1] \in Seqs
    /\ \A h \in Handlers :
        /\ tx[h].pc \in {"idle", "back", "effects", "acquire", "commit"}
        /\ tx[h].seq \in Seqs \cup {0} /\ tx[h].who \in Nodes \cup {NoNode}
        /\ DOMAIN tx[h].w \subseteq Seqs
        /\ \A s \in DOMAIN tx[h].w : tx[h].w[s] \in Row
        /\ tx[h].grab \cup tx[h].drop \subseteq Nodes
    /\ faults \in 0..MaxFaults /\ overlap \in BOOLEAN

\* How often a step may run: what the loops around it and the validations it
\* takes part in allow.
Passes(s) ==
    Most({1} \cup {contract[l].max : l \in {k \in Seqs : contract[k].back # 0 /\ s \in LoopRange(k)}}
             \cup {Tries(t) : t \in {k \in Seqs : contract[k].checker \in Seqs
                                                   /\ (k = s \/ contract[k].checker = s)}})

\* However reports of parallel steps meet, no step runs more often than its
\* loops and validations allow.
AttemptsBounded == \A s \in Seqs : row[s].attempt < Passes(s)

\* The steps that begin again together when k ends: the range of its loop, or
\* the last step it checks and k itself.
Rounds(k) ==
    (IF contract[k].back = 0 THEN {} ELSE {LoopRange(k)})
        \cup (IF Checked(k) = {} THEN {} ELSE {{Target(k), k}})

\* The steps the end of k may bring back.
BroughtBack == [k \in Seqs |-> UNION Rounds(k)]

\* Two loops or validations share a step: while the one's transaction is open
\* the other's may still take back what the first has seen.
RetriesMeet ==
    \E k, l \in Seqs : \E A \in Rounds(k), B \in Rounds(l) :
        <<k, A>> # <<l, B>> /\ A \cap B # {}

\* Validate asks only that the users of a role are ancestors of the step that
\* gives it up. Enough is: they are over before it whichever way the forks go
\* and whatever begins again, it happens once, and no other step gives up the role.
ReleasesComeLast ==
    \A i \in Seqs : contract[i].release # {} =>
        /\ ~RetriesMeet
        /\ \A k \in Seqs \ {i} :
            i \notin BroughtBack[k] /\ contract[k].release \cap contract[i].release = {}
        /\ \A j \in Seqs \ {i} : contract[j].uses \in contract[i].release =>
            SurelyOver(contract, BroughtBack, i, j)

\* Validate accepts a dispatch and a validate_with of an acquire. Nobody reads
\* the one; the other lets a node claim the acquire as if it were its step.
AcquiresArePlain ==
    \A s \in Seqs : contract[s].kind = "acquire" => contract[s].to = {} /\ contract[s].checker = 0

\* Nodes given up are not needed any more: a step that may still run, or
\* runs, has its lease (release.go, ReleaseOk).
StepsKeepTheirNodes ==
    \A s \in Seqs :
        row[s].state \in {"PENDING", "CLAIMED"} /\ row[s].node # NoNode => row[s].node \in held

LateReleasesAreSafe == StepsKeepTheirNodes \/ ~(ReleasesComeLast /\ AcquiresArePlain)

\* A report finishes the attempt its Worker ran, never a later one, though
\* the report does not say which it is.
ReportsAreCurrent ==
    \A h \in Handlers :
        tx[h].who # NoNode =>
            work[tx[h].who] = <<tx[h].seq, row[tx[h].seq].attempt>>

RolesOf(n) == {p[1] : p \in {q \in assigned : q[2] = n}}

\* Whatever a Run holds is bound to one of its roles, a node with one role
\* is free once that is given up and until it is taken for it again, and the
\* Run holds no more than it may; unless two transactions were open at once
\* (release.go, acquire.go).
HoldingsInOrder ==
    overlap \/ /\ \A n \in held : RolesOf(n) # {}
               /\ \A n \in held, r \in yielded : RolesOf(n) # {r}
               /\ MaxLeases # 0 => Cardinality(held) <= MaxLeases

Idle == \A h \in Handlers : ~Open(h)

Ready(s) ==
    /\ contract[s].kind \in {"acquire", "ask"}
    /\ row[s].state = "PENDING" /\ NeedsOver(row, s)

\* No acquire and no question whose needs are over is left behind by the
\* transaction that saw them end.
JoinsAreServed == Idle /\ (\A s \in Seqs : row[s].state # "FAILED") => \A s \in Seqs : ~Ready(s)

\* A question whose needs are over has been asked, loops or not.
QuestionsAreAsked ==
    Idle /\ (\A s \in Seqs : row[s].state # "FAILED") =>
        \A s \in Seqs : contract[s].kind = "ask" => ~Ready(s)

\* The steps that may begin again when k ends: the range of its loop, what it
\* checks.
Retries(k) == (IF contract[k].back = 0 THEN {} ELSE LoopRange(k)) \cup Checked(k)

\* The steps that begin again when k sends the Run back.
Restarted(k) == Retries(k) \cup (IF Retries(k) = {} THEN {} ELSE {k})

\* A question that begins again follows a step that does too: going back
\* raises no questions, the report of that step will.
QuestionsFollowRetries ==
    \A k \in Seqs : \A s \in Restarted(k) :
        contract[s].kind = "ask" => NeedsOf(contract, s) \cap Restarted(k) # {}

\* A single transaction at a time serves every acquire and every question in
\* the step that makes it ready.
JoinsAreServedAlone == overlap \/ ~QuestionsFollowRetries \/ JoinsAreServed

\* Whether fork f, which is done, has taken t.
Took(f, t) ==
    IF contract[f].kind = "acquire"
    THEN t = IF row[f].node = NoNode THEN contract[f].unavailable ELSE contract[f].acquired
    ELSE row[t].chosen

\* The steps that every fork to them has passed by.
PassedBy ==
    {t \in Seqs : LET forks == {f \in Seqs : t \in Branches(contract[f])}
                  IN  /\ forks # {}
                      /\ \A f \in forks : row[f].state = "DONE" /\ ~Took(f, t)}

\* A fork that leads into what begins again begins again with it. In a loop an
\* acquire never does.
ForksBeginAgain ==
    \A k, f \in Seqs : \A R \in Rounds(k) : Branches(contract[f]) \cap R # {} => f \in R

\* The road not taken stays closed: a step that no fork has chosen does not
\* wait for a node (dispatch.go, acquire.go).
RoadsStayClosed ==
    ForksBeginAgain /\ AcquiresArePlain => \A t \in PassedBy : row[t].state # "PENDING"

\* Validate forbids loop and validate_with on one step, not around it.
RetriesNest ==
    \E l, t \in Seqs : /\ contract[l].back # 0 /\ contract[t].checker \in Seqs
                       /\ {t, contract[t].checker} \cap LoopRange(l) # {}

\* The attempt of a step never goes back, so that (step, attempt) names one
\* execution in the Record; unless retries are nested.
AttemptsGrow == [][(\A s \in Seqs : row'[s].attempt >= row[s].attempt) \/ RetriesNest]_vars

GraphOver ==
    \/ \E s \in Seqs : row[s].state = "FAILED"
    \/ \A s \in Seqs : row[s].state \in {"DONE", "SKIPPED"}

GraphAtEnd ==
    \/ GraphOver \/ overlap
    \/ ~(StepsKeepTheirNodes /\ QuestionsFollowRetries /\ ForksBeginAgain)

\* Every accepted contract comes to its end if its nodes work and its
\* questions are answered, unless two transactions were open at once, a step
\* lost its node, or what begins again leaves out a fork or the step before a
\* question.
GraphEnds == <>GraphAtEnd
=============================================================================
