------------------------- MODULE RunLifecycle_proofs -------------------------
(***************************************************************************)
(* Theorems about RunLifecycle and their proofs.                           *)
(***************************************************************************)
EXTENDS RunLifecycle, TLAPS

-----------------------------------------------------------------------------
(* Type correctness.                                                        *)

\* What a scan writes has the type of the tables it writes.
LEMMA StartType ==
    ASSUME NEW P \in SUBSET Runs,
           NEW st \in [Runs -> RunState], NEW sp \in [Steps -> StepState],
           NEW l \in [Nodes -> Runs \cup {NoRun}]
    PROVE  /\ Running(P, st) \in [Runs -> RunState]
           /\ Fresh(P, sp) \in [Steps -> StepState]
           /\ Granted(P, l) \in [Nodes -> Runs \cup {NoRun}]
<1>1. Running(P, st) \in [Runs -> RunState]
  BY DEF Running, RunState, Active
<1>2. Fresh(P, sp) \in [Steps -> StepState]
  BY DEF Fresh, FirstState, StepState, Open
<1>3. Granted(P, l) \in [Nodes -> Runs \cup {NoRun}]
  <2> SUFFICES ASSUME NEW n \in Nodes
               PROVE  (IF \E p \in P : n \in Grants[p]
                       THEN CHOOSE p \in P : n \in Grants[p] ELSE l[n]) \in Runs \cup {NoRun}
    BY DEF Granted
  <2>1. CASE \E p \in P : n \in Grants[p]
    <3>1. (CHOOSE p \in P : n \in Grants[p]) \in P
      BY <2>1
    <3> QED BY <2>1, <3>1
  <2>2. CASE ~\E p \in P : n \in Grants[p]
    BY <2>2
  <2> QED BY <2>1, <2>2
<1> QED BY <1>1, <1>2, <1>3

LEMMA OpenedType ==
    ASSUME TypeOK, NEW P \in SUBSET Runs
    PROVE  Opened(P) \in [Runs -> {"absent", "open"} \cup Verdict]
BY DEF TypeOK, Opened

\* A transaction that scans and commits leaves well-typed tables.
LEMMA WakeType ==
    ASSUME TypeOK,
           NEW st \in [Runs -> RunState], NEW sp \in [Steps -> StepState],
           NEW l \in [Nodes -> Runs \cup {NoRun}], NEW a \in [Runs -> SUBSET Runs],
           WakeAndCommit(st, sp, l, a)
    PROVE  /\ state' \in [Runs -> RunState]
           /\ step' \in [Steps -> StepState]
           /\ lease' \in [Nodes -> Runs \cup {NoRun}]
           /\ late' \subseteq Nodes
           /\ record' \in [Runs -> {"absent", "open"} \cup Verdict]
           /\ ahead' \in [Runs -> SUBSET Runs]
           /\ missed' \in BOOLEAN
<1>1. PICK P \in SUBSET Runs :
         /\ Start(P, st, sp, l) /\ record' = Opened(P) /\ ahead' = a /\ missed' = FALSE
  BY DEF WakeAndCommit
<1>2. late' \subseteq Nodes
  BY <1>1 DEF Start, TypeOK
<1> QED BY <1>1, <1>2, StartType, OpenedType DEF Start

LEMMA SettlingType == ASSUME NEW r \in Runs PROVE Settling(r) \in Proc
BY DEF Settling, Proc

LEMMA AfterWakeType == ASSUME NEW p \in Reap PROVE AfterWake(p) \in Reap
BY DEF AfterWake, Reap, Rested

LEMMA EndType ==
    ASSUME TypeOK, NEW r \in Runs, NEW v \in Verdict
    PROVE  /\ EndRun(r, v) \in [Runs -> RunState]
           /\ EndVerdict(r, v) \in [Runs -> Verdict \cup {"none"}]
           /\ Freed(lease, r) \in [Nodes -> Runs \cup {NoRun}]
BY DEF TypeOK, EndRun, EndVerdict, Freed, StateOf, RunState, Ended

LEMMA EndProcType ==
    ASSUME TypeOK, NEW w \in Workers, proc[w].pc \in {"end", "cancel", "seal"}
    PROVE  /\ proc[w].run \in Runs /\ proc[w].verdict \in Verdict
           /\ [proc EXCEPT ![w].pc = "seal"] \in [Workers -> Proc]
BY DEF TypeOK, Proc, Idle

LEMMA TypeInit == Init => TypeOK
<1> SUFFICES ASSUME Init PROVE TypeOK
  OBVIOUS
<1>1. Idle \in Proc
  BY DEF Proc
<1>2. proc \in [Workers -> Proc]
  BY <1>1 DEF Init
<1>3. reap \in Reap
  BY DEF Init, Reap, Rested
<1>4. 0 \in 0..MaxFaults
  BY FaultBound
<1> QED BY <1>2, <1>3, <1>4 DEF Init, TypeOK, RunState, StepState

LEMMA RaiseAsksType ==
    ASSUME NEW r, NEW sp \in [Steps -> StepState]
    PROVE  RaiseAsks(r, sp) \in [Steps -> StepState]
BY DEF RaiseAsks, StepState, Open

\* TypeOK is preserved by every action.
LEMMA TypeStep == TypeOK /\ [Next]_vars => TypeOK'
<1> SUFFICES ASSUME TypeOK, [Next]_vars PROVE TypeOK'
  OBVIOUS
<1> USE DEF tables
<1>1. ASSUME NEW r \in Runs, CreateBegin(r) PROVE TypeOK'
  BY <1>1 DEF CreateBegin, TypeOK
<1>2. ASSUME NEW r \in Runs, CreateCommit(r) PROVE TypeOK'
  <2>1. PICK W \in SUBSET {w \in Workers : ScanBlocked(w, r)} :
           /\ proc' = [w \in Workers |-> IF w \in W THEN Idle ELSE proc[w]]
           /\ IF Reaper \in W /\ proc[Reaper] = Idle
              THEN /\ reap' = IF reap.pc = "boot" THEN Rested ELSE AfterWake(reap)
                   /\ missed' = TRUE
              ELSE UNCHANGED <<reap, missed>>
    BY <1>2 DEF CreateCommit
  <2>2. proc' \in [Workers -> Proc]
    <3>1. Idle \in Proc /\ proc \in [Workers -> Proc]
      BY DEF Proc, TypeOK
    <3> QED BY <2>1, <3>1
  <2>3. reap' \in Reap /\ missed' \in BOOLEAN
    <3>1. reap \in Reap /\ missed \in BOOLEAN
      BY DEF TypeOK
    <3>2. Rested \in Reap
      BY DEF Reap, Rested
    <3>3. AfterWake(reap) \in Reap
      BY <3>1, AfterWakeType
    <3> QED BY <2>1, <3>1, <3>2, <3>3
  <2>4. /\ state' = Running({r}, state) /\ step' = Fresh({r}, step)
        /\ lease' = Granted({r}, lease) /\ late' \subseteq Nodes
        /\ record' = Opened({r}) /\ creating' \subseteq Runs
        /\ UNCHANGED <<verdict, ahead, faults>>
    BY <1>2 DEF CreateCommit, Start, TypeOK
  <2>5. state \in [Runs -> RunState] /\ step \in [Steps -> StepState]
        /\ lease \in [Nodes -> Runs \cup {NoRun}]
    BY DEF TypeOK
  <2>6. /\ state' \in [Runs -> RunState] /\ step' \in [Steps -> StepState]
        /\ lease' \in [Nodes -> Runs \cup {NoRun}]
        /\ record' \in [Runs -> {"absent", "open"} \cup Verdict]
    BY <2>4, <2>5, StartType, OpenedType
  <2> QED BY <2>2, <2>3, <2>4, <2>6 DEF TypeOK
<1>3. ASSUME NEW r \in Runs, CreateRollback(r) PROVE TypeOK'
  <2>1. record' \in [Runs -> {"absent", "open"} \cup Verdict]
    BY <1>3, OpenedType DEF CreateRollback, TypeOK
  <2> QED BY <1>3, <2>1, FaultBound DEF CreateRollback, TypeOK
<1>4. ASSUME NEW r \in Runs, Enqueue(r) PROVE TypeOK'
  <2> DEFINE st == [state EXCEPT ![r] = "QUEUED"]
             a == [ahead EXCEPT ![r] = {q \in Runs : state[q] = "QUEUED"}]
  <2>1. st \in [Runs -> RunState] /\ a \in [Runs -> SUBSET Runs]
        /\ step \in [Steps -> StepState] /\ lease \in [Nodes -> Runs \cup {NoRun}]
    BY DEF TypeOK, RunState
  <2>2. WakeAndCommit(st, step, lease, a) /\ UNCHANGED <<verdict, creating, proc, reap, faults>>
    BY <1>4 DEF Enqueue
  <2> HIDE DEF st, a
  <2> QED BY <2>1, <2>2, WakeType DEF TypeOK
<1>5. ASSUME NEW r \in Runs, Reject(r) PROVE TypeOK'
  BY <1>5 DEF Reject, TypeOK, RunState, Ended
<1>6. ASSUME NEW s \in Steps, Claim(s) PROVE TypeOK'
  BY <1>6 DEF Claim, TypeOK, StepState, Open
<1>7. ASSUME NEW h \in Handlers, NEW s \in Steps, NEW ok \in BOOLEAN, Report(h, s, ok) PROVE TypeOK'
  <2>1. RunOf[s] \in Runs /\ h \in Workers
    BY StepsType DEF Workers
  <2>2. /\ [step EXCEPT ![s] = "DONE"] \in [Steps -> StepState]
        /\ [step EXCEPT ![s] = "FAILED"] \in [Steps -> StepState]
    BY DEF TypeOK, StepState, Terminal
  <2>3. step' \in [Steps -> StepState]
    BY <1>7, <2>2, RaiseAsksType DEF Report
  <2>4. proc' \in [Workers -> Proc]
    BY <1>7, <2>1, SettlingType DEF Report, TypeOK
  <2> QED BY <1>7, <2>3, <2>4 DEF Report, TypeOK
<1>8. ASSUME NEW h \in Handlers, NEW s \in Steps, Answer(h, s) PROVE TypeOK'
  <2>1. RunOf[s] \in Runs /\ h \in Workers
    BY StepsType DEF Workers
  <2>2. [step EXCEPT ![s] = "DONE"] \in [Steps -> StepState]
    BY DEF TypeOK, StepState, Terminal
  <2>3. step' \in [Steps -> StepState]
    BY <1>8, <2>2, RaiseAsksType DEF Answer
  <2>4. proc' \in [Workers -> Proc]
    BY <1>8, <2>1, SettlingType DEF Answer, TypeOK
  <2> QED BY <1>8, <2>3, <2>4 DEF Answer, TypeOK
<1>9. ASSUME NEW h \in Handlers, NEW n \in Nodes, NodeRestarted(h, n) PROVE TypeOK'
  <2>1. step' \in [Steps -> StepState]
    BY <1>9 DEF NodeRestarted, TypeOK, StepState, Terminal
  <2>2. proc' \in [Workers -> Proc]
    <3>1. PICK s \in Steps : proc' = [proc EXCEPT ![h] = Settling(RunOf[s])]
      BY <1>9 DEF NodeRestarted
    <3> QED BY <3>1, StepsType, SettlingType DEF TypeOK
  <2> QED BY <1>9, <2>1, <2>2 DEF NodeRestarted, TypeOK
<1>10. ASSUME NEW n \in Nodes, Heartbeat(n) \/ LeaseExpires(n) PROVE TypeOK'
  BY <1>10 DEF Heartbeat, LeaseExpires, TypeOK
<1>11. ASSUME NEW w \in Workers, SettleRead(w) PROVE TypeOK'
  <2>1. proc[w] \in Proc /\ proc[w].pc = "read"
    BY <1>11 DEF SettleRead, TypeOK
  <2>2. [proc[w] EXCEPT !.pc = "count"] \in Proc /\ Idle \in Proc
    BY <2>1 DEF Proc, Idle
  <2>3. proc' \in [Workers -> Proc]
    BY <1>11, <2>2 DEF SettleRead, TypeOK
  <2> QED BY <1>11, <2>3 DEF SettleRead, TypeOK
<1>12. ASSUME NEW w \in Workers, SettleCount(w) PROVE TypeOK'
  <2>1. proc[w] \in Proc /\ proc[w].pc = "count"
    BY <1>12 DEF SettleCount, TypeOK
  <2>2. [proc[w] EXCEPT !.pc = "end", !.verdict = "ran"] \in Proc
    <3>1. proc[w] \in [pc : {"read", "count", "verify"}, run : Runs, verdict : {"none"}]
      BY <2>1 DEF Proc, Idle
    <3>2. "ran" \in Verdict
      BY DEF Verdict
    <3>3. [proc[w] EXCEPT !.pc = "end", !.verdict = "ran"]
            \in [pc : {"end", "cancel", "seal"}, run : Runs, verdict : Verdict]
      BY <3>1, <3>2
    <3> QED BY <3>3 DEF Proc
  <2>4. [proc[w] EXCEPT !.pc = "verify"] \in Proc /\ Idle \in Proc
    BY <2>1 DEF Proc, Idle
  <2>3. proc' \in [Workers -> Proc]
    BY <1>12, <2>2, <2>4 DEF SettleCount, TypeOK
  <2> QED BY <1>12, <2>3 DEF SettleCount, TypeOK
<1>13. ASSUME NEW w \in Workers, SettleVerify(w) PROVE TypeOK'
  <2>1. proc[w] \in Proc /\ proc[w].pc = "verify"
    BY <1>13 DEF SettleVerify, TypeOK
  <2>2. proc[w].run \in Runs
    BY <2>1 DEF Proc, Idle
  <2>3. state' \in [Runs -> RunState]
    BY <1>13, <2>2 DEF SettleVerify, Verifying, TypeOK, RunState, Active
  <2>4. PICK v \in Judge[proc[w].run] :
           proc' = [proc EXCEPT ![w].pc = "end", ![w].verdict = v]
    BY <1>13 DEF SettleVerify
  <2>5. v \in Verdict
    BY <2>2, JudgeType DEF Verdict
  <2>6. proc' \in [Workers -> Proc]
    BY <2>1, <2>2, <2>4, <2>5 DEF TypeOK, Proc, Idle
  <2> QED BY <1>13, <2>3, <2>6 DEF SettleVerify, TypeOK
<1>14. ASSUME NEW w \in Workers, SettleEnd(w) PROVE TypeOK'
  <2> DEFINE r == proc[w].run
             v == proc[w].verdict
  <2>1. r \in Runs /\ v \in Verdict /\ proc' \in [Workers -> Proc]
    BY <1>14, EndProcType DEF SettleEnd
  <2>2. WakeAndCommit(EndRun(r, v), step, Freed(lease, r), ahead)
        /\ verdict' = EndVerdict(r, v) /\ UNCHANGED <<creating, reap, faults>>
    BY <1>14 DEF SettleEnd
  <2>3. step \in [Steps -> StepState] /\ ahead \in [Runs -> SUBSET Runs]
    BY DEF TypeOK
  <2> HIDE DEF r, v
  <2> QED BY <2>1, <2>2, <2>3, EndType, WakeType DEF TypeOK
<1>15. ASSUME NEW h \in Handlers, NEW r \in Runs, CancelRead(h, r) PROVE TypeOK'
  <2>1. [pc |-> "cancel", run |-> r, verdict |-> "cancelled"] \in Proc
    BY DEF Proc, Verdict
  <2> QED BY <1>15, <2>1 DEF CancelRead, TypeOK
<1>16. ASSUME NEW w \in Workers, CancelEnd(w) PROVE TypeOK'
  <2> DEFINE r == proc[w].run
             v == proc[w].verdict
  <2>1. r \in Runs /\ v \in Verdict /\ proc' \in [Workers -> Proc]
    BY <1>16, EndProcType DEF CancelEnd
  <2>2. WakeAndCommit(EndRun(r, v), Closed(r), Freed(lease, r), ahead)
        /\ verdict' = EndVerdict(r, v) /\ UNCHANGED <<creating, reap, faults>>
    BY <1>16 DEF CancelEnd
  <2>3. Closed(r) \in [Steps -> StepState] /\ ahead \in [Runs -> SUBSET Runs]
    BY DEF TypeOK, Closed, StepState, Terminal
  <2> HIDE DEF r, v
  <2> QED BY <2>1, <2>2, <2>3, EndType, WakeType DEF TypeOK
<1>17. ASSUME NEW w \in Workers, Seal(w) PROVE TypeOK'
  <2>1. proc[w].run \in Runs /\ proc[w].verdict \in Verdict
    BY <1>17, EndProcType DEF Seal
  <2>2. record' \in [Runs -> {"absent", "open"} \cup Verdict]
    BY <1>17, <2>1 DEF Seal, SealAs, TypeOK
  <2> QED BY <1>17, <2>2 DEF Seal, TypeOK, Proc
<1>18. CASE ReapAsks
  <2>1. PICK due \in SUBSET {s \in Timed : step[s] = "ASKED" /\ state[RunOf[s]] = "RUNNING"} :
           /\ step' = [s \in Steps |-> IF s \in due THEN "FAILED" ELSE step[s]]
           /\ reap' = [reap EXCEPT !.pc = "settle", !.todo = Whose(due)]
    BY <1>18 DEF ReapAsks
  <2>2. step' \in [Steps -> StepState]
    BY <2>1 DEF TypeOK, StepState, Terminal
  <2>3. Whose(due) \subseteq Runs
    BY StepsType DEF Whose
  <2>4. reap' \in Reap
    BY <2>1, <2>3 DEF TypeOK, Reap
  <2> QED BY <1>18, <2>2, <2>4 DEF ReapAsks, TypeOK
<1>19. CASE ReapSettle
  <2>1. reap' \in Reap
    BY <1>19 DEF ReapSettle, TypeOK, Reap
  <2>2. proc' \in [Workers -> Proc]
    BY <1>19, SettlingType DEF ReapSettle, TypeOK, Reap
  <2> QED BY <1>19, <2>1, <2>2 DEF ReapSettle, TypeOK
<1>20. CASE ReapFail
  <2>1. state' \in [Runs -> RunState]
    BY <1>20 DEF ReapFail, TypeOK, RunState, Ended
  <2>2. reap' \in Reap
    BY <1>20 DEF ReapFail, TypeOK, Reap
  <2> QED BY <1>20, <2>1, <2>2 DEF ReapFail, TypeOK
<1>21. CASE ReapSteps
  BY <1>21 DEF ReapSteps, TypeOK, StepState, Terminal, Reap
<1>22. CASE ReapFree
  <2>1. reap' \in Reap
    BY <1>22, AfterWakeType DEF ReapFree, AfterFree, TypeOK, Reap
  <2> QED BY <1>22, <2>1 DEF ReapFree, TypeOK
<1>23. CASE ReapWake
  <2>1. WakeAndCommit(state, step, lease, ahead) /\ UNCHANGED <<verdict, creating, proc, faults>>
    BY <1>23 DEF ReapWake
  <2>2. reap' \in Reap
    BY <1>23, AfterWakeType DEF ReapWake, TypeOK, Reap, Rested
  <2>3. state \in [Runs -> RunState] /\ step \in [Steps -> StepState]
        /\ lease \in [Nodes -> Runs \cup {NoRun}] /\ ahead \in [Runs -> SUBSET Runs]
    BY DEF TypeOK
  <2> QED BY <2>1, <2>2, <2>3, WakeType DEF TypeOK
<1>24. CASE ReapSnap
  <2>1. reap' \in Reap
    <3>1. PICK old : reap' = [reap EXCEPT !.pc = "seal", !.reclaimed = {},
                                          !.todo = Sealable \ old]
      BY <1>24 DEF ReapSnap
    <3>2. Sealable \ old \subseteq Runs
      BY DEF Sealable
    <3> QED BY <3>1, <3>2 DEF TypeOK, Reap
  <2> QED BY <1>24, <2>1 DEF ReapSnap, TypeOK
<1>25. CASE ReapSeal
  <2>1. reap' \in Reap
    BY <1>25 DEF ReapSeal, TypeOK, Reap, Rested
  <2>2. record' \in [Runs -> {"absent", "open"} \cup Verdict]
    BY <1>25 DEF ReapSeal, SealAs, SealVerdict, TypeOK, Verdict
  <2> QED BY <1>25, <2>1, <2>2 DEF ReapSeal, TypeOK
<1>26. ASSUME NEW h \in Handlers, Drop(h) PROVE TypeOK'
  <2>1. Idle \in Proc /\ faults' \in 0..MaxFaults
    BY <1>26, FaultBound DEF Drop, TypeOK, Proc
  <2> QED BY <1>26, <2>1 DEF Drop, TypeOK
<1>27. CASE Restart
  BY <1>27, FaultBound DEF Restart, TypeOK, Proc, Reap, Rested
<1>28. CASE UNCHANGED vars
  BY <1>28 DEF vars, TypeOK
<1> QED
  <2>1. \A h \in Handlers : h \in Workers
    BY DEF Workers
  <2> QED
    BY <1>1, <1>2, <1>3, <1>4, <1>5, <1>6, <1>7, <1>8, <1>9, <1>10, <1>11, <1>12, <1>13, <1>14,
       <1>15, <1>16, <1>17, <1>18, <1>19, <1>20, <1>21, <1>22, <1>23, <1>24, <1>25, <1>26, <1>27,
       <1>28, <2>1
       DEF Next, Submit, Create, Request, Proceed, Pass

\* Every reachable state is well typed: no interleaving of requests, reaper,
\* cancelled requests and restarts writes a value the schema does not know.
THEOREM TypeCorrect == Spec => []TypeOK
<1>1. Init => TypeOK
  BY TypeInit
<1>2. TypeOK /\ [Next]_vars => TypeOK'
  BY TypeStep
<1> QED BY <1>1, <1>2, PTL DEF Spec

-----------------------------------------------------------------------------
(* The ledger: who may hold what.                                           *)

\* The parts of LedgerInv as predicates on the tables they read.
Whole(st, l) == \A r \in Runs : st[r] \in Active => {n \in Nodes : l[n] = r} = Grants[r]
Bare(st, vd, l) == \A n \in Nodes : l[n] # NoRun =>
    st[l[n]] \in Active \/ (st[l[n]] = "FAILED" /\ vd[l[n]] = "none")
Apart(st, l, cr) == \A c \in cr :
    /\ st[c] = "ABSENT"
    /\ \A n \in Grants[c] : l[n] = NoRun
    /\ \A d \in cr : c # d => Grants[c] \cap Grants[d] = {}
Last(st, vd) == \A r \in Runs : vd[r] # "none" => st[r] \in Ended
Ordered(st, a) == \A q, r \in Runs : st[q] = "QUEUED" /\ st[r] = "QUEUED" =>
    q = r \/ q \in a[r] \/ r \in a[q]
Fine(st, vd, l, a, cr) ==
    Whole(st, l) /\ Bare(st, vd, l) /\ Apart(st, l, cr) /\ Last(st, vd) /\ Ordered(st, a)

LEMMA LedgerIsFine == LedgerInv <=> TypeOK /\ Fine(state, verdict, lease, ahead, creating)
BY DEF LedgerInv, Fine, CreatingOK, VerdictIsLast, QueueOrdered, AllOrNothing,
       EndedHoldsNothing, Whole, Bare, Apart, Last, Ordered, Held, HasEnded

\* Runs that have not started, whose nodes are free and wanted by no other
\* that starts or is being created.
Startable(P, st, l, cr) ==
    /\ \A p \in P : st[p] \in {"ABSENT", "QUEUED"} /\ p \notin cr
    /\ \A p \in P : \A n \in Grants[p] : l[n] = NoRun
    /\ \A p, q \in P : p # q => Grants[p] \cap Grants[q] = {}
    /\ \A p \in P, c \in cr : Grants[p] \cap Grants[c] = {}

\* A scan promotes such Runs only, because the queue is totally ordered: of
\* two that want the same node, the later one sees it taken.
LEMMA ScanStartable ==
    ASSUME NEW P \in SUBSET Runs, NEW st, NEW l, NEW a, NEW cr \in SUBSET Runs,
           Promotes(P, st, l, a), \A c \in cr : ~Waits(P, c),
           Ordered(st, a), Apart(st, l, cr)
    PROVE  Startable(P, st, l, cr)
<1>1. \A p \in P : st[p] = "QUEUED" /\ p \in Runs
  BY DEF Promotes
<1>2. \A p \in P : p \notin cr
  BY <1>1 DEF Apart
<1>3. ASSUME NEW p \in P, NEW n \in Grants[p] PROVE l[n] = NoRun
  <2>1. Grants[p] \subseteq Nodes
    BY <1>1, GrantsType
  <2>2. Grants[p] \cap {m \in Nodes : l[m] # NoRun} = {}
    BY <1>1 DEF Promotes
  <2> QED BY <2>1, <2>2
<1>4. ASSUME NEW p \in P, NEW q \in P, p \in a[q] PROVE Grants[p] \cap Grants[q] = {}
  <2>1. Grants[q] \cap UNION {Grants[x] : x \in P \cap a[q]} = {}
    BY <1>1 DEF Promotes
  <2>2. Grants[p] \subseteq UNION {Grants[x] : x \in P \cap a[q]}
    BY <1>4
  <2> QED BY <2>1, <2>2
<1>5. ASSUME NEW p \in P, NEW q \in P, p # q PROVE Grants[p] \cap Grants[q] = {}
  <2>1. p \in a[q] \/ q \in a[p]
    BY <1>1, <1>5 DEF Ordered
  <2> QED BY <2>1, <1>4
<1>6. ASSUME NEW p \in P, NEW c \in cr PROVE Grants[p] \cap Grants[c] = {}
  <2>1. (UNION {Grants[x] : x \in P}) \cap Grants[c] = {}
    BY DEF Waits
  <2>2. Grants[p] \subseteq UNION {Grants[x] : x \in P}
    OBVIOUS
  <2> QED BY <2>1, <2>2
<1> QED BY <1>1, <1>2, <1>3, <1>5, <1>6 DEF Startable

\* Starting them keeps the ledger fine, and no Run that has ended moves.
LEMMA StartKeeps ==
    ASSUME NEW P \in SUBSET Runs, NEW st \in [Runs -> RunState],
           NEW l \in [Nodes -> Runs \cup {NoRun}], NEW vd, NEW a, NEW cr \in SUBSET Runs,
           Startable(P, st, l, cr), Fine(st, vd, l, a, cr)
    PROVE  /\ Fine(Running(P, st), vd, Granted(P, l), a, cr)
           /\ \A r \in Runs : st[r] \in Ended => Running(P, st)[r] = st[r]
<1> DEFINE st2 == Running(P, st)
           l2 == Granted(P, l)
<1>1. \A r \in Runs : st2[r] = IF r \in P THEN "RUNNING" ELSE st[r]
  BY DEF Running
<1>2. /\ \A n \in Nodes, p \in P : n \in Grants[p] => l2[n] = p
      /\ \A n \in Nodes : (\A p \in P : n \notin Grants[p]) => l2[n] = l[n]
  <2> SUFFICES ASSUME NEW n \in Nodes
               PROVE  /\ \A p \in P : n \in Grants[p] => l2[n] = p
                      /\ (\A p \in P : n \notin Grants[p]) => l2[n] = l[n]
    OBVIOUS
  <2>1. \A p, q \in P : p # q => Grants[p] \cap Grants[q] = {}
    BY DEF Startable
  <2>2. /\ \A p \in P : n \in Grants[p] => Granted(P, l)[n] = p
        /\ (\A p \in P : n \notin Grants[p]) => Granted(P, l)[n] = l[n]
    <3> HIDE DEF st2, l2
    <3>1. CASE \E p \in P : n \in Grants[p]
      <4>1. PICK p \in P : n \in Grants[p]
        BY <3>1
      <4>2. \A q \in P : n \in Grants[q] => q = p
        BY <2>1, <4>1
      <4>3. (CHOOSE q \in P : n \in Grants[q]) = p
        BY <4>1, <4>2
      <4> QED BY <3>1, <4>1, <4>2, <4>3 DEF Granted
    <3>2. CASE \A p \in P : n \notin Grants[p]
      BY <3>2 DEF Granted
    <3> QED BY <3>1, <3>2
  <2> QED BY <2>2
<1>3. \A n \in Nodes : l[n] # NoRun => l2[n] = l[n]
  BY <1>2 DEF Startable
<1>4. \A p \in P : st[p] \in {"ABSENT", "QUEUED"} /\ p \in Runs /\ p \notin cr
  BY DEF Startable
<1>5. \A p \in P, n \in Nodes : l[n] # p
  BY <1>4, Sentinels DEF Fine, Bare, Active
<1> HIDE DEF st2, l2
<1>6. Whole(st2, l2)
  <2> SUFFICES ASSUME NEW r \in Runs, st2[r] \in Active
               PROVE  \A n \in Nodes : l2[n] = r <=> n \in Grants[r]
    BY GrantsType DEF Whole
  <2>1. CASE r \in P
    BY <1>2, <1>5, <2>1
  <2>2. CASE r \notin P
    <3>1. {n \in Nodes : l[n] = r} = Grants[r]
      BY <1>1, <2>2 DEF Fine, Whole
    <3>2. \A n \in Grants[r] : n \in Nodes /\ l[n] = r
      BY <3>1
    <3>3. ASSUME NEW n \in Nodes, n \in Grants[r] PROVE l2[n] = r
      BY <3>2, <3>3, <1>3, Sentinels
    <3>4. ASSUME NEW n \in Nodes, l2[n] = r PROVE n \in Grants[r]
      BY <3>1, <3>4, <1>2, <2>2
    <3> QED BY <3>3, <3>4
  <2> QED BY <2>1, <2>2
<1>7. Bare(st2, vd, l2)
  <2> SUFFICES ASSUME NEW n \in Nodes, l2[n] # NoRun
               PROVE  st2[l2[n]] \in Active \/ (st2[l2[n]] = "FAILED" /\ vd[l2[n]] = "none")
    BY DEF Bare
  <2>1. CASE \E p \in P : n \in Grants[p]
    BY <1>1, <1>2, <1>4, <2>1 DEF Active
  <2>2. CASE \A p \in P : n \notin Grants[p]
    <3>1. l2[n] = l[n] /\ l[n] \in Runs /\ l[n] \notin P
      BY <1>2, <1>5, <2>2
    <3> QED BY <1>1, <3>1 DEF Fine, Bare
  <2> QED BY <2>1, <2>2
<1>8. Apart(st2, l2, cr)
  <2> SUFFICES ASSUME NEW c \in cr
               PROVE  st2[c] = "ABSENT" /\ \A n \in Grants[c] : l2[n] = NoRun
    BY DEF Apart, Fine
  <2>1. st2[c] = "ABSENT"
    BY <1>1, <1>4 DEF Fine, Apart
  <2>2. ASSUME NEW n \in Grants[c] PROVE l2[n] = NoRun
    <3>1. n \in Nodes /\ l[n] = NoRun
      BY GrantsType DEF Fine, Apart
    <3>2. \A p \in P : n \notin Grants[p]
      BY DEF Startable
    <3> QED BY <1>2, <3>1, <3>2
  <2> QED BY <2>1, <2>2
<1>9. Last(st2, vd)
  BY <1>1, <1>4 DEF Fine, Last, Ended
<1>10. Ordered(st2, a)
  BY <1>1 DEF Fine, Ordered
<1>11. \A r \in Runs : st[r] \in Ended => st2[r] = st[r]
  BY <1>1, <1>4 DEF Ended
<1> QED BY <1>6, <1>7, <1>8, <1>9, <1>10, <1>11 DEF Fine, st2, l2

\* A transaction that scans and commits keeps the ledger, if what it wrote
\* before the scan did.
LEMMA WakeKeeps ==
    ASSUME TypeOK,
           NEW st \in [Runs -> RunState], NEW sp \in [Steps -> StepState],
           NEW l \in [Nodes -> Runs \cup {NoRun}], NEW a \in [Runs -> SUBSET Runs],
           NEW vd, Fine(st, vd, l, a, creating), WakeAndCommit(st, sp, l, a)
    PROVE  /\ Fine(state', vd, lease', ahead', creating)
           /\ \A r \in Runs : st[r] \in Ended => state'[r] = st[r]
<1>1. PICK P \in SUBSET Runs :
         /\ Promotes(P, st, l, a) /\ \A c \in creating : ~Waits(P, c)
         /\ Start(P, st, sp, l) /\ ahead' = a
  BY DEF WakeAndCommit
<1>2. creating \in SUBSET Runs
  BY DEF TypeOK
<1>3. Startable(P, st, l, creating)
  BY <1>1, <1>2, ScanStartable DEF Fine
<1>4. state' = Running(P, st) /\ lease' = Granted(P, l)
  BY <1>1 DEF Start
<1> QED BY <1>1, <1>2, <1>3, <1>4, StartKeeps

\* Ending a Run and deleting its leases keeps the ledger.
LEMMA EndKeeps ==
    ASSUME LedgerInv, NEW r \in Runs, NEW v \in Verdict, r \notin creating
    PROVE  Fine(EndRun(r, v), EndVerdict(r, v), Freed(lease, r), ahead, creating)
<1> DEFINE st == EndRun(r, v)
           vd == EndVerdict(r, v)
           l == Freed(lease, r)
<1>1. \A q \in Runs : q # r => st[q] = state[q] /\ vd[q] = verdict[q]
  BY DEF LedgerInv, TypeOK, EndRun, EndVerdict
<1>2. st[r] \in Ended
  BY DEF LedgerInv, TypeOK, EndRun, HasEnded, StateOf, Ended
<1>3. \A n \in Nodes : l[n] # r \/ r = NoRun
  BY Sentinels DEF Freed
<1>4. \A n \in Nodes : l[n] # NoRun => l[n] = lease[n] /\ l[n] \in Runs /\ l[n] # r
  BY Sentinels DEF Freed, LedgerInv, TypeOK
<1>5. \A q \in Runs : q # r => \A n \in Nodes : l[n] = q <=> lease[n] = q
  BY Sentinels DEF Freed
<1>6. \A n \in Nodes : lease[n] = NoRun => l[n] = NoRun
  BY DEF Freed
<1>7. Fine(state, verdict, lease, ahead, creating)
  BY LedgerIsFine
<1> HIDE DEF st, vd, l
<1>8. Whole(st, l)
  <2> SUFFICES ASSUME NEW q \in Runs, st[q] \in Active
               PROVE  {n \in Nodes : l[n] = q} = Grants[q]
    BY DEF Whole
  <2>1. q # r
    BY <1>2 DEF Active, Ended
  <2>2. {n \in Nodes : lease[n] = q} = Grants[q]
    BY <1>1, <1>7, <2>1 DEF Fine, Whole
  <2> QED BY <1>5, <2>1, <2>2
<1>9. Bare(st, vd, l)
  BY <1>1, <1>4, <1>7 DEF Bare, Fine
<1>10. Apart(st, l, creating)
  <2> SUFFICES ASSUME NEW c \in creating
               PROVE  st[c] = "ABSENT" /\ \A n \in Grants[c] : l[n] = NoRun
    BY <1>7 DEF Apart, Fine
  <2>1. c \in Runs /\ c # r
    BY DEF LedgerInv, TypeOK
  <2>2. state[c] = "ABSENT" /\ \A n \in Grants[c] : n \in Nodes /\ lease[n] = NoRun
    BY <1>7, <2>1, GrantsType DEF Apart, Fine
  <2> QED BY <1>1, <1>6, <2>1, <2>2
<1>11. Last(st, vd)
  BY <1>1, <1>2, <1>7 DEF Last, Fine
<1>12. Ordered(st, ahead)
  BY <1>1, <1>2, <1>7 DEF Ordered, Fine, Ended
<1> QED BY <1>8, <1>9, <1>10, <1>11, <1>12 DEF Fine, st, vd, l

\* What a step may never do to a Run that has ended.
Final == \A r \in Runs : HasEnded(r) => state'[r] = state[r] /\ verdict'[r] = verdict[r]

\* Ending a Run and committing with a scan, as settling and cancelling do.
LEMMA EndCommits ==
    ASSUME LedgerInv, NEW r \in Runs, NEW v \in Verdict, r \notin creating,
           NEW sp \in [Steps -> StepState],
           verdict' = EndVerdict(r, v),
           WakeAndCommit(EndRun(r, v), sp, Freed(lease, r), ahead)
    PROVE  Fine(state', verdict', lease', ahead', creating) /\ Final /\ state'[r] \in Ended
<1> DEFINE st == EndRun(r, v)
           l == Freed(lease, r)
<1>1. TypeOK /\ ahead \in [Runs -> SUBSET Runs]
  BY DEF LedgerInv, TypeOK
<1>2. Fine(st, verdict', l, ahead, creating)
  BY EndKeeps
<1>3. st \in [Runs -> RunState] /\ l \in [Nodes -> Runs \cup {NoRun}]
  BY <1>1, EndType
<1>4. \A q \in Runs : HasEnded(q) => st[q] = state[q] /\ verdict'[q] = verdict[q]
  BY <1>1 DEF EndRun, EndVerdict, HasEnded, TypeOK
<1>5. WakeAndCommit(st, sp, l, ahead)
  OBVIOUS
<1>7. st[r] \in Ended
  BY <1>1 DEF EndRun, HasEnded, StateOf, Ended, TypeOK
<1> HIDE DEF st, l
<1>6. /\ Fine(state', verdict', lease', ahead', creating)
      /\ \A q \in Runs : st[q] \in Ended => state'[q] = st[q]
  BY <1>1, <1>2, <1>3, <1>5, WakeKeeps
<1> QED BY <1>4, <1>6, <1>7 DEF Final, HasEnded

\* Putting a new Run at the end of the queue keeps the ledger.
LEMMA QueuedKeeps ==
    ASSUME TypeOK, Fine(state, verdict, lease, ahead, creating),
           NEW r \in Runs, state[r] = "ABSENT", r \notin creating, NEW st, NEW a,
           \A q \in Runs : q # r => st[q] = state[q] /\ a[q] = ahead[q],
           st[r] = "QUEUED", a[r] = {q \in Runs : state[q] = "QUEUED"}
    PROVE  Fine(st, verdict, lease, a, creating)
<1>0. lease \in [Nodes -> Runs \cup {NoRun}] /\ creating \in SUBSET Runs
  BY DEF TypeOK
<1>1. Whole(st, lease)
  BY DEF Fine, Whole, Active
<1>2. Bare(st, verdict, lease)
  BY <1>0 DEF Fine, Bare, Active
<1>3. Apart(st, lease, creating)
  BY <1>0 DEF Fine, Apart
<1>4. Last(st, verdict)
  BY DEF Fine, Last, Ended
<1>5. Ordered(st, a)
  BY DEF Fine, Ordered
<1> QED BY <1>1, <1>2, <1>3, <1>4, <1>5 DEF Fine

\* Every step keeps the ledger and leaves ended Runs alone.
LEMMA LedgerStep ==
    ASSUME LedgerInv, Known, [Next]_vars
    PROVE  Fine(state', verdict', lease', ahead', creating') /\ Final
<1> DEFINE Goal == Fine(state', verdict', lease', ahead', creating') /\ Final
<1>a. TypeOK /\ Fine(state, verdict, lease, ahead, creating)
  BY LedgerIsFine
<1>b. /\ state \in [Runs -> RunState] /\ step \in [Steps -> StepState]
      /\ lease \in [Nodes -> Runs \cup {NoRun}] /\ ahead \in [Runs -> SUBSET Runs]
      /\ creating \in SUBSET Runs /\ verdict \in [Runs -> Verdict \cup {"none"}]
  BY <1>a DEF TypeOK
<1>1. ASSUME NEW r \in Runs, CreateBegin(r) PROVE Goal
  <2>1. /\ state[r] = "ABSENT" /\ \A n \in Grants[r] : lease[n] = NoRun
        /\ \A c \in creating : Grants[c] \cap Grants[r] = {}
        /\ creating' = creating \cup {r}
        /\ UNCHANGED <<state, verdict, lease, ahead>>
    BY <1>1 DEF CreateBegin
  <2>2. Apart(state, lease, creating \cup {r})
    BY <1>a, <2>1 DEF Fine, Apart
  <2> QED BY <1>a, <2>1, <2>2 DEF Fine, Final
<1>2. ASSUME NEW r \in Runs, CreateCommit(r) PROVE Goal
  <2> DEFINE cr == creating \ {r}
  <2>1. /\ r \in creating /\ creating' = cr /\ verdict' = verdict /\ ahead' = ahead
        /\ state' = Running({r}, state) /\ lease' = Granted({r}, lease)
    BY <1>2 DEF CreateCommit, Start
  <2>2. Fine(state, verdict, lease, ahead, cr)
    BY <1>a DEF Fine, Apart
  <2>3. Startable({r}, state, lease, cr)
    BY <1>a, <2>1 DEF Fine, Apart, Startable
  <2>4. cr \in SUBSET Runs /\ {r} \in SUBSET Runs
    BY <1>b
  <2> HIDE DEF cr
  <2>5. /\ Fine(Running({r}, state), verdict, Granted({r}, lease), ahead, cr)
        /\ \A q \in Runs : state[q] \in Ended => Running({r}, state)[q] = state[q]
    BY <1>b, <2>2, <2>3, <2>4, StartKeeps
  <2> QED BY <2>1, <2>5 DEF Final, HasEnded
<1>3. ASSUME NEW r \in Runs, CreateRollback(r) PROVE Goal
  <2>1. creating' = creating \ {r} /\ UNCHANGED <<state, verdict, lease, ahead>>
    BY <1>3 DEF CreateRollback
  <2>2. Apart(state, lease, creating \ {r})
    BY <1>a DEF Fine, Apart
  <2> QED BY <1>a, <2>1, <2>2 DEF Fine, Final
<1>4. ASSUME NEW r \in Runs, Enqueue(r) PROVE Goal
  <2> DEFINE st == [state EXCEPT ![r] = "QUEUED"]
             a == [ahead EXCEPT ![r] = {q \in Runs : state[q] = "QUEUED"}]
  <2>1. /\ state[r] = "ABSENT" /\ r \notin creating /\ verdict' = verdict
        /\ creating' = creating /\ WakeAndCommit(st, step, lease, a)
    BY <1>4 DEF Enqueue
  <2>2. st \in [Runs -> RunState] /\ a \in [Runs -> SUBSET Runs]
    BY <1>b DEF RunState
  <2>3. \A q \in Runs : q # r => st[q] = state[q] /\ a[q] = ahead[q]
    BY <1>b
  <2>4. st[r] = "QUEUED" /\ a[r] = {q \in Runs : state[q] = "QUEUED"}
    BY <1>b
  <2> HIDE DEF st, a
  <2>5. Fine(st, verdict, lease, a, creating)
    BY <1>a, <1>b, <2>1, <2>3, <2>4, QueuedKeeps
  <2>6. /\ Fine(state', verdict, lease', ahead', creating)
        /\ \A q \in Runs : st[q] \in Ended => state'[q] = st[q]
    BY <1>a, <1>b, <2>1, <2>2, <2>5, WakeKeeps
  <2> QED BY <2>1, <2>3, <2>6 DEF Final, HasEnded, Ended
<1>5. ASSUME NEW r \in Runs, Reject(r) PROVE Goal
  <2>1. /\ state[r] = "ABSENT" /\ r \notin creating /\ state' = [state EXCEPT ![r] = "FAILED"]
        /\ UNCHANGED <<verdict, lease, ahead, creating>>
    BY <1>5 DEF Reject
  <2>2. state'[r] = "FAILED" /\ \A q \in Runs : q # r => state'[q] = state[q]
    BY <1>b, <2>1
  <2>3. Whole(state', lease)
    BY <1>a, <2>2 DEF Fine, Whole, Active
  <2>4. Bare(state', verdict, lease)
    BY <1>a, <1>b, <2>1, <2>2 DEF Fine, Bare, Active
  <2>5. Apart(state', lease, creating)
    BY <1>a, <1>b, <2>1, <2>2 DEF Fine, Apart
  <2>6. Last(state', verdict) /\ Ordered(state', ahead)
    BY <1>a, <2>1, <2>2 DEF Fine, Last, Ordered, Ended
  <2> QED BY <2>1, <2>2, <2>3, <2>4, <2>5, <2>6 DEF Fine, Final, HasEnded, Ended
<1>6. ASSUME UNCHANGED <<state, verdict, lease, ahead, creating>> PROVE Goal
  BY <1>a, <1>6 DEF Final
<1>7. ASSUME NEW w \in Workers, SettleVerify(w) PROVE Goal
  <2>1. state' = Verifying(proc[w].run) /\ UNCHANGED <<verdict, lease, ahead, creating>>
    BY <1>7 DEF SettleVerify
  <2>2. \A q \in Runs : state'[q] = state[q] \/ (state[q] = "RUNNING" /\ state'[q] = "VERIFYING")
    BY <1>b, <2>1 DEF Verifying
  <2>3. Whole(state', lease) /\ Last(state', verdict) /\ Ordered(state', ahead)
    BY <1>a, <2>2 DEF Fine, Whole, Last, Ordered, Active, Ended
  <2>4. Bare(state', verdict, lease) /\ Apart(state', lease, creating)
    BY <1>a, <1>b, <2>2 DEF Fine, Bare, Apart, Active
  <2> QED BY <2>1, <2>2, <2>3, <2>4 DEF Fine, Final, HasEnded, Ended
<1>8. ASSUME NEW w \in Workers, SettleEnd(w) PROVE Goal
  <2>1. proc[w].run \in Runs /\ proc[w].verdict \in Verdict
    BY <1>a, <1>8, EndProcType DEF SettleEnd
  <2>2. proc[w].run \notin creating
    BY <1>8, <1>a DEF SettleEnd, Known, Idle, Fine, Apart
  <2> QED BY <1>8, <1>b, <2>1, <2>2, EndCommits DEF SettleEnd
<1>9. ASSUME NEW w \in Workers, CancelEnd(w) PROVE Goal
  <2>1. proc[w].run \in Runs /\ proc[w].verdict \in Verdict
    BY <1>a, <1>9, EndProcType DEF CancelEnd
  <2>2. proc[w].run \notin creating
    BY <1>9, <1>a DEF CancelEnd, Known, Idle, Fine, Apart
  <2>3. Closed(proc[w].run) \in [Steps -> StepState]
    BY <1>b DEF Closed, StepState, Terminal
  <2> QED BY <1>9, <2>1, <2>2, <2>3, EndCommits DEF CancelEnd
<1>10. ASSUME ReapFail PROVE Goal
  <2>1. /\ state' = [r \in Runs |-> IF Expired(r) THEN "FAILED" ELSE state[r]]
        /\ UNCHANGED <<verdict, lease, ahead, creating>>
    BY <1>10 DEF ReapFail
  <2>2. \A r \in Runs : ~Expired(r) => state'[r] = state[r]
    BY <2>1
  <2>3. \A r \in Runs : Expired(r) =>
           state'[r] = "FAILED" /\ state[r] \notin Ended /\ verdict[r] = "none" /\ r \notin creating
    <3> SUFFICES ASSUME NEW r \in Runs, Expired(r)
                 PROVE  /\ state'[r] = "FAILED" /\ state[r] \notin Ended
                        /\ verdict[r] = "none" /\ r \notin creating
      OBVIOUS
    <3>1. PICK n \in Nodes : lease[n] = r
      BY <1>a DEF Expired, TypeOK
    <3>2. r \notin creating
      BY <1>a, <3>1, Sentinels DEF Fine, Bare, Apart, Active
    <3> QED BY <1>a, <2>1, <3>2 DEF Expired, Fine, Last
  <2>4. Whole(state', lease) /\ Last(state', verdict) /\ Ordered(state', ahead)
    BY <1>a, <2>2, <2>3 DEF Fine, Whole, Last, Ordered, Active, Ended
  <2>5. Bare(state', verdict, lease) /\ Apart(state', lease, creating)
    BY <1>a, <1>b, <2>2, <2>3 DEF Fine, Bare, Apart
  <2> QED BY <2>1, <2>2, <2>3, <2>4, <2>5 DEF Fine, Final, HasEnded
<1>11. ASSUME ReapFree PROVE Goal
  <2>1. /\ lease' = [n \in Nodes |-> IF n \in ToFree THEN NoRun ELSE lease[n]]
        /\ UNCHANGED <<state, verdict, ahead, creating>>
    BY <1>11 DEF ReapFree
  <2>2. \A n \in Nodes : lease'[n] = lease[n] \/ (lease'[n] = NoRun /\ state[lease[n]] \in Ended)
    BY <2>1 DEF ToFree, HasEnded
  <2>3. Whole(state, lease')
    <3> SUFFICES ASSUME NEW r \in Runs, state[r] \in Active
                 PROVE  {n \in Nodes : lease'[n] = r} = Grants[r]
      BY DEF Whole
    <3>1. {n \in Nodes : lease[n] = r} = Grants[r] /\ state[r] \notin Ended /\ r # NoRun
      BY <1>a, Sentinels DEF Fine, Whole, Active, Ended
    <3> QED BY <2>2, <3>1
  <2>4. Bare(state, verdict, lease') /\ Apart(state, lease', creating)
    <3>1. \A c \in creating : Grants[c] \subseteq Nodes
      BY <1>b, GrantsType
    <3> QED BY <1>a, <2>2, <3>1 DEF Fine, Bare, Apart
  <2> QED BY <1>a, <2>1, <2>3, <2>4 DEF Fine, Final
<1>12. ASSUME ReapWake PROVE Goal
  <2>1. WakeAndCommit(state, step, lease, ahead) /\ verdict' = verdict /\ creating' = creating
    BY <1>12 DEF ReapWake
  <2> QED BY <1>a, <1>b, <2>1, WakeKeeps DEF Final, HasEnded
<1>13. ASSUME Restart PROVE Goal
  BY <1>13, <1>a DEF Restart, Fine, Apart, Final
<1> HIDE DEF Goal
<1>14. ASSUME NEW w \in Workers, Proceed(w) PROVE Goal
  BY <1>14, <1>6, <1>7, <1>8, <1>9 DEF Proceed, SettleRead, SettleCount, Seal, tables
<1>15. ASSUME Pass PROVE Goal
  BY <1>15, <1>6, <1>10, <1>11, <1>12 DEF Pass, ReapAsks, ReapSettle, ReapSteps, ReapSnap, ReapSeal, tables
<1>16. ASSUME Request PROVE Goal
  BY <1>16, <1>6 DEF Request, Report, Answer, NodeRestarted, CancelRead, tables
<1>17. ASSUME Submit \/ Create PROVE Goal
  BY <1>17, <1>1, <1>2, <1>3, <1>4, <1>5 DEF Submit, Create
<1>18. ASSUME NEW h \in Handlers, Drop(h) PROVE Goal
  BY <1>18, <1>6 DEF Drop, tables
<1>19. ASSUME NEW s \in Steps, Claim(s) PROVE Goal
  BY <1>19, <1>6 DEF Claim
<1>20. ASSUME NEW n \in Nodes, Heartbeat(n) \/ LeaseExpires(n) PROVE Goal
  BY <1>20, <1>6 DEF Heartbeat, LeaseExpires
<1>21. ASSUME UNCHANGED vars PROVE Goal
  BY <1>21, <1>6 DEF vars, tables
<1>22. Goal
  BY <1>13, <1>14, <1>15, <1>16, <1>17, <1>18, <1>19, <1>20, <1>21 DEF Next
<1> QED BY <1>22 DEF Goal

-----------------------------------------------------------------------------
(* What requests, reaper and steps know.                                    *)

\* A scan takes no Run out of the table, and only writes steps of Runs that
\* it starts.
LEMMA WakeStays ==
    ASSUME NEW st \in [Runs -> RunState], NEW sp \in [Steps -> StepState], NEW l, NEW a,
           WakeAndCommit(st, sp, l, a)
    PROVE  /\ \A r \in Runs : st[r] # "ABSENT" => state'[r] # "ABSENT"
           /\ \A s \in Steps : step'[s] = sp[s] \/ state'[RunOf[s]] # "ABSENT"
<1>1. PICK P \in SUBSET Runs : Start(P, st, sp, l)
  BY DEF WakeAndCommit
<1> QED BY <1>1, StepsType DEF Start, Running, Fresh

LEMMA RaiseAsksKeepsNone ==
    ASSUME NEW r, NEW sp \in [Steps -> StepState]
    PROVE  \A s \in Steps : RaiseAsks(r, sp)[s] # "NONE" => sp[s] # "NONE"
BY DEF RaiseAsks

LEMMA KnownStep ==
    ASSUME TypeOK, Known, [Next]_vars
    PROVE  Known'
<1> DEFINE Stay == \A r \in Runs : state[r] # "ABSENT" => state'[r] # "ABSENT"
           StepsKnown == \A s \in Steps : step'[s] # "NONE" => state'[RunOf[s]] # "ABSENT"
<1>a. /\ state \in [Runs -> RunState] /\ step \in [Steps -> StepState]
      /\ proc \in [Workers -> Proc] /\ reap \in Reap
      /\ RunOf \in [Steps -> Runs]
  BY StepsType DEF TypeOK
<1>b. \A w \in Workers : proc[w] # Idle => proc[w].run \in Runs /\ state[proc[w].run] # "ABSENT"
  BY <1>a DEF Known, Proc
<1>c. \A s \in Steps : step[s] # "NONE" => state[RunOf[s]] # "ABSENT"
  BY DEF Known
<1>d. ASSUME Stay, StepsKnown,
             proc' = proc \/ \A w \in Workers : proc'[w] \in {Idle, proc[w]},
             reap'.pc # "settle" \/ reap' = reap
      PROVE  Known'
  <2>1. \A w \in Workers : proc'[w] # Idle => state'[proc'[w].run] # "ABSENT"
    BY <1>b, <1>d
  <2>2. reap'.pc = "settle" => \A r \in reap'.todo : state'[r] # "ABSENT"
    BY <1>a, <1>d DEF Known, Reap
  <2> QED BY <1>d, <2>1, <2>2 DEF Known
<1>e. ASSUME Stay, StepsKnown, reap' = reap, NEW w \in Workers,
             \A x \in Workers : x # w => proc'[x] = proc[x],
             proc'[w] = Idle \/ (proc'[w].run \in Runs /\ state'[proc'[w].run] # "ABSENT")
      PROVE  Known'
  <2>1. \A x \in Workers : proc'[x] # Idle => state'[proc'[x].run] # "ABSENT"
    BY <1>b, <1>e
  <2>2. reap'.pc = "settle" => \A r \in reap'.todo : state'[r] # "ABSENT"
    BY <1>a, <1>e DEF Known, Reap
  <2> QED BY <1>e, <2>1, <2>2 DEF Known
<1>1. ASSUME NEW r \in Runs, CreateBegin(r) PROVE Known'
  BY <1>1, <1>c, <1>d DEF CreateBegin
<1>2. ASSUME NEW r \in Runs, CreateCommit(r) PROVE Known'
  <2>1. Stay /\ StepsKnown
    BY <1>2, <1>a, <1>c DEF CreateCommit, Start, Running, Fresh
  <2>2. \A w \in Workers : proc'[w] \in {Idle, proc[w]}
    BY <1>2 DEF CreateCommit
  <2>3. reap'.pc # "settle" \/ reap' = reap
    <3>1. reap' \in {reap, Rested, AfterWake(reap)}
      BY <1>2 DEF CreateCommit
    <3>2. Rested.pc # "settle" /\ AfterWake(reap).pc # "settle"
      BY <1>a DEF Rested, AfterWake, Reap
    <3> QED BY <3>1, <3>2
  <2> QED BY <1>d, <2>1, <2>2, <2>3
<1>3. ASSUME NEW r \in Runs, CreateRollback(r) PROVE Known'
  BY <1>3, <1>c, <1>d DEF CreateRollback
<1>4. ASSUME NEW r \in Runs, Enqueue(r) PROVE Known'
  <2> DEFINE st == [state EXCEPT ![r] = "QUEUED"]
             a == [ahead EXCEPT ![r] = {q \in Runs : state[q] = "QUEUED"}]
  <2>1. WakeAndCommit(st, step, lease, a) /\ proc' = proc /\ reap' = reap
    BY <1>4 DEF Enqueue
  <2>2. st \in [Runs -> RunState] /\ \A q \in Runs : state[q] # "ABSENT" => st[q] # "ABSENT"
    BY <1>a DEF RunState
  <2> HIDE DEF st, a
  <2>3. Stay /\ StepsKnown
    BY <1>a, <1>c, <2>1, <2>2, WakeStays
  <2> QED BY <1>d, <2>1, <2>3
<1>5. ASSUME NEW r \in Runs, Reject(r) PROVE Known'
  <2>1. Stay /\ StepsKnown
    BY <1>5, <1>a, <1>c DEF Reject
  <2> QED BY <1>5, <1>d, <2>1 DEF Reject
<1>6. ASSUME NEW s \in Steps, Claim(s) PROVE Known'
  <2>1. Stay /\ StepsKnown
    BY <1>6, <1>a, <1>c DEF Claim
  <2> QED BY <1>6, <1>d, <2>1 DEF Claim
<1>7. ASSUME NEW h \in Handlers, NEW s \in Steps, NEW ok \in BOOLEAN, Report(h, s, ok)
      PROVE  Known'
  <2>1. state[RunOf[s]] # "ABSENT" /\ h \in Workers /\ state' = state /\ reap' = reap
        /\ proc' = [proc EXCEPT ![h] = Settling(RunOf[s])] /\ step[s] = "CLAIMED"
    BY <1>7, <1>c DEF Report, Workers
  <2>2. /\ [step EXCEPT ![s] = "DONE"] \in [Steps -> StepState]
        /\ \A x \in Steps : [step EXCEPT ![s] = "DONE"][x] # "NONE" => step[x] # "NONE"
        /\ \A x \in Steps : [step EXCEPT ![s] = "FAILED"][x] # "NONE" => step[x] # "NONE"
    BY <1>a, <2>1 DEF StepState, Terminal
  <2>3. \A x \in Steps : step'[x] # "NONE" => step[x] # "NONE"
    BY <1>7, <2>2, RaiseAsksKeepsNone DEF Report
  <2>4. proc'[h].run = RunOf[s] /\ \A x \in Workers : x # h => proc'[x] = proc[x]
    BY <1>a, <2>1 DEF Settling
  <2> QED BY <1>a, <1>c, <1>e, <2>1, <2>3, <2>4
<1>8. ASSUME NEW h \in Handlers, NEW s \in Steps, Answer(h, s) PROVE Known'
  <2>1. state[RunOf[s]] # "ABSENT" /\ h \in Workers /\ state' = state /\ reap' = reap
        /\ proc' = [proc EXCEPT ![h] = Settling(RunOf[s])] /\ step[s] = "ASKED"
    BY <1>8, <1>c DEF Answer, Workers
  <2>2. /\ [step EXCEPT ![s] = "DONE"] \in [Steps -> StepState]
        /\ \A x \in Steps : [step EXCEPT ![s] = "DONE"][x] # "NONE" => step[x] # "NONE"
    BY <1>a, <2>1 DEF StepState, Terminal
  <2>3. \A x \in Steps : step'[x] # "NONE" => step[x] # "NONE"
    BY <1>8, <2>2, RaiseAsksKeepsNone DEF Answer
  <2>4. proc'[h].run = RunOf[s] /\ \A x \in Workers : x # h => proc'[x] = proc[x]
    BY <1>a, <2>1 DEF Settling
  <2> QED BY <1>a, <1>c, <1>e, <2>1, <2>3, <2>4
<1>9. ASSUME NEW h \in Handlers, NEW n \in Nodes, NodeRestarted(h, n) PROVE Known'
  <2>1. PICK s \in Steps : /\ step[s] = "CLAIMED" /\ state[RunOf[s]] = "RUNNING"
                           /\ proc' = [proc EXCEPT ![h] = Settling(RunOf[s])]
    BY <1>9 DEF NodeRestarted
  <2>2. h \in Workers /\ state' = state /\ reap' = reap
    BY <1>9 DEF NodeRestarted, Workers
  <2>3. \A x \in Steps : step'[x] # "NONE" => step[x] # "NONE"
    BY <1>9 DEF NodeRestarted
  <2>4. proc'[h].run = RunOf[s] /\ \A x \in Workers : x # h => proc'[x] = proc[x]
    BY <1>a, <2>1, <2>2 DEF Settling
  <2> QED BY <1>a, <1>c, <1>e, <2>1, <2>2, <2>3, <2>4
<1>10. ASSUME NEW n \in Nodes, Heartbeat(n) \/ LeaseExpires(n) PROVE Known'
  BY <1>10, <1>c, <1>d DEF Heartbeat, LeaseExpires
<1>11. ASSUME NEW w \in Workers, SettleRead(w) \/ SettleCount(w) PROVE Known'
  <2>1. state' = state /\ step' = step /\ reap' = reap /\ proc[w].pc \in {"read", "count"}
    BY <1>11 DEF SettleRead, SettleCount, tables
  <2>2. proc[w] # Idle
    BY <2>1 DEF Idle
  <2>3. \A x \in Workers : x # w => proc'[x] = proc[x]
    BY <1>11, <1>a DEF SettleRead, SettleCount
  <2>4. proc'[w] = Idle \/ proc'[w].run = proc[w].run
    <3>1. proc[w] \in [pc : {"read", "count", "verify"}, run : Runs, verdict : {"none"}]
      BY <1>a, <2>1 DEF Proc, Idle
    <3>2. CASE SettleRead(w)
      BY <3>1, <3>2, <1>a DEF SettleRead
    <3>3. CASE SettleCount(w)
      BY <3>1, <3>3, <1>a DEF SettleCount
    <3> QED BY <1>11, <3>2, <3>3
  <2> QED BY <1>b, <1>c, <1>e, <2>1, <2>2, <2>3, <2>4
<1>12. ASSUME NEW w \in Workers, SettleVerify(w) PROVE Known'
  <2>1. state' = Verifying(proc[w].run) /\ step' = step /\ reap' = reap /\ proc[w].pc = "verify"
    BY <1>12 DEF SettleVerify
  <2>2. Stay /\ StepsKnown
    BY <1>a, <1>c, <2>1 DEF Verifying
  <2>3. \A x \in Workers : x # w => proc'[x] = proc[x]
    BY <1>12, <1>a DEF SettleVerify
  <2>4. proc'[w].run = proc[w].run /\ proc[w] # Idle
    BY <1>12, <1>a, <2>1 DEF SettleVerify, Proc, Idle
  <2> QED BY <1>b, <1>e, <2>1, <2>2, <2>3, <2>4
<1>13. ASSUME NEW w \in Workers, SettleEnd(w) \/ CancelEnd(w) PROVE Known'
  <2>1. PICK sp : /\ sp \in [Steps -> StepState]
                  /\ \A s \in Steps : sp[s] # "NONE" => step[s] # "NONE"
                  /\ WakeAndCommit(EndRun(proc[w].run, proc[w].verdict), sp,
                                   Freed(lease, proc[w].run), ahead)
    <3>1. /\ Closed(proc[w].run) \in [Steps -> StepState]
          /\ \A s \in Steps : Closed(proc[w].run)[s] # "NONE" => step[s] # "NONE"
      BY <1>a DEF Closed, StepState, Terminal, Open
    <3> QED BY <1>13, <1>a, <3>1 DEF SettleEnd, CancelEnd
  <2>2. proc' = [proc EXCEPT ![w].pc = "seal"] /\ reap' = reap /\ proc[w].pc \in {"end", "cancel"}
    BY <1>13 DEF SettleEnd, CancelEnd
  <2>3. /\ EndRun(proc[w].run, proc[w].verdict) \in [Runs -> RunState]
        /\ \A r \in Runs : state[r] # "ABSENT" =>
              EndRun(proc[w].run, proc[w].verdict)[r] # "ABSENT"
    BY <1>a DEF EndRun, StateOf, RunState, Ended
  <2>4. Stay /\ StepsKnown
    BY <1>a, <1>c, <2>1, <2>3, WakeStays
  <2>5. /\ \A x \in Workers : x # w => proc'[x] = proc[x]
        /\ proc'[w].run = proc[w].run /\ proc[w] # Idle
    BY <1>a, <2>2 DEF Proc, Idle
  <2> QED BY <1>b, <1>e, <2>2, <2>4, <2>5
<1>14. ASSUME NEW h \in Handlers, NEW r \in Runs, CancelRead(h, r) PROVE Known'
  <2>1. /\ state[r] # "ABSENT" /\ h \in Workers /\ state' = state /\ step' = step /\ reap' = reap
        /\ proc' = [proc EXCEPT ![h] = [pc |-> "cancel", run |-> r, verdict |-> "cancelled"]]
    BY <1>14 DEF CancelRead, Workers, tables, Active
  <2>2. proc'[h].run = r /\ \A x \in Workers : x # h => proc'[x] = proc[x]
    BY <1>a, <2>1
  <2> QED BY <1>c, <1>e, <2>1, <2>2
<1>15. ASSUME NEW w \in Workers, Seal(w) PROVE Known'
  BY <1>15, <1>a, <1>c, <1>d DEF Seal, tables
<1>16. ASSUME ReapAsks PROVE Known'
  <2>1. PICK due \in SUBSET {s \in Timed : step[s] = "ASKED" /\ state[RunOf[s]] = "RUNNING"} :
           /\ step' = [s \in Steps |-> IF s \in due THEN "FAILED" ELSE step[s]]
           /\ reap' = [reap EXCEPT !.pc = "settle", !.todo = Whose(due)]
    BY <1>16 DEF ReapAsks
  <2>2. \A r \in Whose(due) : state[r] # "ABSENT"
    BY <2>1 DEF Whose
  <2>3. reap'.todo = Whose(due)
    BY <1>a, <2>1 DEF Reap
  <2>4. state' = state /\ proc' = proc /\ StepsKnown
    BY <1>16, <1>c, <2>1 DEF ReapAsks
  <2> QED BY <2>2, <2>3, <2>4 DEF Known
<1>17. ASSUME ReapSettle PROVE Known'
  <2>1. state' = state /\ step' = step /\ reap.pc = "settle"
    BY <1>17 DEF ReapSettle, tables
  <2>2. CASE reap' = [reap EXCEPT !.pc = "fail"] /\ proc' = proc
    BY <1>a, <1>c, <1>d, <2>1, <2>2 DEF Reap
  <2>3. ASSUME NEW r \in reap.todo, reap' = [reap EXCEPT !.todo = @ \ {r}],
               proc' = [proc EXCEPT ![Reaper] = Settling(r)]
        PROVE  Known'
    <3>1. state[r] # "ABSENT" /\ \A q \in reap'.todo : state[q] # "ABSENT"
      BY <1>a, <2>1, <2>3 DEF Known, Reap
    <3>2. \A w \in Workers : proc'[w] # Idle => state[proc'[w].run] # "ABSENT"
      BY <1>a, <1>b, <2>3, <3>1 DEF Settling, Workers
    <3> QED BY <1>c, <2>1, <3>1, <3>2 DEF Known
  <2> QED BY <1>17, <2>2, <2>3 DEF ReapSettle
<1>18. ASSUME ReapFail \/ ReapSteps \/ ReapFree \/ ReapSnap \/ ReapSeal PROVE Known'
  <2>1. Stay /\ StepsKnown /\ proc' = proc
    BY <1>18, <1>a, <1>c
       DEF ReapFail, ReapSteps, ReapFree, ReapSnap, ReapSeal, LeftOpen, Open, tables
  <2>2. reap'.pc # "settle" \/ reap' = reap
    <3>1. CASE ReapFail \/ ReapSteps \/ ReapSnap
      BY <3>1, <1>a DEF ReapFail, ReapSteps, ReapSnap, Reap
    <3>2. CASE ReapFree
      BY <3>2, <1>a DEF ReapFree, AfterFree, AfterWake, Rested, Reap
    <3>3. CASE ReapSeal
      BY <3>3, <1>a DEF ReapSeal, Rested, Reap
    <3> QED BY <1>18, <3>1, <3>2, <3>3
  <2> QED BY <1>d, <2>1, <2>2
<1>19. ASSUME ReapWake PROVE Known'
  <2>1. WakeAndCommit(state, step, lease, ahead) /\ proc' = proc
    BY <1>19 DEF ReapWake
  <2>2. Stay /\ StepsKnown
    BY <1>a, <1>c, <2>1, WakeStays
  <2>3. reap'.pc # "settle"
    BY <1>19, <1>a DEF ReapWake, AfterWake, Rested, Reap
  <2> QED BY <1>d, <2>1, <2>2, <2>3
<1>20. ASSUME NEW h \in Handlers, Drop(h) PROVE Known'
  BY <1>20, <1>a, <1>c, <1>d DEF Drop, tables, Workers
<1>21. ASSUME Restart PROVE Known'
  BY <1>21, <1>a, <1>c, <1>d DEF Restart, Rested
<1>22. ASSUME UNCHANGED vars PROVE Known'
  BY <1>22, <1>c, <1>d DEF vars, tables
<1> QED
  <2>1. \A h \in Handlers : h \in Workers
    BY DEF Workers
  <2> QED
    BY <1>1, <1>2, <1>3, <1>4, <1>5, <1>6, <1>7, <1>8, <1>9, <1>10, <1>11, <1>12, <1>13, <1>14,
       <1>15, <1>16, <1>17, <1>18, <1>19, <1>20, <1>21, <1>22, <2>1
       DEF Next, Submit, Create, Request, Proceed, Pass

-----------------------------------------------------------------------------
(* Sealing.                                                                 *)

\* Whoever seals, and whatever is sealed, belongs to a Run that has ended.
LEMMA SealStep ==
    ASSUME IInv, [Next]_vars
    PROVE  SealFollowsEnd' /\ SealedIsEnded'
<1>a. /\ TypeOK /\ LedgerInv /\ Known /\ SealFollowsEnd /\ SealedIsEnded
  BY DEF IInv, LedgerInv
<1>b. /\ proc \in [Workers -> Proc] /\ reap \in Reap
      /\ record \in [Runs -> {"absent", "open"} \cup Verdict]
  BY <1>a DEF TypeOK
<1>c. \A r \in Runs : HasEnded(r) => state'[r] \in Ended
  BY <1>a, LedgerStep DEF Final, HasEnded
<1>d. \A w \in Workers : proc[w].pc = "seal" => proc[w].run \in Runs /\ HasEnded(proc[w].run)
  BY <1>a, <1>b DEF SealFollowsEnd, Proc, Idle
<1>e. reap.pc = "seal" => \A r \in reap.todo : r \in Runs /\ HasEnded(r)
  BY <1>a, <1>b DEF SealFollowsEnd, Reap
<1>f. \A P \in SUBSET Runs, r \in Runs : Opened(P)[r] \in Verdict => Sealed(r)
  BY DEF Opened, Sealed, Verdict
<1> DEFINE Requests == \A w \in Workers : proc'[w].pc = "seal" =>
                          (proc'[w].run \in Runs /\ state'[proc'[w].run] \in Ended)
           Passes == reap'.pc = "seal" => \A r \in reap'.todo : r \in Runs /\ state'[r] \in Ended
           Records == \A r \in Runs : record'[r] \in Verdict => Sealed(r) \/ HasEnded(r)
<1>1. ASSUME Requests, Passes, Records PROVE SealFollowsEnd' /\ SealedIsEnded'
  <2>1. SealFollowsEnd'
    BY <1>1 DEF SealFollowsEnd, HasEnded
  <2>2. SealedIsEnded'
    BY <1>1, <1>a, <1>c DEF SealedIsEnded, Sealed, HasEnded
  <2> QED BY <2>1, <2>2
<1>2. ASSUME proc' = proc \/ \A w \in Workers : proc'[w] \in {Idle, proc[w]} PROVE Requests
  BY <1>2, <1>c, <1>d DEF Idle
<1>3. ASSUME reap' = reap \/ reap'.pc # "seal" PROVE Passes
  BY <1>3, <1>c, <1>e
<1>4. ASSUME record' = record \/ \E P \in SUBSET Runs : record' = Opened(P) PROVE Records
  BY <1>4, <1>f DEF Sealed
<1>5. ASSUME NEW w \in Workers, proc'[w].pc # "seal",
             \A x \in Workers : x # w => proc'[x] = proc[x]
      PROVE  Requests
  BY <1>5, <1>c, <1>d
<1> HIDE DEF Requests, Passes, Records
<1> DEFINE Goal == Requests /\ Passes /\ Records
<1>6. ASSUME Submit PROVE Goal
  <2>1. proc' = proc /\ reap' = reap
    BY <1>6 DEF Submit, CreateBegin, Enqueue, Reject
  <2>2. record' = record \/ \E P \in SUBSET Runs : record' = Opened(P)
    BY <1>6 DEF Submit, CreateBegin, Enqueue, Reject, WakeAndCommit
  <2> QED BY <1>2, <1>3, <1>4, <2>1, <2>2
<1>7. ASSUME NEW r \in Runs, CreateCommit(r) PROVE Goal
  <2>1. \A w \in Workers : proc'[w] \in {Idle, proc[w]}
    BY <1>7 DEF CreateCommit
  <2>2. record' = Opened({r}) /\ {r} \in SUBSET Runs
    BY <1>7 DEF CreateCommit
  <2>3. reap' = reap \/ reap'.pc # "seal"
    <3>1. reap' \in {reap, Rested, AfterWake(reap)}
      BY <1>7 DEF CreateCommit
    <3>2. Rested.pc # "seal" /\ AfterWake(reap).pc # "seal"
      BY <1>b DEF Rested, AfterWake, Reap
    <3> QED BY <3>1, <3>2
  <2> QED BY <1>2, <1>3, <1>4, <2>1, <2>2, <2>3
<1>8. ASSUME NEW r \in Runs, CreateRollback(r) PROVE Goal
  <2>1. proc' = proc /\ reap' = reap /\ record' \in {record, Opened({r})} /\ {r} \in SUBSET Runs
    BY <1>8 DEF CreateRollback
  <2> QED BY <1>2, <1>3, <1>4, <2>1
<1>9. ASSUME Request PROVE Goal
  <2>1. reap' = reap /\ record' = record
    BY <1>9 DEF Request, Report, Answer, NodeRestarted, CancelRead, tables
  <2>2a. PICK h \in Handlers : \E q : q.pc # "seal" /\ proc' = [proc EXCEPT ![h] = q]
    BY <1>9 DEF Request, Report, Answer, NodeRestarted, CancelRead, Settling
  <2>2. PICK q : q.pc # "seal" /\ proc' = [proc EXCEPT ![h] = q]
    BY <2>2a
  <2>3. h \in Workers
    BY DEF Workers
  <2>4. proc'[h].pc # "seal" /\ \A x \in Workers : x # h => proc'[x] = proc[x]
    BY <1>b, <2>2, <2>3
  <2>5. Requests
    BY <1>5, <2>3, <2>4
  <2> QED BY <1>3, <1>4, <2>1, <2>5
<1>10. ASSUME NEW s \in Steps, Claim(s) PROVE Goal
  BY <1>10, <1>2, <1>3, <1>4 DEF Claim
<1>11. ASSUME NEW n \in Nodes, Heartbeat(n) \/ LeaseExpires(n) PROVE Goal
  BY <1>11, <1>2, <1>3, <1>4 DEF Heartbeat, LeaseExpires
<1>12. ASSUME NEW w \in Workers, SettleRead(w) \/ SettleCount(w) \/ SettleVerify(w) PROVE Goal
  <2>1. reap' = reap /\ record' = record /\ proc[w].pc \in {"read", "count", "verify"}
    BY <1>12 DEF SettleRead, SettleCount, SettleVerify, tables
  <2>2. proc[w] \in [pc : {"read", "count", "verify"}, run : Runs, verdict : {"none"}]
    BY <1>b, <2>1 DEF Proc, Idle
  <2>3. \A x \in Workers : x # w => proc'[x] = proc[x]
    BY <1>12, <1>b DEF SettleRead, SettleCount, SettleVerify
  <2>4. proc'[w].pc # "seal"
    <3>1. CASE SettleRead(w)
      BY <3>1, <1>b, <2>2 DEF SettleRead, Idle
    <3>2. CASE SettleCount(w)
      BY <3>2, <1>b, <2>2 DEF SettleCount, Idle
    <3>3. CASE SettleVerify(w)
      BY <3>3, <1>b, <2>2 DEF SettleVerify
    <3> QED BY <1>12, <3>1, <3>2, <3>3
  <2> QED BY <1>3, <1>4, <1>5, <2>1, <2>3, <2>4
<1>13. ASSUME NEW w \in Workers, SettleEnd(w) \/ CancelEnd(w) PROVE Goal
  <2> DEFINE r == proc[w].run
             v == proc[w].verdict
  <2>1. r \in Runs /\ v \in Verdict /\ proc[w] # Idle
    <3>1. proc[w].pc \in {"end", "cancel"}
      BY <1>13 DEF SettleEnd, CancelEnd
    <3>2. proc[w] # Idle
      BY <3>1 DEF Idle
    <3> QED BY <3>1, <3>2, <1>a, EndProcType
  <2>2. r \notin creating
    BY <1>a, <2>1, LedgerIsFine DEF Known, Fine, Apart
  <2>3. PICK sp \in [Steps -> StepState] :
           WakeAndCommit(EndRun(r, v), sp, Freed(lease, r), ahead)
    <3>1. step \in [Steps -> StepState] /\ Closed(r) \in [Steps -> StepState]
      BY <1>a DEF TypeOK, Closed, StepState, Terminal
    <3> QED BY <1>13, <3>1 DEF SettleEnd, CancelEnd
  <2>4. verdict' = EndVerdict(r, v) /\ reap' = reap /\ proc' = [proc EXCEPT ![w].pc = "seal"]
    BY <1>13 DEF SettleEnd, CancelEnd
  <2>5. proc'[w].run = r /\ \A x \in Workers : x # w => proc'[x] = proc[x]
    <3>1. proc[w] \in [pc : {"end", "cancel", "seal"}, run : Runs, verdict : Verdict]
      BY <1>13, <1>b DEF SettleEnd, CancelEnd, Proc, Idle
    <3> QED BY <1>b, <2>4, <3>1
  <2>6. \E P \in SUBSET Runs : record' = Opened(P)
    BY <2>3 DEF WakeAndCommit
  <2> HIDE DEF r, v
  <2>7. state'[r] \in Ended
    BY <1>a, <2>1, <2>2, <2>3, <2>4, EndCommits
  <2>8. Requests
    BY <1>c, <1>d, <2>1, <2>5, <2>7 DEF Requests, HasEnded
  <2> QED BY <1>3, <1>4, <2>4, <2>6, <2>8
<1>14. ASSUME NEW w \in Workers, Seal(w) PROVE Goal
  <2>1. /\ reap' = reap /\ proc' = [proc EXCEPT ![w] = Idle] /\ proc[w].pc = "seal"
        /\ record' = SealAs(proc[w].run, proc[w].verdict)
    BY <1>14 DEF Seal, tables
  <2>2. Records
    BY <1>b, <1>d, <2>1 DEF Records, SealAs, Sealed
  <2>3. \A x \in Workers : proc'[x] \in {Idle, proc[x]}
    BY <1>b, <2>1
  <2> QED BY <1>2, <1>3, <2>1, <2>2, <2>3
<1>15. ASSUME ReapAsks \/ ReapFail \/ ReapSteps \/ ReapFree PROVE Goal
  <2>1. proc' = proc /\ record' = record
    BY <1>15 DEF ReapAsks, ReapFail, ReapSteps, ReapFree
  <2>2. reap'.pc # "seal"
    <3>1. CASE ReapAsks \/ ReapFail \/ ReapSteps
      BY <3>1, <1>b DEF ReapAsks, ReapFail, ReapSteps, Reap
    <3>2. CASE ReapFree
      BY <3>2, <1>b DEF ReapFree, AfterFree, AfterWake, Rested, Reap
    <3> QED BY <1>15, <3>1, <3>2
  <2> QED BY <1>2, <1>3, <1>4, <2>1, <2>2
<1>16. ASSUME ReapSettle PROVE Goal
  <2>1. record' = record /\ reap.pc = "settle"
    BY <1>16 DEF ReapSettle
  <2>2. reap'.pc # "seal"
    BY <1>16, <1>b, <2>1 DEF ReapSettle, Reap
  <2>3. CASE proc' = proc
    BY <1>2, <1>3, <1>4, <2>1, <2>2, <2>3
  <2>4. ASSUME NEW r, proc' = [proc EXCEPT ![Reaper] = Settling(r)] PROVE Goal
    <3>1. Reaper \in Workers /\ Settling(r).pc # "seal"
      BY DEF Workers, Settling
    <3>2. proc'[Reaper].pc # "seal" /\ \A x \in Workers : x # Reaper => proc'[x] = proc[x]
      BY <1>b, <2>4, <3>1
    <3> QED BY <1>3, <1>4, <1>5, <2>1, <2>2, <3>1, <3>2
  <2> QED BY <1>16, <2>3, <2>4 DEF ReapSettle
<1>17. ASSUME ReapWake PROVE Goal
  <2>1. proc' = proc /\ \E P \in SUBSET Runs : record' = Opened(P)
    BY <1>17 DEF ReapWake, WakeAndCommit
  <2>2. reap'.pc # "seal"
    BY <1>17, <1>b DEF ReapWake, AfterWake, Rested, Reap
  <2> QED BY <1>2, <1>3, <1>4, <2>1, <2>2
<1>18. ASSUME ReapSnap PROVE Goal
  <2>1. PICK old : reap' = [reap EXCEPT !.pc = "seal", !.reclaimed = {}, !.todo = Sealable \ old]
    BY <1>18 DEF ReapSnap
  <2>2. proc' = proc /\ record' = record /\ state' = state
    BY <1>18 DEF ReapSnap, tables
  <2>3. Passes
    <3>1. reap'.todo = Sealable \ old
      BY <1>b, <2>1 DEF Reap
    <3> QED BY <2>2, <3>1 DEF Passes, Sealable, HasEnded
  <2> QED BY <1>2, <1>4, <2>2, <2>3
<1>19. ASSUME ReapSeal PROVE Goal
  <2>1. proc' = proc /\ state' = state /\ reap.pc = "seal"
    BY <1>19 DEF ReapSeal, tables
  <2>2. Passes
    <3>1. reap' = Rested \/ \E r \in reap.todo : reap' = [reap EXCEPT !.todo = @ \ {r}]
      BY <1>19 DEF ReapSeal
    <3>2. reap'.pc # "seal" \/ reap'.todo \subseteq reap.todo
      BY <1>b, <3>1 DEF Rested, Reap
    <3> QED BY <1>e, <2>1, <3>2 DEF Passes, HasEnded
  <2>3. Records
    <3>1. CASE record' = record
      BY <1>4, <3>1
    <3>2. ASSUME NEW r \in reap.todo, record' = SealAs(r, SealVerdict(r)) PROVE Records
      BY <1>b, <1>e, <2>1, <3>2 DEF Records, SealAs, Sealed
    <3> QED BY <1>19, <3>1, <3>2 DEF ReapSeal
  <2> QED BY <1>2, <2>1, <2>2, <2>3
<1>20. ASSUME NEW h \in Handlers, Drop(h) PROVE Goal
  <2>1. \A x \in Workers : proc'[x] \in {Idle, proc[x]}
    BY <1>20, <1>b DEF Drop
  <2> QED BY <1>20, <1>2, <1>3, <1>4, <2>1 DEF Drop
<1>21. ASSUME Restart PROVE Goal
  BY <1>21, <1>2, <1>3, <1>4 DEF Restart, Rested
<1>22. ASSUME UNCHANGED vars PROVE Goal
  BY <1>22, <1>2, <1>3, <1>4 DEF vars
<1> HIDE DEF Goal
<1>23. Goal
  BY <1>6, <1>7, <1>8, <1>9, <1>10, <1>11, <1>12, <1>13, <1>14, <1>15, <1>16, <1>17, <1>18,
     <1>19, <1>20, <1>21, <1>22 DEF Next, Create, Proceed, Pass
<1> QED BY <1>1, <1>23 DEF Goal

-----------------------------------------------------------------------------
(* The theorems.                                                            *)

\* A safe specification of the state: what makes the invariants inductive
\* holds in every reachable state.
LEMMA InvInductive == Spec => []IInv
<1>1. Init => IInv
  <2> SUFFICES ASSUME Init PROVE IInv
    OBVIOUS
  <2>1. TypeOK
    BY TypeInit
  <2>2. Fine(state, verdict, lease, ahead, creating)
    BY DEF Init, Fine, Whole, Bare, Apart, Last, Ordered, Active
  <2>3. Known /\ SealFollowsEnd /\ SealedIsEnded
    BY DEF Init, Known, SealFollowsEnd, SealedIsEnded, Sealed, Verdict, Idle, Rested
  <2> QED BY <2>1, <2>2, <2>3, LedgerIsFine DEF IInv
<1>2. IInv /\ [Next]_vars => IInv'
  <2> SUFFICES ASSUME IInv, [Next]_vars PROVE IInv'
    OBVIOUS
  <2>1. LedgerInv /\ Known /\ TypeOK
    BY DEF IInv, LedgerInv
  <2>2. TypeOK' /\ Known'
    BY <2>1, TypeStep, KnownStep
  <2>3. Fine(state', verdict', lease', ahead', creating')
    BY <2>1, LedgerStep
  <2>4. LedgerInv'
    BY <2>2, <2>3 DEF LedgerInv, Fine, CreatingOK, VerdictIsLast, QueueOrdered, AllOrNothing,
       EndedHoldsNothing, Whole, Bare, Apart, Last, Ordered, Held, HasEnded
  <2> QED BY <2>2, <2>4, SealStep DEF IInv
<1> QED BY <1>1, <1>2, PTL DEF Spec

\* I1 and I5, for any number of Runs, nodes, steps, requests and faults: a
\* Run under way holds exactly the nodes it was granted.
THEOREM GrantsAreWhole == Spec => []AllOrNothing
<1>1. IInv => AllOrNothing
  BY DEF IInv, LedgerInv
<1> QED BY <1>1, InvInductive, PTL

\* I2: no interleaving leaves a node with a Run that has settled or was
\* cancelled; only what the reaper failed waits for its next statement.
THEOREM NothingIsKept == Spec => []EndedHoldsNothing
<1>1. IInv => EndedHoldsNothing
  BY DEF IInv, LedgerInv
<1> QED BY <1>1, InvInductive, PTL

\* I4: no Record is sealed while its Run can still go on.
THEOREM SealsComeAfterEnds == Spec => []SealedIsEnded
<1>1. IInv => SealedIsEnded
  BY DEF IInv
<1> QED BY <1>1, InvInductive, PTL

\* An ended Run keeps its state and verdict, although settling, cancelling
\* and reaping decide on rows they read in earlier statements.
THEOREM EndsAreFinal == Spec => EndIsFinal
<1>1. IInv /\ [Next]_vars =>
        [\A r \in Runs : HasEnded(r) => state'[r] = state[r] /\ verdict'[r] = verdict[r]]_vars
  BY LedgerStep DEF IInv, Final
<1> QED BY <1>1, InvInductive, PTL DEF Spec, EndIsFinal

-----------------------------------------------------------------------------
(* The Mediator keeps the ledger.                                           *)

\* A scan moves no Run that is under way or over, gives away only free
\* nodes, and gives them to Runs that start.
LEMMA WakeLawful ==
    ASSUME TypeOK,
           NEW st \in [Runs -> RunState], NEW sp,
           NEW l \in [Nodes -> Runs \cup {NoRun}], NEW a,
           NEW vd, Fine(st, vd, l, a, creating), WakeAndCommit(st, sp, l, a)
    PROVE  /\ \A r \in Runs : st[r] \in Active \cup Ended => state'[r] = st[r]
           /\ \A n \in Nodes : lease'[n] # l[n] =>
                 l[n] = NoRun /\ lease'[n] \in Runs /\ state'[lease'[n]] = "RUNNING"
<1>1. PICK P \in SUBSET Runs :
         Promotes(P, st, l, a) /\ (\A c \in creating : ~Waits(P, c)) /\ Start(P, st, sp, l)
  BY DEF WakeAndCommit
<1>2. creating \in SUBSET Runs
  BY DEF TypeOK
<1>3. Startable(P, st, l, creating)
  BY <1>1, <1>2, ScanStartable DEF Fine
<1>4. \A r \in Runs : st[r] \in Active \cup Ended => state'[r] = st[r]
  BY <1>1, <1>3 DEF Start, Running, Startable, Active, Ended
<1>5. ASSUME NEW n \in Nodes, lease'[n] # l[n]
      PROVE  l[n] = NoRun /\ lease'[n] \in Runs /\ state'[lease'[n]] = "RUNNING"
  <2>1. \E p \in P : n \in Grants[p]
    BY <1>1, <1>5 DEF Start, Granted
  <2>2. lease'[n] = CHOOSE p \in P : n \in Grants[p]
    BY <1>1, <2>1 DEF Start, Granted
  <2>3. lease'[n] \in P /\ n \in Grants[lease'[n]]
    BY <2>1, <2>2
  <2> QED BY <1>1, <1>3, <2>3 DEF Start, Running, Startable
<1> QED BY <1>4, <1>5

\* What every step does to the ledger.
Lawful ==
    /\ \A r \in Runs : state[r] \in Active => state'[r] \in Active \cup Ended
    /\ \A n \in Nodes : lease'[n] # lease[n] =>
          /\ lease[n] # NoRun => state'[lease[n]] \in Ended
          /\ lease'[n] # NoRun => state'[lease'[n]] = "RUNNING"

LEMMA EndLawful ==
    ASSUME LedgerInv, NEW r \in Runs, NEW v \in Verdict, r \notin creating, NEW sp,
           WakeAndCommit(EndRun(r, v), sp, Freed(lease, r), ahead)
    PROVE  Lawful
<1> DEFINE st == EndRun(r, v)
           l == Freed(lease, r)
           vd == EndVerdict(r, v)
<1>1. TypeOK
  BY DEF LedgerInv
<1>2. Fine(st, vd, l, ahead, creating)
  BY EndKeeps
<1>3. st \in [Runs -> RunState] /\ l \in [Nodes -> Runs \cup {NoRun}]
  BY <1>1, EndType
<1>4. /\ st[r] \in Ended
      /\ \A q \in Runs : state[q] \in Active => st[q] \in Active \cup Ended
  BY <1>1 DEF EndRun, HasEnded, StateOf, Ended, TypeOK
<1>5. \A n \in Nodes : l[n] = lease[n] \/ (l[n] = NoRun /\ lease[n] = r)
  BY DEF Freed
<1>6. WakeAndCommit(st, sp, l, ahead)
  OBVIOUS
<1> HIDE DEF st, l, vd
<1>7. /\ \A q \in Runs : st[q] \in Active \cup Ended => state'[q] = st[q]
      /\ \A n \in Nodes : lease'[n] # l[n] =>
            l[n] = NoRun /\ lease'[n] \in Runs /\ state'[lease'[n]] = "RUNNING"
  BY <1>1, <1>2, <1>3, <1>6, WakeLawful
<1> QED BY <1>4, <1>5, <1>7 DEF Lawful

LEMMA LawfulStep ==
    ASSUME LedgerInv, Known, [Next]_vars
    PROVE  Lawful
<1>a. TypeOK /\ Fine(state, verdict, lease, ahead, creating)
  BY LedgerIsFine
<1>b. /\ state \in [Runs -> RunState] /\ step \in [Steps -> StepState]
      /\ lease \in [Nodes -> Runs \cup {NoRun}] /\ ahead \in [Runs -> SUBSET Runs]
      /\ creating \in SUBSET Runs
  BY <1>a DEF TypeOK
<1>1. ASSUME UNCHANGED <<state, lease>> PROVE Lawful
  BY <1>1 DEF Lawful
<1>2. ASSUME NEW r \in Runs, CreateCommit(r) PROVE Lawful
  <2>1. /\ state[r] = "ABSENT" /\ \A n \in Grants[r] : lease[n] = NoRun
        /\ state' = Running({r}, state) /\ lease' = Granted({r}, lease)
    BY <1>2, <1>a DEF CreateCommit, Start, Fine, Apart
  <2>2. \A q \in Runs : state'[q] = IF q = r THEN "RUNNING" ELSE state[q]
    BY <2>1 DEF Running
  <2>3. \A n \in Nodes : lease'[n] = IF n \in Grants[r] THEN r ELSE lease[n]
    <3> SUFFICES ASSUME NEW n \in Nodes
                 PROVE  lease'[n] = IF n \in Grants[r] THEN r ELSE lease[n]
      OBVIOUS
    <3>1. CASE n \in Grants[r]
      <4>1. (CHOOSE p \in {r} : n \in Grants[p]) = r
        BY <3>1
      <4> QED BY <2>1, <3>1, <4>1 DEF Granted
    <3>2. CASE n \notin Grants[r]
      BY <2>1, <3>2 DEF Granted
    <3> QED BY <3>1, <3>2
  <2> QED BY <2>1, <2>2, <2>3 DEF Lawful, Active
<1>3. ASSUME NEW r \in Runs, Enqueue(r) PROVE Lawful
  <2> DEFINE st == [state EXCEPT ![r] = "QUEUED"]
             a == [ahead EXCEPT ![r] = {q \in Runs : state[q] = "QUEUED"}]
  <2>1. /\ state[r] = "ABSENT" /\ r \notin creating /\ WakeAndCommit(st, step, lease, a)
    BY <1>3 DEF Enqueue
  <2>2. st \in [Runs -> RunState]
    BY <1>b DEF RunState
  <2>3. \A q \in Runs : q # r => st[q] = state[q] /\ a[q] = ahead[q]
    BY <1>b
  <2>4. st[r] = "QUEUED" /\ a[r] = {q \in Runs : state[q] = "QUEUED"}
    BY <1>b
  <2> HIDE DEF st, a
  <2>5. Fine(st, verdict, lease, a, creating)
    BY <1>a, <1>b, <2>1, <2>3, <2>4, QueuedKeeps
  <2>6. /\ \A q \in Runs : st[q] \in Active \cup Ended => state'[q] = st[q]
        /\ \A n \in Nodes : lease'[n] # lease[n] =>
              lease[n] = NoRun /\ lease'[n] \in Runs /\ state'[lease'[n]] = "RUNNING"
    BY <1>a, <1>b, <2>1, <2>2, <2>5, WakeLawful
  <2> QED BY <2>1, <2>3, <2>6 DEF Lawful, Active
<1>4. ASSUME NEW r \in Runs, Reject(r) PROVE Lawful
  BY <1>4, <1>b DEF Reject, Lawful, Active, Ended
<1>5. ASSUME NEW w \in Workers, SettleVerify(w) PROVE Lawful
  BY <1>5, <1>b DEF SettleVerify, Verifying, Lawful, Active
<1>6. ASSUME NEW w \in Workers, SettleEnd(w) \/ CancelEnd(w) PROVE Lawful
  <2>1. proc[w].pc \in {"end", "cancel"}
    BY <1>6 DEF SettleEnd, CancelEnd
  <2>2. proc[w] # Idle
    BY <2>1 DEF Idle
  <2>3. proc[w].run \in Runs /\ proc[w].verdict \in Verdict
    BY <1>a, <2>1, EndProcType
  <2>4. proc[w].run \notin creating
    BY <1>a, <2>2 DEF Known, Fine, Apart
  <2>5. \E sp : WakeAndCommit(EndRun(proc[w].run, proc[w].verdict), sp,
                              Freed(lease, proc[w].run), ahead)
    BY <1>6 DEF SettleEnd, CancelEnd
  <2> QED BY <2>3, <2>4, <2>5, EndLawful
<1>7. ASSUME ReapFail PROVE Lawful
  BY <1>7, <1>b DEF ReapFail, Lawful, Ended
<1>8. ASSUME ReapFree PROVE Lawful
  BY <1>8, <1>b DEF ReapFree, ToFree, HasEnded, Lawful
<1>9. ASSUME ReapWake PROVE Lawful
  <2>1. WakeAndCommit(state, step, lease, ahead)
    BY <1>9 DEF ReapWake
  <2>2. /\ \A q \in Runs : state[q] \in Active \cup Ended => state'[q] = state[q]
        /\ \A n \in Nodes : lease'[n] # lease[n] =>
              lease[n] = NoRun /\ lease'[n] \in Runs /\ state'[lease'[n]] = "RUNNING"
    BY <1>a, <1>b, <2>1, WakeLawful
  <2> QED BY <2>2 DEF Lawful
<1>10. ASSUME NEW r \in Runs, CreateBegin(r) \/ CreateRollback(r) PROVE Lawful
  BY <1>10, <1>1 DEF CreateBegin, CreateRollback
<1>11. ASSUME NEW w \in Workers, Proceed(w) PROVE Lawful
  BY <1>11, <1>1, <1>5, <1>6 DEF Proceed, SettleRead, SettleCount, Seal, tables
<1>12. ASSUME Pass PROVE Lawful
  BY <1>12, <1>1, <1>7, <1>8, <1>9 DEF Pass, ReapAsks, ReapSettle, ReapSteps, ReapSnap, ReapSeal, tables
<1>13. ASSUME Request PROVE Lawful
  BY <1>13, <1>1 DEF Request, Report, Answer, NodeRestarted, CancelRead, tables
<1>14. ASSUME Submit \/ Create PROVE Lawful
  BY <1>14, <1>2, <1>3, <1>4, <1>10 DEF Submit, Create
<1>15. ASSUME NEW h \in Handlers, Drop(h) PROVE Lawful
  BY <1>15, <1>1 DEF Drop, tables
<1>16. ASSUME NEW s \in Steps, Claim(s) PROVE Lawful
  BY <1>16, <1>1 DEF Claim
<1>17. ASSUME NEW n \in Nodes, Heartbeat(n) \/ LeaseExpires(n) PROVE Lawful
  BY <1>17, <1>1 DEF Heartbeat, LeaseExpires
<1>18. ASSUME Restart \/ UNCHANGED vars PROVE Lawful
  BY <1>18, <1>1 DEF Restart, vars, tables
<1> QED
  BY <1>11, <1>12, <1>13, <1>14, <1>15, <1>16, <1>17, <1>18 DEF Next

\* A row of runs is never deleted.
LEMMA NeverAbsentAgain ==
    ASSUME TypeOK, [Next]_vars
    PROVE  \A r \in Runs : state[r] # "ABSENT" => state'[r] # "ABSENT"
<1> DEFINE Stay == \A r \in Runs : state[r] # "ABSENT" => state'[r] # "ABSENT"
<1>a. /\ state \in [Runs -> RunState] /\ step \in [Steps -> StepState]
      /\ proc \in [Workers -> Proc]
  BY DEF TypeOK
<1>1. ASSUME state' = state PROVE Stay
  BY <1>1
<1>2. ASSUME NEW r \in Runs, CreateCommit(r) PROVE Stay
  BY <1>2 DEF CreateCommit, Start, Running
<1>3. ASSUME NEW st \in [Runs -> RunState], NEW sp, NEW l, NEW a, WakeAndCommit(st, sp, l, a),
             \A r \in Runs : state[r] # "ABSENT" => st[r] # "ABSENT"
      PROVE  Stay
  BY <1>3 DEF WakeAndCommit, Start, Running
<1>4. ASSUME NEW r \in Runs, Enqueue(r) PROVE Stay
  <2> DEFINE st == [state EXCEPT ![r] = "QUEUED"]
             a == [ahead EXCEPT ![r] = {q \in Runs : state[q] = "QUEUED"}]
  <2>1. WakeAndCommit(st, step, lease, a)
    BY <1>4 DEF Enqueue
  <2>2. st \in [Runs -> RunState] /\ \A q \in Runs : state[q] # "ABSENT" => st[q] # "ABSENT"
    BY <1>a DEF RunState
  <2> HIDE DEF st, a
  <2> QED BY <1>3, <2>1, <2>2
<1>5. ASSUME NEW w \in Workers, SettleEnd(w) \/ CancelEnd(w) PROVE Stay
  <2> DEFINE st == EndRun(proc[w].run, proc[w].verdict)
  <2>1. \E sp, l : WakeAndCommit(st, sp, l, ahead)
    BY <1>5 DEF SettleEnd, CancelEnd
  <2>2. st \in [Runs -> RunState] /\ \A r \in Runs : state[r] # "ABSENT" => st[r] # "ABSENT"
    BY <1>a DEF EndRun, StateOf, RunState, Ended
  <2> HIDE DEF st
  <2> QED BY <1>3, <2>1, <2>2
<1>6. ASSUME NEW w \in Workers, SettleVerify(w) PROVE Stay
  BY <1>6, <1>a DEF SettleVerify, Verifying
<1>7. ASSUME ReapWake PROVE Stay
  BY <1>7, <1>3, <1>a DEF ReapWake
<1>8. ASSUME NEW r \in Runs, Reject(r) \/ CreateBegin(r) \/ CreateRollback(r) PROVE Stay
  BY <1>8, <1>a DEF Reject, CreateBegin, CreateRollback
<1>9. ASSUME ReapFail PROVE Stay
  BY <1>9, <1>a DEF ReapFail
<1> HIDE DEF Stay
<1>10. ASSUME NEW w \in Workers, Proceed(w) PROVE Stay
  BY <1>10, <1>1, <1>5, <1>6 DEF Proceed, SettleRead, SettleCount, Seal, tables
<1>11. ASSUME Pass PROVE Stay
  BY <1>11, <1>1, <1>7, <1>9
     DEF Pass, ReapAsks, ReapSettle, ReapSteps, ReapFree, ReapSnap, ReapSeal, tables
<1>12. ASSUME Request PROVE Stay
  BY <1>12, <1>1 DEF Request, Report, Answer, NodeRestarted, CancelRead, tables
<1>13. ASSUME Submit \/ Create PROVE Stay
  BY <1>13, <1>2, <1>4, <1>8 DEF Submit, Create
<1>14. ASSUME NEW h \in Handlers, Drop(h) PROVE Stay
  BY <1>14, <1>1 DEF Drop, tables
<1>15. ASSUME NEW s \in Steps, Claim(s) PROVE Stay
  BY <1>15, <1>1 DEF Claim
<1>16. ASSUME NEW n \in Nodes, Heartbeat(n) \/ LeaseExpires(n) PROVE Stay
  BY <1>16, <1>1 DEF Heartbeat, LeaseExpires
<1>17. ASSUME Restart \/ UNCHANGED vars PROVE Stay
  BY <1>17, <1>1 DEF Restart, vars, tables
<1>18. Stay
  BY <1>10, <1>11, <1>12, <1>13, <1>14, <1>15, <1>16, <1>17 DEF Next
<1> QED BY <1>18 DEF Stay

\* A step of the Mediator is a step of the ledger or none.
LEMMA LedgerSimulation ==
    ASSUME IInv, IInv', [Next]_vars
    PROVE  [Ledger!Next]_<<Phase, lease>>
<1>a. /\ LedgerInv /\ Known /\ state \in [Runs -> RunState] /\ lease \in [Nodes -> Runs \cup {NoRun}]
      /\ state' \in [Runs -> RunState] /\ lease' \in [Nodes -> Runs \cup {NoRun}]
      /\ AllOrNothing /\ AllOrNothing'
  BY DEF IInv, LedgerInv, TypeOK
<1>b. Lawful /\ Final /\ Known'
  BY <1>a, LawfulStep, LedgerStep DEF IInv
<1>c. \A r \in Runs : state[r] # "ABSENT" => state'[r] # "ABSENT"
  BY <1>a, NeverAbsentAgain DEF LedgerInv
<1>d. \A r \in Runs : /\ Phase[r] = "running" <=> state[r] \in Active
                      /\ Phase[r] = "over" <=> state[r] \in Ended
                      /\ Phase[r] = "new" <=> state[r] = "ABSENT"
                      /\ Phase[r] = "waiting" <=> state[r] = "QUEUED"
                      /\ Phase[r] \in {"new", "waiting", "running", "over"}
  BY <1>a DEF Phase, RunState, Active, Ended
<1>e. \A r \in Runs : /\ Phase'[r] = "running" <=> state'[r] \in Active
                      /\ Phase'[r] = "over" <=> state'[r] \in Ended
                      /\ Phase'[r] = "new" <=> state'[r] = "ABSENT"
                      /\ Phase'[r] = "waiting" <=> state'[r] = "QUEUED"
                      /\ Phase'[r] \in {"new", "waiting", "running", "over"}
  BY <1>a DEF Phase, RunState, Active, Ended
<1>f. /\ \A r \in Runs : state[r] \in Active => \A n \in Nodes : lease[n] = r <=> n \in Grants[r]
      /\ \A r \in Runs : state'[r] \in Active => \A n \in Nodes : lease'[n] = r <=> n \in Grants[r]
  BY <1>a DEF AllOrNothing, Held
<1>1. ASSUME NEW r \in Runs PROVE Ledger!Moves(r)
  <2>1. Phase[r] = "over" => Phase'[r] = "over"
    BY <1>b, <1>d, <1>e DEF Final, HasEnded
  <2>2. Phase[r] = "running" => Phase'[r] \in {"running", "over"}
    BY <1>b, <1>d, <1>e DEF Lawful
  <2>3. Phase[r] = "waiting" => Phase'[r] # "new"
    BY <1>c, <1>d, <1>e
  <2> HIDE DEF Phase
  <2> QED BY <1>d, <1>e, <2>1, <2>2, <2>3 DEF Ledger!Moves, Ledger!Forward
<1>2. ASSUME NEW r \in Runs PROVE Ledger!TakesAll(r)
  <2>1. Grants[r] \subseteq Nodes
    BY GrantsType
  <2> HIDE DEF Phase
  <2> QED BY <1>e, <1>f, <2>1 DEF Ledger!TakesAll, Ledger!Starts
<1>3. ASSUME NEW n \in Nodes PROVE Ledger!ChangesHands(n)
  <2> HIDE DEF Phase
  <2> SUFFICES ASSUME lease'[n] # lease[n]
               PROVE  /\ lease[n] # NoRun => Phase'[lease[n]] = "over"
                      /\ lease'[n] # NoRun =>
                            Ledger!Starts(lease'[n]) /\ n \in Grants[lease'[n]]
    BY DEF Ledger!ChangesHands
  <2>1. lease[n] # NoRun => Phase'[lease[n]] = "over"
    BY <1>a, <1>b, <1>e DEF Lawful
  <2>2. ASSUME lease'[n] # NoRun PROVE Ledger!Starts(lease'[n]) /\ n \in Grants[lease'[n]]
    <3>1. lease'[n] \in Runs /\ state'[lease'[n]] \in Active
      BY <1>a, <1>b, <2>2 DEF Lawful, Active
    <3>2. n \in Grants[lease'[n]]
      BY <1>f, <3>1
    <3>3. state[lease'[n]] \notin Active
      BY <1>f, <3>1, <3>2
    <3> QED BY <1>d, <1>e, <3>1, <3>2, <3>3 DEF Ledger!Starts
  <2> QED BY <2>1, <2>2
<1> QED BY <1>1, <1>2, <1>3 DEF Ledger!Next

\* The Mediator with all its interleavings, dropped requests and restarts
\* implements the ledger.
THEOREM MediatorKeepsLedger == Spec => KeepsLedger
<1>1. Init => Ledger!Init
  <2> SUFFICES ASSUME Init PROVE Ledger!Init
    OBVIOUS
  <2>1. lease = [n \in Nodes |-> NoRun] /\ \A r \in Runs : state[r] = "ABSENT"
    BY DEF Init
  <2>2. \A r \in Runs : (CASE state[r] = "ABSENT" -> "new"
                           [] state[r] = "QUEUED" -> "waiting"
                           [] state[r] \in Active -> "running"
                           [] OTHER -> "over") = "new"
    BY <2>1 DEF Active
  <2>3. Phase = [r \in Runs |-> "new"]
    BY <2>2 DEF Phase
  <2> QED BY <2>1, <2>3 DEF Ledger!Init
<1>2. IInv /\ IInv' /\ [Next]_vars => [Ledger!Next]_<<Phase, lease>>
  BY LedgerSimulation
<1> QED BY <1>1, <1>2, InvInductive, PTL DEF Spec, KeepsLedger, Ledger!Spec

-----------------------------------------------------------------------------
(* The queue.                                                               *)

Misses(r, l) == \E n \in Grants[r] : l[n] # NoRun
Waiting(r) == state[r] = "QUEUED" => Misses(r, lease)

\* Whoever is still queued when a scan has committed misses a node.
LEMMA ScanLeavesNoneBehind ==
    ASSUME NEW st \in [Runs -> RunState], NEW sp, NEW l \in [Nodes -> Runs \cup {NoRun}],
           NEW a, WakeAndCommit(st, sp, l, a)
    PROVE  \A r \in Runs : Waiting(r)'
<1>1. PICK P \in SUBSET Runs : Promotes(P, st, l, a) /\ Start(P, st, sp, l)
  BY DEF WakeAndCommit
<1>2. state' = Running(P, st) /\ lease' = Granted(P, l)
  BY <1>1 DEF Start
<1>3. ASSUME NEW r \in Runs, state'[r] = "QUEUED" PROVE \E n \in Grants[r] : lease'[n] # NoRun
  <2>1. r \notin P /\ st[r] = "QUEUED"
    BY <1>2, <1>3 DEF Running
  <2>2. PICK n \in Grants[r] : l[n] # NoRun \/ \E p \in P : n \in Grants[p]
    <3>1. Grants[r] \cap ({n \in Nodes : l[n] # NoRun}
                             \cup UNION {Grants[p] : p \in P \cap a[r]}) # {}
      BY <1>1, <2>1 DEF Promotes
    <3> QED BY <3>1
  <2>3. n \in Nodes
    BY GrantsType
  <2>4. CASE \E p \in P : n \in Grants[p]
    <3>1. (CHOOSE p \in P : n \in Grants[p]) \in P
      BY <2>4
    <3>2. lease'[n] \in P
      BY <1>2, <2>3, <2>4, <3>1 DEF Granted
    <3> QED BY <3>2, Sentinels
  <2>5. CASE ~\E p \in P : n \in Grants[p]
    <3>1. lease'[n] = l[n]
      BY <1>2, <2>3, <2>5 DEF Granted
    <3> QED BY <2>2, <2>5, <3>1
  <2> QED BY <2>4, <2>5
<1> QED BY <1>3 DEF Waiting, Misses

\* A held node stays held when a Run starts.
LEMMA StartFreesNothing ==
    ASSUME NEW r \in Runs, NEW l, NEW n \in Nodes, l[n] # NoRun
    PROVE  Granted({r}, l)[n] # NoRun
<1>1. CASE n \in Grants[r]
  <2>1. (CHOOSE p \in {r} : n \in Grants[p]) = r
    BY <1>1
  <2> QED BY <1>1, <2>1, Sentinels DEF Granted
<1>2. CASE n \notin Grants[r]
  BY <1>2 DEF Granted
<1> QED BY <1>1, <1>2

\* A scan is due after every step that frees nodes without one.
LEMMA WakeStep ==
    ASSUME TypeOK, NoLostWakeup, [Next]_vars
    PROVE  NoLostWakeup'
<1> DEFINE Due == missed \/ reap.pc \in {"wake", "boot"}
           None == \A r \in Runs : Waiting(r)
<1>a. /\ state \in [Runs -> RunState] /\ lease \in [Nodes -> Runs \cup {NoRun}]
      /\ reap \in Reap /\ proc \in [Workers -> Proc]
  BY DEF TypeOK
<1>b. Due \/ None
  BY DEF NoLostWakeup, Waiting, Misses
<1>c. None' \/ Due' => NoLostWakeup'
  BY DEF NoLostWakeup, Waiting, Misses
<1>1. ASSUME NEW st \in [Runs -> RunState], NEW sp, NEW l \in [Nodes -> Runs \cup {NoRun}], NEW a,
             WakeAndCommit(st, sp, l, a)
      PROVE  None'
  BY <1>1, ScanLeavesNoneBehind
<1>2. ASSUME lease' = lease, UNCHANGED missed,
             reap.pc \in {"wake", "boot"} => reap'.pc \in {"wake", "boot"},
             \A r \in Runs : state'[r] = "QUEUED" => state[r] = "QUEUED"
      PROVE  None' \/ Due'
  BY <1>2, <1>b DEF Waiting, Misses
<1> HIDE DEF Due, None
<1>3. ASSUME lease' = lease, UNCHANGED <<missed, reap>>,
             \A r \in Runs : state'[r] = "QUEUED" => state[r] = "QUEUED"
      PROVE  None' \/ Due'
  BY <1>3, <1>2
<1>4. ASSUME NEW r \in Runs, CreateCommit(r) PROVE None' \/ Due'
  <2>1. /\ state' = Running({r}, state) /\ lease' = Granted({r}, lease)
        /\ missed' = TRUE \/ UNCHANGED <<reap, missed>>
    BY <1>4 DEF CreateCommit, Start
  <2>2. CASE missed' = TRUE
    BY <2>2 DEF Due
  <2>3. CASE UNCHANGED <<reap, missed>>
    <3>1. CASE Due
      BY <2>3, <3>1 DEF Due
    <3>2. CASE None
      <4> SUFFICES ASSUME NEW q \in Runs, state'[q] = "QUEUED"
                   PROVE  \E n \in Grants[q] : lease'[n] # NoRun
        BY DEF None, Waiting, Misses
      <4>1. state[q] = "QUEUED"
        BY <2>1 DEF Running
      <4>2. PICK n \in Grants[q] : lease[n] # NoRun
        BY <3>2, <4>1 DEF None, Waiting, Misses
      <4>3. n \in Nodes
        BY GrantsType
      <4> QED BY <2>1, <4>2, <4>3, StartFreesNothing
    <3> QED BY <1>b, <3>1, <3>2
  <2> QED BY <2>1, <2>2, <2>3
<1>5. ASSUME NEW r \in Runs, Enqueue(r) PROVE None'
  <2>1. [state EXCEPT ![r] = "QUEUED"] \in [Runs -> RunState]
    BY <1>a DEF RunState
  <2> QED BY <1>1, <1>5, <1>a, <2>1 DEF Enqueue
<1>6. ASSUME NEW w \in Workers, SettleEnd(w) \/ CancelEnd(w) PROVE None'
  <2>1. proc[w].run \in Runs /\ proc[w].verdict \in Verdict
    BY <1>6, EndProcType DEF SettleEnd, CancelEnd
  <2>2. /\ EndRun(proc[w].run, proc[w].verdict) \in [Runs -> RunState]
        /\ Freed(lease, proc[w].run) \in [Nodes -> Runs \cup {NoRun}]
    BY <2>1, EndType
  <2> QED BY <1>1, <1>6, <2>2 DEF SettleEnd, CancelEnd
<1>7. ASSUME ReapWake PROVE None'
  BY <1>1, <1>7, <1>a DEF ReapWake
<1>8. ASSUME ReapFree PROVE None' \/ Due'
  <2>1. CASE ToFree = {}
    <3>1. lease' = lease /\ UNCHANGED missed /\ state' = state /\ reap.pc = "free"
      BY <1>8, <1>a, <2>1 DEF ReapFree
    <3> QED BY <1>2, <3>1
  <2>2. CASE ToFree # {}
    BY <1>8, <1>a, <2>2 DEF ReapFree, AfterFree, Due, Reap
  <2> QED BY <2>1, <2>2
<1>9. ASSUME NEW r \in Runs, CreateBegin(r) \/ CreateRollback(r) \/ Reject(r) PROVE None' \/ Due'
  BY <1>9, <1>3, <1>a DEF CreateBegin, CreateRollback, Reject
<1>10. ASSUME NEW w \in Workers, SettleVerify(w) PROVE None' \/ Due'
  BY <1>10, <1>3, <1>a DEF SettleVerify, Verifying
<1>11. ASSUME ReapFail PROVE None' \/ Due'
  BY <1>11, <1>2, <1>a DEF ReapFail
<1>12. ASSUME Restart PROVE None' \/ Due'
  BY <1>12 DEF Restart, Rested, Due
<1>13. ASSUME ReapAsks \/ ReapSettle \/ ReapSteps \/ ReapSnap \/ ReapSeal PROVE None' \/ Due'
  BY <1>13, <1>2 DEF ReapAsks, ReapSettle, ReapSteps, ReapSnap, ReapSeal, tables
<1>14. ASSUME Pass PROVE None' \/ Due'
  BY <1>14, <1>7, <1>8, <1>11, <1>13 DEF Pass
<1>15. ASSUME NEW w \in Workers, Proceed(w) PROVE None' \/ Due'
  BY <1>15, <1>3, <1>6, <1>10 DEF Proceed, SettleRead, SettleCount, Seal, tables
<1>16. ASSUME Submit \/ Create PROVE None' \/ Due'
  BY <1>16, <1>4, <1>5, <1>9 DEF Submit, Create
<1>17. ASSUME Request PROVE None' \/ Due'
  BY <1>17, <1>3 DEF Request, Report, Answer, NodeRestarted, CancelRead, tables
<1>18. ASSUME NEW h \in Handlers, Drop(h) PROVE None' \/ Due'
  BY <1>18, <1>3 DEF Drop, tables
<1>19. ASSUME NEW s \in Steps, Claim(s) PROVE None' \/ Due'
  BY <1>19, <1>3 DEF Claim
<1>20. ASSUME NEW n \in Nodes, Heartbeat(n) \/ LeaseExpires(n) PROVE None' \/ Due'
  BY <1>20, <1>3 DEF Heartbeat, LeaseExpires
<1>21. ASSUME UNCHANGED vars PROVE None' \/ Due'
  BY <1>21, <1>3 DEF vars, tables
<1> QED
  BY <1>c, <1>12, <1>14, <1>15, <1>16, <1>17, <1>18, <1>19, <1>20, <1>21 DEF Next

\* The queue never sleeps on free nodes: whichever transaction freed them,
\* and whatever scan was rolled back or died with the Mediator, a queued Run
\* misses a node or a scan is due.
THEOREM QueueIsWoken == Spec => []NoLostWakeup
<1>1. Init => NoLostWakeup
  BY DEF Init, NoLostWakeup, Rested
<1>2. TypeOK /\ NoLostWakeup /\ [Next]_vars => NoLostWakeup'
  BY WakeStep
<1> QED BY <1>1, <1>2, TypeCorrect, PTL DEF Spec

\* Nobody comes to be ahead of another later on.
LEMMA ArrivalsStep ==
    ASSUME TypeOK, Arrivals, [Next]_vars
    PROVE  Arrivals'
<1>a. /\ state \in [Runs -> RunState] /\ ahead \in [Runs -> SUBSET Runs]
      /\ \A q \in Runs : state[q] # "ABSENT" => state'[q] # "ABSENT"
  BY NeverAbsentAgain DEF TypeOK
<1>1. ASSUME ahead' = ahead PROVE Arrivals'
  BY <1>1, <1>a DEF Arrivals
<1>2. ASSUME NEW x \in Runs, Enqueue(x) PROVE Arrivals'
  <2>1. /\ state[x] = "ABSENT"
        /\ ahead' = [ahead EXCEPT ![x] = {q \in Runs : state[q] = "QUEUED"}]
    BY <1>2 DEF Enqueue, WakeAndCommit
  <2>2. /\ ahead'[x] = {q \in Runs : state[q] = "QUEUED"}
        /\ \A r \in Runs : r # x => ahead'[r] = ahead[r]
    BY <2>1, <1>a
  <2>3. \A r \in Runs : x \notin ahead[r]
    BY <2>1 DEF Arrivals
  <2> SUFFICES ASSUME NEW q \in Runs, NEW r \in Runs, q \in ahead'[r]
               PROVE  state'[q] # "ABSENT" /\ r \notin ahead'[q]
    BY DEF Arrivals
  <2>4. CASE r = x
    BY <1>a, <2>1, <2>2, <2>3, <2>4
  <2>5. CASE r # x
    BY <1>a, <2>1, <2>2, <2>3, <2>5 DEF Arrivals
  <2> QED BY <2>4, <2>5
<1>3. ASSUME NEW w \in Workers, SettleEnd(w) \/ CancelEnd(w) PROVE Arrivals'
  BY <1>3, <1>1 DEF SettleEnd, CancelEnd, WakeAndCommit
<1>4. ASSUME Pass PROVE Arrivals'
  BY <1>4, <1>1
     DEF Pass, ReapAsks, ReapSettle, ReapSteps, ReapFail, ReapFree, ReapWake, WakeAndCommit,
         ReapSnap, ReapSeal, tables
<1>5. ASSUME NEW w \in Workers, Proceed(w) PROVE Arrivals'
  BY <1>5, <1>1, <1>3 DEF Proceed, SettleRead, SettleCount, SettleVerify, Seal, tables
<1>6. ASSUME Submit \/ Create PROVE Arrivals'
  BY <1>6, <1>1, <1>2 DEF Submit, Create, CreateBegin, CreateCommit, CreateRollback, Reject
<1>7. ASSUME Request PROVE Arrivals'
  BY <1>7, <1>1 DEF Request, Report, Answer, NodeRestarted, CancelRead, tables
<1>8. ASSUME NEW h \in Handlers, Drop(h) PROVE Arrivals'
  BY <1>8, <1>1 DEF Drop, tables
<1>9. ASSUME NEW s \in Steps, Claim(s) PROVE Arrivals'
  BY <1>9, <1>1 DEF Claim
<1>10. ASSUME NEW n \in Nodes, Heartbeat(n) \/ LeaseExpires(n) PROVE Arrivals'
  BY <1>10, <1>1 DEF Heartbeat, LeaseExpires
<1>11. ASSUME Restart \/ UNCHANGED vars PROVE Arrivals'
  BY <1>11, <1>1 DEF Restart, vars, tables
<1> QED
  BY <1>4, <1>5, <1>6, <1>7, <1>8, <1>9, <1>10, <1>11 DEF Next

\* What keeps q waiting when r goes.
KeptWaiting(q, r) ==
    \E n \in Grants[q] : /\ lease'[n] \notin {NoRun, r}
                         /\ lease'[n] = lease[n] \/ q \notin ahead[lease'[n]]

\* One scan: what an older Run misses was held before, or went to one that
\* stands before it.
LEMMA ScanInOrder ==
    ASSUME NEW st, NEW sp, NEW l, NEW a, NEW cr \in SUBSET Runs,
           WakeAndCommit(st, sp, l, a), cr = creating, Ordered(st, a), Apart(st, l, cr),
           NEW r \in Runs, NEW q \in Runs, q \in a[r], r \notin a[q],
           st[r] = "QUEUED", state'[r] = "RUNNING", state'[q] = "QUEUED",
           \A n \in Nodes : l[n] # r
    PROVE  \E n \in Grants[q] : /\ lease'[n] # NoRun /\ lease'[n] # r
                                /\ lease'[n] = l[n] \/ lease'[n] \in a[q]
<1>1. PICK P \in SUBSET Runs :
         /\ Promotes(P, st, l, a) /\ \A c \in cr : ~Waits(P, c)
         /\ Start(P, st, sp, l)
  BY DEF WakeAndCommit
<1>2. state' = Running(P, st) /\ lease' = Granted(P, l)
  BY <1>1 DEF Start
<1>3. Startable(P, st, l, cr)
  BY <1>1, ScanStartable
<1>4. q \notin P /\ st[q] = "QUEUED"
  BY <1>2 DEF Running
<1>5. Grants[q] \cap ({n \in Nodes : l[n] # NoRun} \cup UNION {Grants[p] : p \in P \cap a[q]}) # {}
  BY <1>1, <1>4 DEF Promotes
<1>6. CASE \E n \in Grants[q] : n \in Nodes /\ l[n] # NoRun
  <2>1. PICK n \in Grants[q] : n \in Nodes /\ l[n] # NoRun
    BY <1>6
  <2>2. \A p \in P : n \notin Grants[p]
    BY <1>3, <2>1 DEF Startable
  <2>3. lease'[n] = l[n]
    BY <1>2, <2>1, <2>2 DEF Granted
  <2> QED BY <2>1, <2>3
<1>7. CASE \E n \in Grants[q] : \E p \in P \cap a[q] : n \in Grants[p]
  <2>1. PICK n \in Grants[q], p \in P \cap a[q] : n \in Grants[p]
    BY <1>7
  <2>2. n \in Nodes
    BY <2>1, GrantsType
  <2>3. \A p2 \in P : n \in Grants[p2] => p2 = p
    BY <1>3, <2>1 DEF Startable
  <2>4. (CHOOSE p2 \in P : n \in Grants[p2]) = p
    BY <2>1, <2>3
  <2>5. lease'[n] = p
    BY <1>2, <2>1, <2>2, <2>4 DEF Granted
  <2>6. p # NoRun /\ p # r
    BY <2>1, Sentinels
  <2> QED BY <2>1, <2>5, <2>6
<1> QED BY <1>5, <1>6, <1>7

\* The same, said of the tables, for a transaction that wrote st, l and a
\* before its scan without touching the place of r and q in the queue.
LEMMA ScanKeepsWaiting ==
    ASSUME IInv, Arrivals, NEW r \in Runs, NEW q \in Runs,
           state[r] = "QUEUED", state'[r] = "RUNNING", q \in ahead[r], state'[q] = "QUEUED",
           NEW st, NEW sp, NEW l, NEW a, NEW vd, WakeAndCommit(st, sp, l, a),
           Fine(st, vd, l, a, creating), st[r] = "QUEUED", a[r] = ahead[r], a[q] = ahead[q],
           \A n \in Nodes : l[n] = lease[n] \/ l[n] = NoRun
    PROVE  KeptWaiting(q, r)
<1>1. /\ TypeOK /\ EndedHoldsNothing
      /\ creating \in SUBSET Runs /\ ahead[q] \subseteq Runs
  BY DEF IInv, LedgerInv, TypeOK
<1>2. \A n \in Nodes : lease[n] # r
  BY <1>1, Sentinels DEF EndedHoldsNothing, Active
<1>3. \A n \in Nodes : l[n] # r
  BY <1>2, Sentinels
<1>4. r \notin a[q]
  BY DEF Arrivals
<1>5. Ordered(st, a) /\ Apart(st, l, creating)
  BY DEF Fine
<1>6. PICK n \in Grants[q] : /\ lease'[n] # NoRun /\ lease'[n] # r
                             /\ lease'[n] = l[n] \/ lease'[n] \in a[q]
  BY <1>1, <1>3, <1>4, <1>5, ScanInOrder
<1>7. n \in Nodes
  BY GrantsType
<1>8. CASE lease'[n] = l[n]
  BY <1>6, <1>7, <1>8 DEF KeptWaiting
<1>9. CASE lease'[n] \in a[q]
  <2>1. q \notin ahead[lease'[n]]
    BY <1>1, <1>9 DEF Arrivals
  <2> QED BY <1>6, <2>1 DEF KeptWaiting
<1> QED BY <1>6, <1>8, <1>9

LEMMA QueueStep ==
    ASSUME IInv, Arrivals, [Next]_vars,
           NEW r \in Runs, NEW q \in Runs, state[r] = "QUEUED", state'[r] = "RUNNING",
           q \in ahead[r], state'[q] = "QUEUED"
    PROVE  KeptWaiting(q, r)
<1>a. /\ LedgerInv /\ TypeOK /\ Known
      /\ state \in [Runs -> RunState] /\ lease \in [Nodes -> Runs \cup {NoRun}]
      /\ ahead \in [Runs -> SUBSET Runs]
      /\ Fine(state, verdict, lease, ahead, creating)
  BY LedgerIsFine DEF IInv, LedgerInv, TypeOK
<1>b. state[q] # "ABSENT"
  BY DEF Arrivals
<1>1. ASSUME state' = state PROVE FALSE
  BY <1>1
<1>2. ASSUME NEW x \in Runs, CreateCommit(x) PROVE FALSE
  <2>1. state[x] = "ABSENT" /\ state' = Running({x}, state)
    BY <1>2, <1>a DEF CreateCommit, Start, Fine, Apart
  <2> QED BY <2>1 DEF Running
<1>3. ASSUME NEW x \in Runs, Enqueue(x) PROVE KeptWaiting(q, r)
  <2> DEFINE st == [state EXCEPT ![x] = "QUEUED"]
             a == [ahead EXCEPT ![x] = {y \in Runs : state[y] = "QUEUED"}]
  <2>1. /\ state[x] = "ABSENT" /\ x \notin creating /\ WakeAndCommit(st, step, lease, a)
    BY <1>3 DEF Enqueue
  <2>2. st[r] = "QUEUED" /\ a[r] = ahead[r] /\ a[q] = ahead[q]
    BY <1>a, <1>b, <2>1
  <2>3. \A y \in Runs : y # x => st[y] = state[y] /\ a[y] = ahead[y]
    BY <1>a
  <2>4. st[x] = "QUEUED" /\ a[x] = {y \in Runs : state[y] = "QUEUED"}
    BY <1>a
  <2> HIDE DEF st, a
  <2>5. Fine(st, verdict, lease, a, creating)
    BY <1>a, <2>1, <2>3, <2>4, QueuedKeeps DEF TypeOK
  <2> QED BY <2>1, <2>2, <2>5, ScanKeepsWaiting
<1>4. ASSUME NEW w \in Workers, SettleEnd(w) \/ CancelEnd(w) PROVE KeptWaiting(q, r)
  <2> DEFINE x == proc[w].run
             v == proc[w].verdict
  <2>1. proc[w].pc \in {"end", "cancel"}
    BY <1>4 DEF SettleEnd, CancelEnd
  <2>2. proc[w] # Idle
    BY <2>1 DEF Idle
  <2>3. x \in Runs /\ v \in Verdict
    BY <1>a, <2>1, EndProcType
  <2>4. x \notin creating
    BY <1>a, <2>2 DEF Known, Fine, Apart
  <2>5. PICK sp : WakeAndCommit(EndRun(x, v), sp, Freed(lease, x), ahead)
    BY <1>4 DEF SettleEnd, CancelEnd
  <2> HIDE DEF x, v
  <2>6. Fine(EndRun(x, v), EndVerdict(x, v), Freed(lease, x), ahead, creating)
    BY <1>a, <2>3, <2>4, EndKeeps
  <2>7. EndRun(x, v)[r] \in {"QUEUED"} \cup Ended
    BY <1>a DEF EndRun, StateOf, Ended
  <2>8. EndRun(x, v)[r] \notin Ended
    BY <2>5 DEF WakeAndCommit, Start, Running, Promotes, Ended
  <2>9. \A n \in Nodes : Freed(lease, x)[n] = lease[n] \/ Freed(lease, x)[n] = NoRun
    BY DEF Freed
  <2> QED BY <2>5, <2>6, <2>7, <2>8, <2>9, ScanKeepsWaiting
<1>5. ASSUME ReapWake PROVE KeptWaiting(q, r)
  <2>1. WakeAndCommit(state, step, lease, ahead)
    BY <1>5 DEF ReapWake
  <2> QED BY <1>a, <2>1, ScanKeepsWaiting
<1>6. ASSUME NEW w \in Workers, SettleVerify(w) PROVE FALSE
  BY <1>6, <1>a DEF SettleVerify, Verifying
<1>7. ASSUME ReapFail PROVE FALSE
  BY <1>7, <1>a DEF ReapFail
<1>8. ASSUME NEW x \in Runs, Reject(x) \/ CreateBegin(x) \/ CreateRollback(x) PROVE FALSE
  BY <1>8, <1>a DEF Reject, CreateBegin, CreateRollback
<1>9. ASSUME NEW w \in Workers, Proceed(w) PROVE KeptWaiting(q, r)
  BY <1>9, <1>1, <1>4, <1>6 DEF Proceed, SettleRead, SettleCount, Seal, tables
<1>10. ASSUME Pass PROVE KeptWaiting(q, r)
  BY <1>10, <1>1, <1>5, <1>7
     DEF Pass, ReapAsks, ReapSettle, ReapSteps, ReapFree, ReapSnap, ReapSeal, tables
<1>11. ASSUME Submit \/ Create PROVE KeptWaiting(q, r)
  BY <1>11, <1>2, <1>3, <1>8 DEF Submit, Create
<1>12. ASSUME Request PROVE FALSE
  BY <1>12, <1>1 DEF Request, Report, Answer, NodeRestarted, CancelRead, tables
<1>13. ASSUME NEW h \in Handlers, Drop(h) PROVE FALSE
  BY <1>13, <1>1 DEF Drop, tables
<1>14. ASSUME NEW s \in Steps, Claim(s) PROVE FALSE
  BY <1>14, <1>1 DEF Claim
<1>15. ASSUME NEW n \in Nodes, Heartbeat(n) \/ LeaseExpires(n) PROVE FALSE
  BY <1>15, <1>1 DEF Heartbeat, LeaseExpires
<1>16. ASSUME Restart \/ UNCHANGED vars PROVE FALSE
  BY <1>16, <1>1 DEF Restart, vars, tables
<1> QED
  BY <1>9, <1>10, <1>11, <1>12, <1>13, <1>14, <1>15, <1>16 DEF Next

\* FIFO: a Run that leaves the queue takes nothing an older one could have
\* gone with; what that one misses was held already, or went to one that did
\* not come later.
THEOREM NobodyIsOvertaken == Spec => NoOvertaking
<1>1. Init => Arrivals
  BY DEF Init, Arrivals
<1>2. TypeOK /\ Arrivals /\ [Next]_vars => Arrivals'
  BY ArrivalsStep
<1>3. Spec => []Arrivals
  BY <1>1, <1>2, TypeCorrect, PTL DEF Spec
<1>4. ASSUME IInv, Arrivals, [Next]_vars
      PROVE  [\A r \in Runs : state[r] = "QUEUED" /\ state'[r] = "RUNNING" =>
                \A q \in ahead[r] : state'[q] = "QUEUED" =>
                  \E n \in Grants[q] : /\ lease'[n] \notin {NoRun, r}
                                       /\ lease'[n] = lease[n] \/ q \notin ahead[lease'[n]]]_vars
  <2> SUFFICES ASSUME NEW r \in Runs, state[r] = "QUEUED", state'[r] = "RUNNING",
                      NEW q \in ahead[r], state'[q] = "QUEUED"
               PROVE  KeptWaiting(q, r)
    BY DEF KeptWaiting
  <2>1. q \in Runs
    BY <1>4 DEF IInv, LedgerInv, TypeOK
  <2> QED BY <1>4, <2>1, QueueStep
<1> QED BY <1>3, <1>4, InvInductive, PTL DEF Spec, NoOvertaking
=============================================================================
