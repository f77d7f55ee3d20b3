----------------------- MODULE CheckpointSpool_proofs -----------------------
(***************************************************************************)
(* Proofs about CheckpointSpool, for any daemons, steps, policies, disks   *)
(* and crashes: what a receipt calls captured stays in the spool with its  *)
(* upper, and only the daemon of a step moves its session and its entry.   *)
(*                                                                         *)
(* Nothing but a step's own place (Own), the flocks (LocksTell) and what   *)
(* the keeper of each daemon has in hand (KeeperKnows) says that they keep *)
(* out of each other's way; and of the captured ones AllCaptured says all  *)
(* that the property leaves to the exempted cases.                         *)
(***************************************************************************)
EXTENDS CheckpointSpool, TLAPS

-----------------------------------------------------------------------------
(* The inductive invariant.                                                *)

HomePlaces == {"unborn", "bare", "free", "trash", "gone"} \cup Daemon
Times == {0} \cup {1 + Cardinality(S) : S \in SUBSET Id}
Record == [state : {"none", "reserved", "kept", "evicted"}, at : Times, bytes : Nat \cup {Unmeasured},
           report : Outcomes \cup {"", "unknown"}, due : BOOLEAN]
StepPlace == [pc : StepPcs, id : Id \cup {NoId}, slot : BOOLEAN]
Found == [id : Id, verdict : {"trash", "mark"}, rec : Record]

KeeperPcs == {"off", "swept", "start", "look", "act", "pass", "settle", "record"}
KeeperPlace ==
    [pc : KeeperPcs, todo : SUBSET Id, found : Found \cup {NoFinding}, sizes : SUBSET Id,
     evicted : UNION {[S -> Record] : S \in SUBSET Id}]

SpoolTyped ==
    /\ home \in [Id -> HomePlaces]
    /\ place \in [Id -> {"unborn", "spool", "trash", "gone"}]
    /\ lock \in [Id -> {"none", "free"} \cup Daemon]
    /\ rec \in [Id -> Record]
    /\ upper \in [Id -> {"none", "home", "entry", "trash", "gone"}]
    /\ old \subseteq Id
    /\ step \in [Daemon -> StepPlace]
    /\ \A d \in Daemon : step[d].pc # "idle" => step[d].id \in Id
    /\ keeper \in [Daemon -> KeeperPlace]
    /\ \A d \in Daemon : keeper[d].pc = "act" => keeper[d].found \in Found
    /\ \A d \in Daemon : keeper[d].pc # "record" => DOMAIN keeper[d].evicted = {}
    /\ disposals \in [Daemon -> SUBSET Id] /\ reports \in [Daemon -> SUBSET (Id \X Outcomes)]
    /\ spoolLock \in Daemon \cup {NoOne}
    /\ captured \subseteq Id /\ raced \subseteq Id /\ torn \subseteq Id

\* Daemon d has step i in hand.
Has(d, i) == step[d].pc # "idle" /\ step[d].id = i

\* Nobody else has it, or has left its reservation to a keeper, or finds it old.
HasAlone(d, i) ==
    /\ home[i] # "unborn" /\ i \notin old
    /\ \A e \in Daemon : i \notin disposals[e] /\ (Has(e, i) => e = d)

\* What is there of step i when its daemon d is at a place.
Own(d, i) ==
    LET pc == step[d].pc IN
    /\ pc = "bare" => home[i] = "bare" /\ i \notin raced
    /\ pc \in {"bare", "file", "open", "made"} => lock[i] = "none"
    /\ pc = "unlocked" => lock[i] = "free"
    /\ pc = "held" \/ pc = "kept" \/ (pc = "runs" /\ step[d].slot) => lock[i] = d
    /\ pc = "kept" => upper[i] = "entry"
    /\ pc \in {"bare", "file", "open", "made", "unlocked", "held"} => ~step[d].slot
    /\ pc # "over" => i \notin captured
    /\ pc \in {"file", "kept", "over"} => home[i] # d
    /\ pc \in {"runs", "over"} /\ lock[i] = d => step[d].slot

StepsOwn == \A d \in Daemon, i \in Id : Has(d, i) => HasAlone(d, i) /\ Own(d, i)

\* A lock is held by the daemon that has the step, or has left the reservation to its keeper.
LocksTell ==
    /\ \A i \in Id, d \in Daemon : lock[i] = d =>
          /\ i \notin captured
          /\ i \in disposals[d] \/ Has(d, i)
    /\ \A i \in Id, d \in Daemon : i \in disposals[d] => lock[i] = d /\ home[i] # "unborn" /\ \A e \in Daemon : ~Has(e, i)
    /\ \A i \in Id, d \in Daemon : home[i] = d => Has(d, i)

\* Of a step nobody has begun there is nothing.
UnbornIsNothing ==
    \A i \in Id : home[i] = "unborn" => /\ place[i] = "unborn" /\ lock[i] = "none"
                                              /\ i \notin captured /\ i \notin old /\ i \notin raced

\* What is captured.
AllCaptured ==
    /\ \A i \in Id : i \in captured <=> rec[i].state \in {"kept", "evicted"}
    /\ \A i \in Id : rec[i].due => i \in captured
    /\ \A i \in captured \ raced : place[i] = "spool" \/ rec[i].due
    /\ \A i \in captured : rec[i].state = "kept" /\ i \notin torn /\ (\A d \in Daemon : i \notin DOMAIN keeper[d].evicted)
          => upper[i] = "entry"

\* Who goes through the spool has its lock.
OneKeeper == \A d \in Daemon : keeper[d].pc \in {"look", "act", "record"} <=> spoolLock = d

\* Step i will not take the lock of its session, or of its entry, any more.
NoSession(i) == home[i] \notin Daemon \cup {"unborn"} /\ \A d \in Daemon : Has(d, i) => step[d].pc \notin {"bare", "file"}
NoEntry(i) ==
    /\ home[i] # "unborn" /\ lock[i] \notin Daemon
    /\ \A d \in Daemon : Has(d, i) => step[d].pc \notin {"bare", "file", "open", "made", "unlocked"}

\* What a keeper is about to move or write is nobody's.
SweepKnows(d) == keeper[d].pc = "swept" => \A i \in keeper[d].todo : i \in raced \/ NoSession(i)
ActKnows(d) ==
    keeper[d].pc = "act" => \A i \in Id : i = keeper[d].found.id =>
        /\ keeper[d].found.verdict = "trash" => i \in raced \/ (NoEntry(i) /\ (i \in captured => rec[i].due))
        /\ keeper[d].found.verdict = "mark" =>
              i \in captured /\ place[i] = "spool" /\ keeper[d].found.rec.state = "kept" /\ rec[i].state = "kept"
PlanKnows(d) ==
    \A i \in Id : i \in DOMAIN keeper[d].evicted =>
        i \in captured /\ keeper[d].evicted[i].state = "kept" /\ place[i] = "spool"
KeeperKnows == \A d \in Daemon : SweepKnows(d) /\ ActKnows(d) /\ PlanKnows(d)

SpoolInv == SpoolTyped /\ StepsOwn /\ LocksTell /\ UnbornIsNothing /\ AllCaptured /\ OneKeeper /\ KeeperKnows
-----------------------------------------------------------------------------
(* Types.                                                                  *)

\* What a step does to its place.
LEMMA GoMoves ==
    ASSUME step \in [Daemon -> StepPlace], NEW d \in Daemon, NEW pc \in StepPcs, Go(d, pc)
    PROVE  /\ step' \in [Daemon -> StepPlace]
           /\ step'[d].pc = pc /\ step'[d].id = step[d].id /\ step'[d].slot = step[d].slot
           /\ \A e \in Daemon : e # d => step'[e] = step[e]
<1> QED BY DEF Go, StepPlace

LEMMA KeepMoves ==
    ASSUME keeper \in [Daemon -> KeeperPlace], NEW d \in Daemon, NEW pc \in KeeperPcs, Keep(d, pc)
    PROVE  /\ keeper' \in [Daemon -> KeeperPlace]
           /\ keeper'[d].pc = pc /\ keeper'[d].todo = {} /\ DOMAIN keeper'[d].evicted = {}
           /\ \A e \in Daemon : e # d => keeper'[e] = keeper[e]
<1>1. Keeper(pc) \in KeeperPlace
  <2>1. <<>> \in [{} -> Record]
    OBVIOUS
  <2>2. <<>> \in UNION {[S -> Record] : S \in SUBSET Id}
    BY <2>1
  <2> QED BY <2>2 DEF Keeper, KeeperPlace, NoFinding
<1> QED BY <1>1 DEF Keep, Keeper, KeeperPlace

LEMMA KeeperFields ==
    ASSUME NEW pc, NEW T
    PROVE  /\ [Keeper(pc) EXCEPT !.todo = T] = [pc |-> pc, todo |-> T, found |-> NoFinding, sizes |-> {}, evicted |-> <<>>]
           /\ [Keeper(pc) EXCEPT !.sizes = T] = [pc |-> pc, todo |-> {}, found |-> NoFinding, sizes |-> T, evicted |-> <<>>]
           /\ [Keeper(pc) EXCEPT !.evicted = T] = [pc |-> pc, todo |-> {}, found |-> NoFinding, sizes |-> {}, evicted |-> T]
<1>1. Keeper(pc) = [pc |-> pc, todo |-> {}, found |-> NoFinding, sizes |-> {}, evicted |-> <<>>]
  BY DEF Keeper
<1>2. \A n, e : [[pc |-> pc, todo |-> {}, found |-> n, sizes |-> {}, evicted |-> e] EXCEPT !.sizes = T] =
              [pc |-> pc, todo |-> {}, found |-> n, sizes |-> T, evicted |-> e]
  OBVIOUS
<1>3. \A n, e : [[pc |-> pc, todo |-> {}, found |-> n, sizes |-> {}, evicted |-> e] EXCEPT !.evicted = T] =
              [pc |-> pc, todo |-> {}, found |-> n, sizes |-> {}, evicted |-> T]
  OBVIOUS
<1>4. \A n, e : [[pc |-> pc, todo |-> {}, found |-> n, sizes |-> {}, evicted |-> e] EXCEPT !.todo = T] =
              [pc |-> pc, todo |-> T, found |-> n, sizes |-> {}, evicted |-> e]
  OBVIOUS
<1> QED BY <1>1, <1>2, <1>3, <1>4

LEMMA RecordTypes == Reserved \in Record /\ NoRecord \in Record /\ Kept \in Record
<1>1. NoRecord \in Record
  BY DEF NoRecord, Record, Times, Unmeasured
<1>2. Reserved \in Record
  BY <1>1 DEF Reserved, Record
<1>3. 1 + Cardinality({i \in Id : rec[i].state \in {"kept", "evicted"}}) \in Times
  BY DEF Times
<1>4. Kept \in Record
  BY <1>1, <1>3 DEF Kept, Record
<1> QED BY <1>1, <1>2, <1>4

\* What a keeper finds is left, moved or marked.
LEMMA Verdicts == \A i \in Id : PlanReconcile(Finding(i)) \in {"leave", "trash", "mark"}
<1> QED BY DEF PlanReconcile, Finding

\* A plan expires what is due, and evicts of what is kept and not due.
LEMMA PlanTakes ==
    ASSUME NEW p, NEW entries, NEW fs
    PROVE  /\ PlanSettle(p, entries, fs).expire \subseteq {e.id : e \in {e \in entries : e.due /\ e.state \in {"kept", "evicted"}}}
           /\ PlanSettle(p, entries, fs).evict \subseteq {e.id : e \in {e \in entries : e.state = "kept" /\ ~e.due}}
<1> DEFINE kept == {e \in entries : e.state = "kept" /\ ~e.due}
           sized == {e \in kept : e.bytes # Unmeasured}
           large == {e \in sized : p.maxBytes > 0 /\ e.bytes > p.maxBytes}
           rest == sized \ large
           over == IF ~fs.known THEN {} ELSE Above(rest, "bytes", Share(p.percent, rest, "bytes", fs.free))
           left == rest \ over
           many == IF ~fs.known \/ fs.files = 0 THEN {}
                   ELSE Above(left, "inodes", IF p.maxInodes = 0 THEN Share(p.percent, left, "inodes", fs.filesFree)
                                              ELSE 100 * p.maxInodes)
<1>1. \A S, size, limit : Above(S, size, limit) \subseteq S
  BY DEF Above
<1>2. large \subseteq kept /\ rest \subseteq kept
  OBVIOUS
<1>3. over \subseteq rest
  <2> HIDE DEF rest
  <2> QED BY <1>1
<1>4. many \subseteq left
  <2> HIDE DEF left
  <2> QED BY <1>1
<1>5. large \cup over \cup many \subseteq kept
  <2> HIDE DEF large, rest, over, many, kept
  <2> QED BY <1>2, <1>3, <1>4
<1>6. PlanSettle(p, entries, fs) =
        [expire |-> {e.id : e \in {e \in entries : e.state \in {"kept", "evicted"} /\ e.due}},
         evict  |-> {e.id : e \in large \cup over \cup many}]
  BY DEF PlanSettle
<1>7. PlanSettle(p, entries, fs).evict = {e.id : e \in large \cup over \cup many}
  <2> HIDE DEF large, over, many
  <2> QED BY <1>6
<1>8. {e.id : e \in large \cup over \cup many} \subseteq {e.id : e \in kept}
  <2> HIDE DEF large, over, many, kept
  <2> QED BY <1>5
<1>9. PlanSettle(p, entries, fs).expire = {e.id : e \in {e \in entries : e.state \in {"kept", "evicted"} /\ e.due}}
  <2> HIDE DEF large, over, many
  <2> QED BY <1>6
<1>10. {e \in entries : e.state \in {"kept", "evicted"} /\ e.due} = {e \in entries : e.due /\ e.state \in {"kept", "evicted"}}
  OBVIOUS
<1> QED BY <1>7, <1>8, <1>9, <1>10

\* The readable records, with the sizes that were just written, and what a plan then takes.
Weighed == {[e EXCEPT !.bytes = rec'[e.id].bytes] : e \in Entries}
Expires(fs, stuck) == PlanSettle(Policy, Weighed, fs).expire \ stuck
Evicts(fs, stuck) == PlanSettle(Policy, Weighed, fs).evict \ stuck
Planned(d, fs, stuck) ==
    /\ place' = [i \in Id |-> IF i \in Expires(fs, stuck) THEN "trash" ELSE place[i]]
    /\ upper' = [i \in Id |-> IF i \in Evicts(fs, stuck) THEN Trashed(upper[i], "entry") ELSE upper[i]]
    /\ keeper' = [keeper EXCEPT ![d] = [Keeper("record") EXCEPT !.evicted = [i \in Evicts(fs, stuck) |-> rec'[i]]]]

LEMMA SettleMoves == \A d \in Daemon : SettleMove(d) => \E fs \in Disks, stuck \in SUBSET Id : Planned(d, fs, stuck)
<1> QED BY DEF SettleMove, Planned, Weighed, Expires, Evicts

\* How the places of the steps change.
LEMMA StepsTyped == SpoolTyped /\ [Next]_vars => step' \in [Daemon -> StepPlace] /\ \A d \in Daemon : step'[d].pc # "idle" => step'[d].id \in Id
<1> SUFFICES ASSUME SpoolTyped, [Next]_vars
             PROVE  step' \in [Daemon -> StepPlace] /\ \A d \in Daemon : step'[d].pc # "idle" => step'[d].id \in Id
  OBVIOUS
<1>0. step \in [Daemon -> StepPlace] /\ \A d \in Daemon : step[d].pc # "idle" => step[d].id \in Id
  BY DEF SpoolTyped
<1>1. ASSUME NEW d \in Daemon, NEW pc \in StepPcs, Go(d, pc), step[d].pc # "idle"
      PROVE  step' \in [Daemon -> StepPlace] /\ \A e \in Daemon : step'[e].pc # "idle" => step'[e].id \in Id
  BY <1>0, <1>1, GoMoves
<1>2. ASSUME NEW d \in Daemon, Work(d)
      PROVE  step' \in [Daemon -> StepPlace] /\ \A e \in Daemon : step'[e].pc # "idle" => step'[e].id \in Id
  <2>1. CASE Open(d)
    <3>1. PICK i \in Id : step' = [step EXCEPT ![d] = [pc |-> "bare", id |-> i, slot |-> FALSE]]
      BY <2>1 DEF Open
    <3>2. [pc |-> "bare", id |-> i, slot |-> FALSE] \in StepPlace
      BY DEF StepPlace, StepPcs
    <3> QED BY <1>0, <3>1, <3>2
  <2>2. CASE ReserveRecord(d)
    <3>1. step' = [step EXCEPT ![d].pc = "runs", ![d].slot = TRUE] /\ step[d].pc = "held"
      BY <2>2 DEF ReserveRecord, At
    <3>2. step' \in [Daemon -> StepPlace] /\ \A e \in Daemon : step'[e].id = step[e].id
      BY <1>0, <3>1 DEF StepPlace, StepPcs
    <3>3. \A e \in Daemon : e # d => step'[e] = step[e]
      BY <1>0, <3>1
    <3> QED BY <1>0, <3>1, <3>2, <3>3
  <2>3. CASE Report(d)
    <3>1. step' = [step EXCEPT ![d] = Idle]
      BY <2>3 DEF Report
    <3>2. Idle \in StepPlace /\ Idle.pc = "idle"
      BY DEF Idle, StepPlace, StepPcs
    <3> QED BY <1>0, <3>1, <3>2
  <2>4. CASE MakeSessionFile(d) \/ HoldSession(d) \/ OpenFails(d) \/ ReserveFolder(d) \/ ReserveFile(d) \/ ReserveHold(d)
    <3>1. step[d].pc # "idle" /\ \E pc \in StepPcs : Go(d, pc)
      BY <2>4 DEF MakeSessionFile, HoldSession, OpenFails, ReserveFolder, ReserveFile, ReserveHold, At, StepPcs
    <3> QED BY <1>1, <3>1
  <2>5. CASE ReserveFails(d) \/ CloseUnkept(d) \/ CloseKeeping(d) \/ Commit(d) \/ Abandon(d)
    <3>1. step[d].pc # "idle" /\ \E pc \in StepPcs : Go(d, pc)
      BY <2>5 DEF ReserveFails, CloseUnkept, CloseKeeping, Commit, Abandon, At, StepPcs
    <3> QED BY <1>1, <3>1
  <2> QED BY <1>2, <2>1, <2>2, <2>3, <2>4, <2>5 DEF Work
<1>3. CASE \E d \in Daemon : Start(d) \/ Settling(d) \/ Delete(d)
  <2>1. step' = step
    BY <1>3 DEF Start, SweepLook, SweepMove, Settling, Reconcile, Look, Act, Reconciled, DisposeOne, WriteReport,
                SettleRead, SettleMove, SettleRecord, Delete
  <2> QED BY <1>0, <2>1
<1>4. CASE \E d \in Daemon : Crash(d)
  <2>1. PICK d \in Daemon : step' = [step EXCEPT ![d] = Idle]
    BY <1>4 DEF Crash
  <2>2. Idle \in StepPlace /\ Idle.pc = "idle"
    BY DEF Idle, StepPlace, StepPcs
  <2> QED BY <1>0, <2>1, <2>2
<1>5. CASE Age \/ Expire \/ UNCHANGED vars
  <2>1. step' = step
    BY <1>5 DEF Age, Expire, vars
  <2> QED BY <1>0, <2>1
<1> QED BY <1>2, <1>3, <1>4, <1>5 DEF Next

\* How the places of folders, locks and uppers change.
LEMMA PlacesTyped ==
    SpoolTyped /\ [Next]_vars =>
        /\ home' \in [Id -> HomePlaces]
        /\ place' \in [Id -> {"unborn", "spool", "trash", "gone"}]
        /\ lock' \in [Id -> {"none", "free"} \cup Daemon]
        /\ upper' \in [Id -> {"none", "home", "entry", "trash", "gone"}]
<1> DEFINE Placed == /\ home' \in [Id -> HomePlaces]
                     /\ place' \in [Id -> {"unborn", "spool", "trash", "gone"}]
                     /\ lock' \in [Id -> {"none", "free"} \cup Daemon]
                     /\ upper' \in [Id -> {"none", "home", "entry", "trash", "gone"}]
<1> SUFFICES ASSUME SpoolTyped, [Next]_vars
             PROVE  Placed
  OBVIOUS
<1>0. /\ home \in [Id -> HomePlaces]
      /\ place \in [Id -> {"unborn", "spool", "trash", "gone"}]
      /\ lock \in [Id -> {"none", "free"} \cup Daemon]
      /\ upper \in [Id -> {"none", "home", "entry", "trash", "gone"}]
      /\ \A d \in Daemon : step[d].pc # "idle" => step[d].id \in Id
  BY DEF SpoolTyped
<1>h. {"unborn", "bare", "free", "trash", "gone"} \cup Daemon \subseteq HomePlaces
  BY DEF HomePlaces
<1>1. ASSUME NEW d \in Daemon, Work(d)
      PROVE  Placed
  <2>1. CASE Open(d)
    BY <1>0, <1>h, <2>1 DEF Open
  <2>2. CASE MakeSessionFile(d)
    BY <1>0, <1>h, <2>2 DEF MakeSessionFile
  <2>3. CASE HoldSession(d)
    BY <1>0, <1>h, <2>3 DEF HoldSession
  <2>4. CASE OpenFails(d)
    BY <1>0, <1>h, <2>4 DEF OpenFails
  <2>5. CASE ReserveFolder(d)
    BY <1>0, <2>5 DEF ReserveFolder
  <2>6. CASE ReserveFile(d)
    BY <1>0, <2>6 DEF ReserveFile
  <2>7. CASE ReserveHold(d)
    BY <1>0, <2>7 DEF ReserveHold
  <2>8. CASE ReserveRecord(d)
    BY <1>0, <2>8 DEF ReserveRecord
  <2>9. CASE ReserveFails(d)
    BY <1>0, <2>9 DEF ReserveFails, Removed
  <2>10. CASE CloseUnkept(d)
    BY <1>0, <1>h, <2>10 DEF CloseUnkept, Release, Trashed
  <2>11. CASE CloseKeeping(d)
    BY <1>0, <1>h, <2>11 DEF CloseKeeping, Release, Trashed
  <2>12. CASE Commit(d)
    BY <1>0, <2>12 DEF Commit
  <2>13. CASE Abandon(d)
    BY <1>0, <2>13 DEF Abandon, Trashed
  <2>14. CASE Report(d)
    BY <1>0, <2>14 DEF Report, files
  <2> QED BY <1>1, <2>1, <2>2, <2>3, <2>4, <2>5, <2>6, <2>7, <2>8, <2>9, <2>10, <2>11, <2>12, <2>13, <2>14 DEF Work
<1>2. ASSUME NEW d \in Daemon, Start(d) \/ Settling(d) \/ Delete(d)
      PROVE  Placed
  <2>1. CASE SweepLook(d) \/ Reconcile(d) \/ Look(d) \/ Reconciled(d) \/ WriteReport(d) \/ SettleRecord(d)
    <3>1. UNCHANGED <<home, place, lock, upper>>
      BY <2>1 DEF SweepLook, Reconcile, Look, Reconciled, WriteReport, SettleRecord, files
    <3> QED BY <1>0, <3>1
  <2>2. CASE SweepMove(d)
    BY <1>0, <1>h, <2>2 DEF SweepMove
  <2>3. CASE Act(d)
    BY <1>0, <2>3 DEF Act, Trashed
  <2>4. CASE DisposeOne(d)
    <3>1. disposals[d] \subseteq Id
      BY DEF SpoolTyped
    <3> QED BY <1>0, <2>4, <3>1 DEF DisposeOne, Removed
  <2>5. CASE SettleRead(d)
    BY <1>0, <2>5 DEF SettleRead, Trashed
  <2>6. CASE SettleMove(d)
    <3>1. PICK fs \in Disks, stuck \in SUBSET Id : Planned(d, fs, stuck)
      BY <2>6, SettleMoves
    <3>2. /\ place' = [i \in Id |-> IF i \in Expires(fs, stuck) THEN "trash" ELSE place[i]]
          /\ upper' = [i \in Id |-> IF i \in Evicts(fs, stuck) THEN Trashed(upper[i], "entry") ELSE upper[i]]
          /\ UNCHANGED <<home, lock>>
      BY <2>6, <3>1 DEF SettleMove, Planned
    <3> QED BY <1>0, <3>2 DEF Trashed
  <2>7. CASE Delete(d)
    BY <1>0, <1>h, <2>7 DEF Delete
  <2> QED BY <1>2, <2>1, <2>2, <2>3, <2>4, <2>5, <2>6, <2>7 DEF Start, Settling
<1>3. ASSUME NEW d \in Daemon, Crash(d)
      PROVE  Placed
  BY <1>0, <1>h, <1>3 DEF Crash
<1>4. CASE Age \/ Expire \/ UNCHANGED vars
  <2>1. UNCHANGED <<home, place, lock, upper>>
    BY <1>4 DEF Age, Expire, vars, files
  <2> QED BY <1>0, <2>1
<1> QED BY <1>1, <1>2, <1>3, <1>4 DEF Next

LEMMA PlanTells ==
    ASSUME NEW fs, NEW stuck
    PROVE  /\ \A i \in Expires(fs, stuck) : i \in Id /\ place[i] = "spool" /\ rec[i].due
           /\ \A i \in Evicts(fs, stuck) : i \in Id /\ place[i] = "spool" /\ rec[i].state = "kept" /\ ~rec[i].due
<1>1. ASSUME NEW e \in Weighed
      PROVE  e.id \in Id /\ place[e.id] = "spool" /\ rec[e.id].state = e.state /\ rec[e.id].due = e.due
  <2>1. PICK f \in Entries : e = [f EXCEPT !.bytes = rec'[f.id].bytes]
    BY <1>1 DEF Weighed
  <2>2. PICK i \in Id : /\ place[i] = "spool"
                        /\ f = [id |-> i, state |-> rec[i].state, at |-> rec[i].at, pos |-> 0, bytes |-> rec[i].bytes,
                                inodes |-> 1, due |-> rec[i].due]
    BY <2>1 DEF Entries
  <2> DEFINE b == rec'[f.id].bytes
  <2> HIDE DEF b
  <2>3. e = [id |-> i, state |-> rec[i].state, at |-> rec[i].at, pos |-> 0, bytes |-> b, inodes |-> 1, due |-> rec[i].due]
    BY <2>1, <2>2 DEF b
  <2> QED BY <2>2, <2>3
<1> DEFINE plan == PlanSettle(Policy, Weighed, fs)
<1>2. /\ plan.expire \subseteq {e.id : e \in {e \in Weighed : e.due /\ e.state \in {"kept", "evicted"}}}
      /\ plan.evict \subseteq {e.id : e \in {e \in Weighed : e.state = "kept" /\ ~e.due}}
  BY PlanTakes
<1> HIDE DEF plan
<1>3. ASSUME NEW i \in plan.expire PROVE i \in Id /\ place[i] = "spool" /\ rec[i].due
  <2>1. PICK e \in Weighed : e.due /\ i = e.id
    BY <1>2, <1>3
  <2> QED BY <1>1, <2>1, Zenon
<1>4. ASSUME NEW i \in plan.evict PROVE i \in Id /\ place[i] = "spool" /\ rec[i].state = "kept" /\ ~rec[i].due
  <2>1. PICK e \in Weighed : e.state = "kept" /\ ~e.due /\ i = e.id
    BY <1>2, <1>4
  <2> QED BY <1>1, <2>1, Zenon
<1>5. Expires(fs, stuck) \subseteq plan.expire /\ Evicts(fs, stuck) \subseteq plan.evict
  BY DEF plan, Expires, Evicts
<1> QED BY <1>3, <1>4, <1>5, Zenon

\* A change of one record's field.
LEMMA RecordChanges ==
    ASSUME NEW r \in Record
    PROVE  /\ \A report \in Outcomes \cup {"unknown"} :
                 LET s == [r EXCEPT !.report = report] IN s \in Record /\ s.state = r.state /\ s.due = r.due
           /\ \A bytes \in Nat : LET s == [r EXCEPT !.bytes = bytes] IN s \in Record /\ s.state = r.state /\ s.due = r.due
           /\ LET s == [r EXCEPT !.state = "evicted"] IN s \in Record /\ s.state = "evicted" /\ s.due = r.due
           /\ LET s == [r EXCEPT !.due = TRUE] IN s \in Record /\ s.state = r.state /\ s.due
<1> QED BY DEF Record

\* What a size that is written leaves.
LEMMA SizedTells ==
    ASSUME rec \in [Id -> Record], NEW S
    PROVE  /\ Sized(S) \in [Id -> Record]
           /\ \A i \in Id : Sized(S)[i].state = rec[i].state /\ Sized(S)[i].due = rec[i].due
<1>1. ASSUME NEW i \in Id
      PROVE  LET s == IF i \in S /\ rec[i].state = "kept" /\ rec[i].bytes = Unmeasured
                      THEN [rec[i] EXCEPT !.bytes = Size[i]] ELSE rec[i]
             IN  s \in Record /\ s.state = rec[i].state /\ s.due = rec[i].due
  <2>1. Size[i] \in Nat /\ rec[i] \in Record
    BY SizesAreNumbers
  <2> QED BY <2>1, RecordChanges
<1> QED BY <1>1 DEF Sized

\* What a keeper marks, and what it writes of the evicted.
LEMMA KeepersRecords ==
    ASSUME SpoolTyped, NEW d \in Daemon
    PROVE  /\ keeper[d].pc = "act" => /\ keeper[d].found.id \in Id
                                      /\ keeper[d].found.verdict \in {"trash", "mark"}
                                      /\ keeper[d].found.rec \in Record
           /\ DOMAIN keeper[d].evicted \subseteq Id
           /\ \A i \in DOMAIN keeper[d].evicted : keeper[d].evicted[i] \in Record
           /\ keeper[d].todo \subseteq Id
<1>1. keeper[d] \in KeeperPlace /\ (keeper[d].pc = "act" => keeper[d].found \in Found)
  BY DEF SpoolTyped
<1>2. PICK S \in SUBSET Id : keeper[d].evicted \in [S -> Record]
  BY <1>1 DEF KeeperPlace
<1>3. keeper[d].todo \subseteq Id
  BY <1>1 DEF KeeperPlace
<1>4. keeper[d].pc = "act" => /\ keeper[d].found.id \in Id
                              /\ keeper[d].found.verdict \in {"trash", "mark"}
                              /\ keeper[d].found.rec \in Record
  BY <1>1 DEF Found
<1> QED BY <1>2, <1>3, <1>4

LEMMA RecordsTyped == SpoolTyped /\ [Next]_vars => rec' \in [Id -> Record]
<1> SUFFICES ASSUME SpoolTyped, [Next]_vars
             PROVE  rec' \in [Id -> Record]
  OBVIOUS
<1>0. rec \in [Id -> Record] /\ \A d \in Daemon : step[d].pc # "idle" => step[d].id \in Id
  BY DEF SpoolTyped
<1>1. ASSUME NEW d \in Daemon, Work(d)
      PROVE  rec' \in [Id -> Record]
  <2>1. CASE Open(d) \/ MakeSessionFile(d) \/ HoldSession(d) \/ OpenFails(d) \/ ReserveFolder(d) \/ ReserveFile(d) \/ ReserveHold(d)
    <3>1. rec' = rec
      BY <2>1 DEF Open, MakeSessionFile, HoldSession, OpenFails, ReserveFolder, ReserveFile, ReserveHold
    <3> QED BY <1>0, <3>1
  <2>2. CASE ReserveFails(d) \/ CloseUnkept(d) \/ CloseKeeping(d) \/ Abandon(d) \/ Report(d)
    <3>1. rec' = rec
      BY <2>2 DEF ReserveFails, CloseUnkept, CloseKeeping, Abandon, Report, files
    <3> QED BY <1>0, <3>1
  <2>3. CASE ReserveRecord(d)
    BY <1>0, <2>3, RecordTypes DEF ReserveRecord
  <2>4. CASE Commit(d)
    BY <1>0, <2>4, RecordTypes DEF Commit
  <2> QED BY <1>1, <2>1, <2>2, <2>3, <2>4 DEF Work
<1>2. ASSUME NEW d \in Daemon, Start(d) \/ Settling(d) \/ Delete(d) \/ Crash(d)
      PROVE  rec' \in [Id -> Record]
  <2>1. CASE SweepLook(d) \/ SweepMove(d) \/ Reconcile(d) \/ Look(d) \/ Reconciled(d) \/ SettleRead(d) \/ Delete(d) \/ Crash(d)
    <3>1. rec' = rec
      BY <2>1 DEF SweepLook, SweepMove, Reconcile, Look, Reconciled, SettleRead, Delete, Crash, files
    <3> QED BY <1>0, <3>1
  <2>2. CASE Act(d)
    <3> DEFINE f == keeper[d].found
               r == IF f.verdict = "mark" THEN [f.rec EXCEPT !.report = "unknown"] ELSE rec[f.id]
    <3>1. keeper[d].pc = "act"
      BY <2>2 DEF Act, KeeperAt
    <3>2. f.id \in Id /\ f.rec \in Record
      BY <3>1, KeepersRecords
    <3>3. rec' = [rec EXCEPT ![f.id] = r]
      BY <2>2 DEF Act
    <3>4. r \in Record
      <4> HIDE DEF f
      <4> QED BY <1>0, <3>2, RecordChanges
    <3> HIDE DEF r, f
    <3> QED BY <1>0, <3>2, <3>3, <3>4
  <2>3. CASE DisposeOne(d)
    <3>1. PICK i \in disposals[d] : rec' = [rec EXCEPT ![i] = IF place[i] = "spool" THEN NoRecord ELSE @]
      BY <2>3 DEF DisposeOne
    <3>2. i \in Id
      BY DEF SpoolTyped
    <3> QED BY <1>0, <3>1, <3>2, RecordTypes
  <2>4. CASE WriteReport(d)
    <3>1. PICK r \in reports[d] :
            rec' = [rec EXCEPT ![r[1]] = IF place[r[1]] = "spool" THEN [@ EXCEPT !.report = r[2]] ELSE @]
      BY <2>4 DEF WriteReport
    <3>2. r[1] \in Id /\ r[2] \in Outcomes
      BY DEF SpoolTyped
    <3> DEFINE i == r[1]
               s == IF place[i] = "spool" THEN [rec[i] EXCEPT !.report = r[2]] ELSE rec[i]
    <3>3. rec' = [rec EXCEPT ![i] = s]
      BY <1>0, <3>1, <3>2
    <3>4. s \in Record
      BY <1>0, <3>2, RecordChanges
    <3> HIDE DEF s, i
    <3> QED BY <1>0, <3>3, <3>4
  <2>5. CASE SettleMove(d)
    BY <1>0, <2>5, SizedTells DEF SettleMove
  <2>6. CASE SettleRecord(d)
    <3>1. rec' = [i \in Id |-> IF i \in DOMAIN keeper[d].evicted
                               THEN [keeper[d].evicted[i] EXCEPT !.state = "evicted"] ELSE rec[i]]
      BY <2>6 DEF SettleRecord
    <3>2. \A i \in DOMAIN keeper[d].evicted : [keeper[d].evicted[i] EXCEPT !.state = "evicted"] \in Record
      BY KeepersRecords, RecordChanges
    <3> QED BY <1>0, <3>1, <3>2
  <2> QED BY <1>2, <2>1, <2>2, <2>3, <2>4, <2>5, <2>6 DEF Start, Settling
<1>3. CASE Age \/ UNCHANGED vars
  <2>1. rec' = rec
    BY <1>3 DEF Age, vars, files
  <2> QED BY <1>0, <2>1
<1>4. CASE Expire
  <2>1. PICK i \in Id : rec' = [rec EXCEPT ![i].due = TRUE]
    BY <1>4 DEF Expire
  <2>2. rec' = [rec EXCEPT ![i] = [rec[i] EXCEPT !.due = TRUE]]
    BY <1>0, <2>1
  <2> QED BY <1>0, <2>2, RecordChanges
<1> QED BY <1>1, <1>2, <1>3, <1>4 DEF Next

\* How the keepers' places change.
LEMMA KeepersTyped ==
    SpoolTyped /\ [Next]_vars =>
        /\ keeper' \in [Daemon -> KeeperPlace]
        /\ \A d \in Daemon : keeper'[d].pc = "act" => keeper'[d].found \in Found
        /\ \A d \in Daemon : keeper'[d].pc # "record" => DOMAIN keeper'[d].evicted = {}
<1> DEFINE KeepersOk(k) == /\ k \in [Daemon -> KeeperPlace]
                           /\ \A d \in Daemon : k[d].pc = "act" => k[d].found \in Found
                           /\ \A d \in Daemon : k[d].pc # "record" => DOMAIN k[d].evicted = {}
           PlaceOk(p) == /\ p \in KeeperPlace /\ (p.pc = "act" => p.found \in Found)
                         /\ (p.pc # "record" => DOMAIN p.evicted = {})
<1> SUFFICES ASSUME SpoolTyped, [Next]_vars
             PROVE  KeepersOk(keeper')
  OBVIOUS
<1>0. KeepersOk(keeper)
  BY DEF SpoolTyped
<1>1. ASSUME NEW d \in Daemon, NEW p, keeper' = [keeper EXCEPT ![d] = p], PlaceOk(p)
      PROVE  KeepersOk(keeper')
  BY <1>0, <1>1
<1>2. \A pc \in KeeperPcs \ {"act"}, T \in SUBSET Id, S \in SUBSET Id :
        PlaceOk([pc |-> pc, todo |-> T, found |-> NoFinding, sizes |-> S, evicted |-> <<>>])
  <2>1. <<>> \in [{} -> Record] /\ DOMAIN <<>> = {}
    OBVIOUS
  <2>2. <<>> \in UNION {[S -> Record] : S \in SUBSET Id}
    BY <2>1
  <2> QED BY <2>1, <2>2 DEF KeeperPlace, NoFinding
<1>3. \A pc \in KeeperPcs \ {"act"} : PlaceOk(Keeper(pc))
  BY <1>2 DEF Keeper, NoFinding
<1>4. ASSUME NEW d \in Daemon, NEW pc \in KeeperPcs \ {"act"}, Keep(d, pc)
      PROVE  KeepersOk(keeper')
  <2>1. keeper' = [keeper EXCEPT ![d] = Keeper(pc)] /\ PlaceOk(Keeper(pc))
    BY <1>3, <1>4 DEF Keep
  <2> HIDE DEF PlaceOk, KeepersOk
  <2> QED BY <1>1, <2>1
<1>5. ASSUME NEW d \in Daemon, Start(d) \/ Settling(d) \/ Delete(d) \/ Crash(d) \/ Work(d)
      PROVE  KeepersOk(keeper')
  <2> HIDE DEF KeepersOk
  <2>1. CASE SweepLook(d)
    <3>1. PICK T \in SUBSET Id : keeper' = [keeper EXCEPT ![d] = [Keeper("swept") EXCEPT !.todo = T]]
      BY <2>1 DEF SweepLook
    <3>2. [Keeper("swept") EXCEPT !.todo = T] = [pc |-> "swept", todo |-> T, found |-> NoFinding, sizes |-> {}, evicted |-> <<>>]
      BY KeeperFields
    <3> DEFINE p == [Keeper("swept") EXCEPT !.todo = T]
    <3>3. PlaceOk(p)
      <4>1. PlaceOk([pc |-> "swept", todo |-> T, found |-> NoFinding, sizes |-> {}, evicted |-> <<>>])
        BY <1>2 DEF KeeperPcs
      <4> QED BY <3>2, <4>1
    <3> HIDE DEF p, PlaceOk
    <3> QED BY <1>1, <3>1, <3>3 DEF p
  <2>2. CASE Reconcile(d)
    <3>1. PICK T \in SUBSET Id : keeper' = [keeper EXCEPT ![d] = [Keeper("look") EXCEPT !.todo = T]]
      BY <2>2 DEF Reconcile
    <3>2. [Keeper("look") EXCEPT !.todo = T] = [pc |-> "look", todo |-> T, found |-> NoFinding, sizes |-> {}, evicted |-> <<>>]
      BY KeeperFields
    <3> DEFINE p == [Keeper("look") EXCEPT !.todo = T]
    <3>3. PlaceOk(p)
      <4>1. PlaceOk([pc |-> "look", todo |-> T, found |-> NoFinding, sizes |-> {}, evicted |-> <<>>])
        BY <1>2 DEF KeeperPcs
      <4> QED BY <3>2, <4>1
    <3> HIDE DEF p, PlaceOk
    <3> QED BY <1>1, <3>1, <3>3 DEF p
  <2>3. CASE SettleRead(d)
    <3>1. PICK S : /\ S \in SUBSET {e.id : e \in {e \in Entries : e.state = "kept" /\ ~e.due /\ e.bytes = Unmeasured /\ upper[e.id] = "entry"}}
                   /\ keeper' = [keeper EXCEPT ![d] = [Keeper("settle") EXCEPT !.sizes = S]]
      BY <2>3 DEF SettleRead
    <3>2. S \in SUBSET Id
      BY <3>1 DEF Entries
    <3>3. [Keeper("settle") EXCEPT !.sizes = S] = [pc |-> "settle", todo |-> {}, found |-> NoFinding, sizes |-> S, evicted |-> <<>>]
      BY KeeperFields
    <3> DEFINE p == [Keeper("settle") EXCEPT !.sizes = S]
    <3>4. PlaceOk(p)
      <4>1. PlaceOk([pc |-> "settle", todo |-> {}, found |-> NoFinding, sizes |-> S, evicted |-> <<>>])
        BY <1>2, <3>2 DEF KeeperPcs
      <4> QED BY <3>3, <4>1
    <3> HIDE DEF p, PlaceOk
    <3> QED BY <1>1, <3>1, <3>4 DEF p
  <2>4. CASE SettleMove(d)
    <3>1. PICK fs \in Disks, stuck \in SUBSET Id : Planned(d, fs, stuck)
      BY <2>4, SettleMoves
    <3> DEFINE E == Evicts(fs, stuck)
               F == [i \in E |-> rec'[i]]
               p == [Keeper("record") EXCEPT !.evicted = F]
    <3>2. keeper' = [keeper EXCEPT ![d] = p]
      BY <3>1 DEF Planned
    <3>3. E \in SUBSET Id
      BY PlanTells
    <3>4. rec' \in [Id -> Record]
      BY RecordsTyped
    <3> HIDE DEF E
    <3>5. F \in [E -> Record]
      BY <3>3, <3>4
    <3>6. F \in UNION {[S -> Record] : S \in SUBSET Id}
      BY <3>3, <3>5
    <3> HIDE DEF F
    <3>7. p = [pc |-> "record", todo |-> {}, found |-> NoFinding, sizes |-> {}, evicted |-> F]
      BY KeeperFields
    <3>8. PlaceOk(p)
      BY <3>6, <3>7 DEF KeeperPlace, KeeperPcs, NoFinding
    <3> HIDE DEF p, PlaceOk
    <3> QED BY <1>1, <3>2, <3>8
  <2>5. CASE SweepMove(d) \/ Reconciled(d) \/ SettleRecord(d) \/ Crash(d)
    <3>1. \E pc \in KeeperPcs \ {"act"} : Keep(d, pc)
      BY <2>5 DEF SweepMove, Reconciled, SettleRecord, Crash, KeeperPcs
    <3> QED BY <1>4, <3>1
  <2>6. CASE Look(d)
    <3>1. PICK i \in keeper[d].todo :
            LET v == IF place[i] = "spool" THEN PlanReconcile(Finding(i)) ELSE "leave" IN
            keeper' = [keeper EXCEPT ![d].pc = IF v = "leave" THEN "look" ELSE "act",
                                     ![d].todo = @ \ {i},
                                     ![d].found = IF v = "leave" THEN NoFinding
                                                  ELSE [id |-> i, verdict |-> v, rec |-> rec[i]]]
      BY <2>6 DEF Look
    <3> DEFINE v == IF place[i] = "spool" THEN PlanReconcile(Finding(i)) ELSE "leave"
               f == IF v = "leave" THEN NoFinding ELSE [id |-> i, verdict |-> v, rec |-> rec[i]]
               c == IF v = "leave" THEN "look" ELSE "act"
               p == [keeper[d] EXCEPT !.pc = c, !.todo = @ \ {i}, !.found = f]
    <3>2. keeper[d] \in KeeperPlace /\ keeper[d].pc = "look" /\ i \in Id /\ DOMAIN keeper[d].evicted = {}
      BY <1>0, <2>6, KeepersRecords DEF Look, KeeperAt, KeepersOk
    <3>3. v \in {"leave", "trash", "mark"} /\ rec[i] \in Record
      BY <3>2, Verdicts DEF SpoolTyped
    <3> HIDE DEF v
    <3>4. f \in Found \cup {NoFinding} /\ (c = "act" => f \in Found) /\ c \in KeeperPcs /\ c # "record"
      BY <3>2, <3>3 DEF Found, KeeperPcs
    <3>5. keeper' = [keeper EXCEPT ![d] = p]
      BY <1>0, <3>1 DEF KeepersOk, v
    <3> HIDE DEF f, c
    <3>6. PlaceOk(p)
      BY <3>2, <3>4 DEF KeeperPlace
    <3> HIDE DEF p, PlaceOk
    <3> QED BY <1>1, <3>5, <3>6
  <2>7. CASE Act(d)
    <3> DEFINE p == [keeper[d] EXCEPT !.pc = "look", !.found = NoFinding]
    <3>1. keeper[d] \in KeeperPlace /\ keeper[d].pc = "act" /\ DOMAIN keeper[d].evicted = {}
      BY <1>0, <2>7 DEF Act, KeeperAt, KeepersOk
    <3>2. PlaceOk(p)
      BY <3>1 DEF KeeperPlace, KeeperPcs
    <3>3. keeper' = [keeper EXCEPT ![d] = p]
      BY <1>0, <2>7 DEF KeepersOk, Act
    <3> HIDE DEF p, PlaceOk
    <3> QED BY <1>1, <3>2, <3>3
  <2>8. CASE DisposeOne(d) \/ WriteReport(d) \/ Delete(d)
    <3>1. keeper' = keeper
      BY <2>8 DEF DisposeOne, WriteReport, Delete
    <3> QED BY <1>0, <3>1
  <2>9. CASE Work(d)
    <3>1. keeper' = keeper
      BY <2>9 DEF Work, Open, MakeSessionFile, HoldSession, OpenFails, ReserveFolder, ReserveFile, ReserveHold,
         ReserveRecord,
                  ReserveFails, CloseUnkept, CloseKeeping, Commit, Abandon, Report
    <3> QED BY <1>0, <3>1
  <2> QED BY <1>5, <2>1, <2>2, <2>3, <2>4, <2>5, <2>6, <2>7, <2>8, <2>9 DEF Start, Settling
<1>6. CASE Age \/ Expire \/ UNCHANGED vars
  <2>1. keeper' = keeper
    BY <1>6 DEF Age, Expire, vars
  <2> QED BY <1>0, <2>1
<1> QED BY <1>5, <1>6 DEF Next

LEMMA TypesStay == SpoolTyped /\ [Next]_vars => SpoolTyped'
<1> SUFFICES ASSUME SpoolTyped, [Next]_vars
             PROVE  SpoolTyped'
  OBVIOUS
<1>1. /\ old \subseteq Id /\ disposals \in [Daemon -> SUBSET Id] /\ reports \in [Daemon -> SUBSET (Id \X Outcomes)]
      /\ spoolLock \in Daemon \cup {NoOne}
      /\ captured \subseteq Id /\ raced \subseteq Id /\ torn \subseteq Id
      /\ \A d \in Daemon : step[d].pc # "idle" => step[d].id \in Id
  BY DEF SpoolTyped
<1> DEFINE Queued == disposals' \in [Daemon -> SUBSET Id] /\ reports' \in [Daemon -> SUBSET (Id \X Outcomes)]
           Rest == /\ old' \subseteq Id /\ spoolLock' \in Daemon \cup {NoOne}
                   /\ captured' \subseteq Id /\ raced' \subseteq Id /\ torn' \subseteq Id
<1>2. Queued
  <2>1. CASE \E d \in Daemon : Report(d)
    <3>1. PICK d \in Daemon : Report(d)
      BY <2>1
    <3>2. step[d].id \in Id
      BY <1>1, <3>1 DEF Report, At
    <3> QED BY <1>1, <3>1, <3>2 DEF Report
  <2>2. CASE \E d \in Daemon : DisposeOne(d)
    BY <1>1, <2>2 DEF DisposeOne
  <2>3. CASE \E d \in Daemon : WriteReport(d)
    BY <1>1, <2>3 DEF WriteReport
  <2>4. CASE \E d \in Daemon : Crash(d)
    BY <1>1, <2>4 DEF Crash
  <2>5. ASSUME NEW d \in Daemon, \/ Open(d) \/ MakeSessionFile(d) \/ HoldSession(d) \/ OpenFails(d)
                                 \/ ReserveFolder(d) \/ ReserveFile(d) \/ ReserveHold(d) \/ ReserveRecord(d) \/ ReserveFails(d)
                                 \/ CloseUnkept(d) \/ CloseKeeping(d) \/ Commit(d) \/ Abandon(d)
        PROVE  UNCHANGED queues
    BY <2>5 DEF Open, MakeSessionFile, HoldSession, OpenFails, ReserveFolder, ReserveFile, ReserveHold, ReserveRecord,
                ReserveFails, CloseUnkept, CloseKeeping, Commit, Abandon
  <2>6. ASSUME NEW d \in Daemon, Start(d) \/ Delete(d) \/ Reconcile(d) \/ Look(d) \/ Act(d) \/ Reconciled(d) \/ SettleRead(d)
                                 \/ SettleMove(d) \/ SettleRecord(d)
        PROVE  UNCHANGED queues
    BY <2>6 DEF Start, SweepLook, SweepMove, Delete, Reconcile, Look, Act, Reconciled, SettleRead, SettleMove, SettleRecord
  <2>7. CASE Age \/ Expire \/ UNCHANGED vars
    BY <1>1, <2>7 DEF Age, Expire, vars, queues
  <2>8. CASE UNCHANGED queues
    BY <1>1, <2>8 DEF queues
  <2> HIDE DEF Queued
  <2> QED BY <2>1, <2>2, <2>3, <2>4, <2>5, <2>6, <2>7, <2>8 DEF Next, Work, Settling
<1>3. Rest
  <2>1. ASSUME NEW d \in Daemon, Work(d)
        PROVE  Rest
    <3>1. CASE Commit(d)
      <4>1. step[d].id \in Id
        BY <1>1, <3>1 DEF Commit, At
      <4> QED BY <1>1, <3>1, <4>1 DEF Commit
    <3>2. CASE \/ Open(d) \/ MakeSessionFile(d) \/ HoldSession(d) \/ OpenFails(d) \/ ReserveFolder(d) \/ ReserveFile(d)
      BY <1>1, <3>2 DEF Open, MakeSessionFile, HoldSession, OpenFails, ReserveFolder, ReserveFile, history
    <3>3. CASE \/ ReserveHold(d) \/ ReserveRecord(d) \/ ReserveFails(d) \/ CloseUnkept(d) \/ CloseKeeping(d) \/ Abandon(d) \/ Report(d)
      BY <1>1, <3>3 DEF ReserveHold, ReserveRecord, ReserveFails, CloseUnkept, CloseKeeping, Abandon, Report, history
    <3> QED BY <2>1, <3>1, <3>2, <3>3 DEF Work
  <2>2. ASSUME NEW d \in Daemon, Start(d) \/ Settling(d) \/ Delete(d) \/ Crash(d)
        PROVE  Rest
    <3>1. CASE SweepLook(d)
      BY <1>1, <3>1 DEF SweepLook
    <3>2. CASE Look(d)
      <4>1. keeper[d].todo \subseteq Id
        BY KeepersRecords
      <4>2. PICK i \in keeper[d].todo : raced' \in {raced, raced \cup {i}}
        BY <3>2 DEF Look
      <4> QED BY <1>1, <3>2, <4>1, <4>2 DEF Look
    <3>3. CASE Crash(d)
      <4>1. DOMAIN keeper[d].evicted \subseteq Id
        BY KeepersRecords
      <4> QED BY <1>1, <3>3, <4>1 DEF Crash
    <3>4. CASE SweepMove(d) \/ Reconcile(d) \/ Act(d) \/ Reconciled(d) \/ DisposeOne(d) \/ WriteReport(d)
      BY <1>1, <3>4 DEF SweepMove, Reconcile, Act, Reconciled, DisposeOne, WriteReport, history
    <3>5. CASE SettleRead(d) \/ SettleMove(d) \/ SettleRecord(d) \/ Delete(d)
      BY <1>1, <3>5 DEF SettleRead, SettleMove, SettleRecord, Delete, history
    <3> QED BY <2>2, <3>1, <3>2, <3>3, <3>4, <3>5 DEF Start, Settling
  <2>3. CASE Age \/ Expire \/ UNCHANGED vars
    BY <1>1, <2>3 DEF Age, Expire, vars, history
  <2> QED BY <2>1, <2>2, <2>3 DEF Next
<1> HIDE DEF Queued, Rest
<1>4. step' \in [Daemon -> StepPlace] /\ \A d \in Daemon : step'[d].pc # "idle" => step'[d].id \in Id
  BY StepsTyped
<1> QED BY <1>2, <1>3, <1>4, PlacesTyped, RecordsTyped, KeepersTyped, Zenon DEF SpoolTyped, Queued, Rest

-----------------------------------------------------------------------------
(* Steps.                                                                  *)

\* Of what a keeper has in hand a step in the middle of its work has no part.
Apart(i) == \A d \in Daemon : /\ i \notin DOMAIN keeper[d].evicted
                              /\ keeper[d].pc = "act" /\ keeper[d].found.verdict = "mark" => keeper[d].found.id # i

LEMMA NotCapturedIsApart == SpoolTyped /\ KeeperKnows => \A i \in Id : i \notin captured => Apart(i)
<1> SUFFICES ASSUME SpoolTyped, KeeperKnows, NEW i \in Id, i \notin captured, NEW d \in Daemon
             PROVE  /\ i \notin DOMAIN keeper[d].evicted
                    /\ keeper[d].pc = "act" /\ keeper[d].found.verdict = "mark" => keeper[d].found.id # i
  BY DEF Apart
<1>1. ActKnows(d) /\ PlanKnows(d)
  BY DEF KeeperKnows
<1> QED BY <1>1 DEF ActKnows, PlanKnows

\* What it takes for what keeper e knows that it does nothing: nobody takes back what it relies on.
LEMMA KeeperStays ==
    ASSUME SpoolTyped, NEW e \in Daemon, SweepKnows(e) /\ ActKnows(e) /\ PlanKnows(e),
           keeper'[e] = keeper[e], raced \subseteq raced',
           \A j \in Id : NoSession(j) => NoSession(j)',
           keeper[e].pc \in {"act", "record"} => \A j \in Id :
               /\ NoEntry(j) => NoEntry(j)' /\ (j \in captured' => j \in captured)
               /\ j \in captured => j \in captured'
               /\ j \in captured /\ rec[j].due => rec'[j].due
               /\ j \in captured /\ place[j] = "spool" => place'[j] = "spool"
               /\ j \in captured /\ rec[j].state = "kept" => rec'[j].state = "kept"
    PROVE  SweepKnows(e)' /\ ActKnows(e)' /\ PlanKnows(e)'
<1>1. SweepKnows(e)'
  <2>1. keeper[e].todo \subseteq Id
    BY KeepersRecords
  <2> QED BY <2>1 DEF SweepKnows
<1>2. ActKnows(e)'
  <2> SUFFICES ASSUME keeper[e].pc = "act", NEW j \in Id, j = keeper[e].found.id
               PROVE  /\ keeper[e].found.verdict = "trash" =>
                            j \in raced' \/ (NoEntry(j)' /\ (j \in captured' => rec'[j].due))
                      /\ keeper[e].found.verdict = "mark" => /\ j \in captured' /\ place'[j] = "spool"
                            /\ keeper[e].found.rec.state = "kept" /\ rec'[j].state = "kept"
    BY DEF ActKnows
  <2>1. ASSUME keeper[e].found.verdict = "trash", j \notin raced'
        PROVE  NoEntry(j)' /\ (j \in captured' => rec'[j].due)
    <3>1. NoEntry(j) /\ (j \in captured => rec[j].due)
      BY <2>1, Zenon DEF ActKnows
    <3>2. NoEntry(j)' /\ (j \in captured' => j \in captured)
      BY <3>1
    <3>3. j \in captured /\ rec[j].due => rec'[j].due
      OBVIOUS
    <3> QED BY <3>1, <3>2, <3>3, Zenon
  <2>2. ASSUME keeper[e].found.verdict = "mark"
        PROVE  j \in captured' /\ place'[j] = "spool" /\ keeper[e].found.rec.state = "kept" /\ rec'[j].state = "kept"
    <3>1. j \in captured /\ place[j] = "spool" /\ keeper[e].found.rec.state = "kept" /\ rec[j].state = "kept"
      BY <2>2, Zenon DEF ActKnows
    <3> QED BY <3>1
  <2> QED BY <2>1, <2>2, Zenon
<1>3. PlanKnows(e)'
  <2> SUFFICES ASSUME NEW j \in Id, j \in DOMAIN keeper[e].evicted
               PROVE  j \in captured' /\ keeper[e].evicted[j].state = "kept" /\ place'[j] = "spool"
    BY DEF PlanKnows
  <2>1. keeper[e].pc = "record"
    BY DEF SpoolTyped
  <2>2. j \in captured /\ keeper[e].evicted[j].state = "kept" /\ place[j] = "spool"
    BY DEF PlanKnows
  <2> QED BY <2>1, <2>2
<1> QED BY <1>1, <1>2, <1>3

\* What it takes for the invariant that daemon d goes on with step i.
LEMMA StepGoesOn ==
    ASSUME SpoolInv, SpoolTyped',
           NEW d \in Daemon, NEW i \in Id, Has(d, i), i \notin captured,
           step'[d].pc # "idle", step'[d].id = i, \A e \in Daemon : e # d => step'[e] = step[e],
           \A j \in Id : j # i => /\ home'[j] = home[j] /\ place'[j] = place[j] /\ lock'[j] = lock[j]
                                  /\ rec'[j] = rec[j] /\ upper'[j] = upper[j]
                                  /\ (j \in captured' <=> j \in captured),
           UNCHANGED <<old, keeper, queues, spoolLock, raced, torn>>,
           home'[i] # "unborn", home'[i] \in Daemon => home'[i] = d, lock'[i] \in Daemon => lock'[i] = d,
           Own(d, i)',
           lock'[i] = d => i \notin captured',
           i \in captured' <=> rec'[i].state \in {"kept", "evicted"},
           rec'[i].due => i \in captured',
           i \in captured' => place'[i] = "spool" /\ upper'[i] = "entry",
           NoSession(i) => NoSession(i)',
           NoEntry(i) => NoEntry(i)' /\ i \notin captured'
    PROVE  SpoolInv'
<1>0. SpoolTyped /\ StepsOwn /\ LocksTell /\ UnbornIsNothing /\ AllCaptured /\ OneKeeper /\ KeeperKnows
  BY DEF SpoolInv
<1>1. \A e \in Daemon, j \in Id : Has(e, j)' <=> Has(e, j)
  BY DEF Has
<1>2. HasAlone(d, i) /\ Apart(i)
  BY <1>0, NotCapturedIsApart DEF StepsOwn
<1>3. \A e \in Daemon : e # d => ~Has(e, i)
  BY <1>2 DEF HasAlone
<1>4. StepsOwn'
  <2> SUFFICES ASSUME NEW e \in Daemon, NEW j \in Id, Has(e, j)
               PROVE  HasAlone(e, j)' /\ Own(e, j)'
    BY <1>1 DEF StepsOwn
  <2>1. HasAlone(e, j) /\ Own(e, j)
    BY <1>0 DEF StepsOwn
  <2>2. HasAlone(e, j)'
    BY <1>1, <2>1 DEF HasAlone, queues
  <2>3. CASE e = d
    <3>1. j = i
      BY <2>3 DEF Has
    <3> QED BY <2>2, <2>3, <3>1
  <2>4. CASE e # d
    <3>1. j # i
      BY <1>3, <2>4
    <3>2. Own(e, j)'
      BY <2>1, <2>4, <3>1 DEF Own
    <3> QED BY <2>2, <3>2
  <2> QED BY <2>3, <2>4
<1>5. LocksTell'
  <2>1. \A j \in Id, e \in Daemon : (lock[j] = e)' => j \notin captured' /\ (j \in disposals'[e] \/ Has(e, j)')
    <3> SUFFICES ASSUME NEW j \in Id, NEW e \in Daemon, lock'[j] = e
                 PROVE  j \notin captured' /\ (j \in disposals[e] \/ Has(e, j))
      BY <1>1 DEF queues
    <3>1. CASE j = i
      BY <3>1
    <3>2. CASE j # i
      BY <1>0, <3>2 DEF LocksTell
    <3> QED BY <3>1, <3>2
  <2>2. \A j \in Id, e \in Daemon :
            j \in disposals'[e] => (lock[j] = e)' /\ home'[j] # "unborn" /\ \A g \in Daemon : ~Has(g, j)'
    <3> SUFFICES ASSUME NEW j \in Id, NEW e \in Daemon, j \in disposals[e]
                 PROVE  lock'[j] = e /\ home'[j] # "unborn" /\ \A g \in Daemon : ~Has(g, j)
      BY <1>1 DEF queues
    <3>1. j # i
      BY <1>2 DEF HasAlone
    <3> QED BY <1>0, <3>1 DEF LocksTell
  <2>3. \A j \in Id, e \in Daemon : (home[j] = e)' => Has(e, j)'
    <3> SUFFICES ASSUME NEW j \in Id, NEW e \in Daemon, home'[j] = e
                 PROVE  Has(e, j)
      BY <1>1
    <3>1. CASE j = i
      BY <3>1
    <3>2. CASE j # i
      BY <1>0, <3>2 DEF LocksTell
    <3> QED BY <3>1, <3>2
  <2> QED BY <2>1, <2>2, <2>3 DEF LocksTell
<1>6. UnbornIsNothing'
  <2> SUFFICES ASSUME NEW j \in Id, home'[j] = "unborn"
               PROVE  place'[j] = "unborn" /\ lock'[j] = "none" /\ j \notin captured' /\ j \notin old /\ j \notin raced
    BY DEF UnbornIsNothing
  <2>1. j # i
    OBVIOUS
  <2> QED BY <1>0, <2>1 DEF UnbornIsNothing
<1>7. AllCaptured'
  <2>1. \A j \in Id : j \in captured' <=> rec'[j].state \in {"kept", "evicted"}
    <3> TAKE j \in Id
    <3> QED BY <1>0 DEF AllCaptured
  <2>2. \A j \in Id : rec'[j].due => j \in captured'
    <3> TAKE j \in Id
    <3>1. CASE j = i
      BY <3>1
    <3>2. CASE j # i
      <4>1. rec'[j] = rec[j] /\ (j \in captured' <=> j \in captured)
        BY <3>2
      <4> QED BY <1>0, <4>1, Zenon DEF AllCaptured
    <3> QED BY <3>1, <3>2
  <2>3. \A j \in captured' \ raced : place'[j] = "spool" \/ rec'[j].due
    <3> TAKE j \in captured' \ raced
    <3>0. j \in Id
      BY DEF SpoolTyped
    <3>1. CASE j = i
      BY <3>1
    <3>2. CASE j # i
      <4>1. rec'[j] = rec[j] /\ place'[j] = place[j] /\ j \in captured \ raced
        BY <3>0, <3>2
      <4> QED BY <1>0, <4>1, Zenon DEF AllCaptured
    <3> QED BY <3>1, <3>2
  <2>4. \A j \in captured' : rec'[j].state = "kept" /\ j \notin torn /\ (\A e \in Daemon : j \notin DOMAIN keeper[e].evicted)
          => upper'[j] = "entry"
    <3> TAKE j \in captured'
    <3>0. j \in Id
      BY DEF SpoolTyped
    <3> QED BY <1>0, <3>0 DEF AllCaptured
  <2> QED BY <2>1, <2>2, <2>3, <2>4 DEF AllCaptured
<1>8. OneKeeper'
  BY <1>0 DEF OneKeeper
<1>9. KeeperKnows'
  <2>1. \A j \in Id : NoSession(j) => NoSession(j)'
    <3> TAKE j \in Id
    <3>1. CASE j # i
      <4>1. \A e \in Daemon : Has(e, j)' => Has(e, j) /\ e # d
        BY <1>1, <3>1 DEF Has
      <4> QED BY <3>1, <4>1 DEF NoSession
    <3> QED BY <3>1
  <2>2. \A j \in Id : NoEntry(j) => NoEntry(j)'
    <3> TAKE j \in Id
    <3>1. CASE j # i
      <4>1. \A e \in Daemon : Has(e, j)' => Has(e, j) /\ e # d
        BY <1>1, <3>1 DEF Has
      <4> QED BY <3>1, <4>1 DEF NoEntry
    <3> QED BY <3>1
  <2> SUFFICES ASSUME NEW e \in Daemon
               PROVE  SweepKnows(e)' /\ ActKnows(e)' /\ PlanKnows(e)'
    BY DEF KeeperKnows
  <2>3. SweepKnows(e) /\ ActKnows(e) /\ PlanKnows(e)
    BY <1>0 DEF KeeperKnows
  <2>4. ASSUME NEW j \in Id
        PROVE  /\ j \in captured' /\ NoEntry(j) => j \in captured
               /\ j \in captured => j \in captured' /\ rec'[j] = rec[j] /\ place'[j] = place[j]
    OBVIOUS
  <2> QED BY <1>0, <2>1, <2>2, <2>3, <2>4, KeeperStays
<1> QED BY <1>4, <1>5, <1>6, <1>7, <1>8, <1>9 DEF SpoolInv
\* What is known of the step a worker has in hand.
InHandOf(d, i) ==
    /\ i = step[d].id /\ Has(d, i) /\ HasAlone(d, i) /\ Own(d, i)
    /\ \A e \in Daemon : Has(e, i) => e = d
    /\ \A e \in Daemon : home[i] = e \/ lock[i] = e => e = d

\* What is known of a step that is not over: nothing of it is captured, and no place is a daemon.
Facts(d, i) ==
    /\ i \notin captured /\ rec[i].state \notin {"kept", "evicted"} /\ ~rec[i].due
    /\ home[i] # "unborn"
    /\ Daemon \cap {"unborn", "bare", "free", "trash", "gone", "none"} = {}

LEMMA InHand ==
    ASSUME SpoolInv, NEW d \in Daemon, step[d].pc # "idle"
    PROVE  \E i \in Id : InHandOf(d, i)
<1>0. SpoolTyped /\ StepsOwn /\ LocksTell
  BY DEF SpoolInv
<1>1. step[d].id \in Id /\ Has(d, step[d].id)
  BY <1>0 DEF SpoolTyped, Has
<1>2. PICK i \in Id : i = step[d].id /\ Has(d, i)
  BY <1>1
<1>3. HasAlone(d, i) /\ Own(d, i)
  BY <1>0, <1>2 DEF StepsOwn
<1>4. \A e \in Daemon : i \notin disposals[e] /\ (Has(e, i) => e = d)
  BY <1>3 DEF HasAlone
<1>5. \A e \in Daemon : home[i] = e \/ lock[i] = e => e = d
  BY <1>0, <1>4 DEF LocksTell
<1> QED BY <1>2, <1>3, <1>4, <1>5 DEF InHandOf

LEMMA FactsInHand ==
    ASSUME SpoolInv, NEW d \in Daemon, NEW i \in Id, InHandOf(d, i), step[d].pc # "over"
    PROVE  Facts(d, i)
<1>1. i \notin captured /\ home[i] # "unborn"
  BY DEF InHandOf, Own, HasAlone
<1>2. rec[i].state \notin {"kept", "evicted"} /\ ~rec[i].due
  BY <1>1 DEF SpoolInv, AllCaptured
<1> QED BY <1>1, <1>2, DaemonsAreNoPlaces DEF Facts


\* How a worker goes on with the step it has in hand.
LEMMA HandMoves ==
    ASSUME SpoolInv, NEW d \in Daemon, NEW i \in Id, InHandOf(d, i),
           NEW pc \in {"file", "open", "over", "made", "unlocked", "held", "runs", "kept"}, Go(d, pc)
    PROVE  /\ step'[d].pc = pc /\ step'[d].id = i /\ step'[d].slot = step[d].slot
           /\ \A e \in Daemon : e # d => step'[e] = step[e]
<1>1. step \in [Daemon -> StepPlace] /\ i = step[d].id /\ pc \in StepPcs
  BY DEF InHandOf, SpoolInv, SpoolTyped, StepPcs
<1> QED BY <1>1, GoMoves

\* MakeSessionFile leaves the invariant.
LEMMA MakeSessionFileKeeps == ASSUME SpoolInv, SpoolTyped', NEW d \in Daemon, MakeSessionFile(d) PROVE SpoolInv'
<1>1. step[d].pc = "bare" /\ Go(d, "file")
  BY DEF MakeSessionFile, At
<1>2. PICK i \in Id : InHandOf(d, i)
  BY <1>1, InHand
<1>3. Facts(d, i)
  BY <1>1, <1>2, FactsInHand
<1>4. step'[d].pc = "file" /\ step'[d].id = i /\ step'[d].slot = step[d].slot /\ \A e \in Daemon : e # d => step'[e] = step[e]
  BY <1>1, <1>2, HandMoves
<1>5. UNCHANGED <<place, lock, rec, upper, captured, old, keeper, queues, spoolLock, raced, torn>>
  BY DEF MakeSessionFile, history
<1>6. home'[i] = "free" /\ \A j \in Id : j # i => home'[j] = home[j]
  BY <1>2 DEF MakeSessionFile, InHandOf, SpoolInv, SpoolTyped
<1>7. Own(d, i)'
  BY <1>1, <1>2, <1>3, <1>4, <1>5, <1>6 DEF Own, Facts, InHandOf
<1>8. (NoSession(i) => NoSession(i)') /\ (NoEntry(i) => NoEntry(i)')
  BY <1>1, <1>2, <1>3, <1>4, <1>5, <1>6 DEF NoSession, NoEntry, Has, Facts, InHandOf
<1>9. /\ home'[i] # "unborn" /\ (home'[i] \in Daemon => home'[i] = d) /\ (lock'[i] \in Daemon => lock'[i] = d)
      /\ i \notin captured' /\ rec'[i] = rec[i]
  BY <1>2, <1>3, <1>5, <1>6 DEF Facts, InHandOf
<1> QED BY <1>1, <1>2, <1>3, <1>4, <1>5, <1>6, <1>7, <1>8, <1>9, StepGoesOn DEF Facts, InHandOf

\* OpenFails leaves the invariant.
LEMMA OpenFailsKeeps == ASSUME SpoolInv, SpoolTyped', NEW d \in Daemon, OpenFails(d) PROVE SpoolInv'
<1>1. step[d].pc \in {"bare", "file", "open"} /\ Go(d, "over")
  BY DEF OpenFails, At
<1>2. PICK i \in Id : InHandOf(d, i)
  BY <1>1, InHand
<1>3. Facts(d, i)
  BY <1>1, <1>2, FactsInHand
<1>4. step'[d].pc = "over" /\ step'[d].id = i /\ step'[d].slot = step[d].slot /\ \A e \in Daemon : e # d => step'[e] = step[e]
  BY <1>1, <1>2, HandMoves
<1>5. UNCHANGED <<place, lock, rec, upper, captured, old, keeper, queues, spoolLock, raced, torn>>
  BY DEF OpenFails, history
<1>6. home'[i] \in {"gone", "trash"} /\ \A j \in Id : j # i => home'[j] = home[j]
  BY <1>2 DEF OpenFails, InHandOf, SpoolInv, SpoolTyped
<1>7. Own(d, i)'
  BY <1>1, <1>2, <1>3, <1>4, <1>5, <1>6 DEF Own, Facts, InHandOf
<1>8. (NoSession(i) => NoSession(i)') /\ (NoEntry(i) => NoEntry(i)')
  BY <1>1, <1>2, <1>3, <1>4, <1>5, <1>6 DEF NoSession, NoEntry, Has, Facts, InHandOf
<1>9. /\ home'[i] # "unborn" /\ (home'[i] \in Daemon => home'[i] = d) /\ (lock'[i] \in Daemon => lock'[i] = d)
      /\ i \notin captured' /\ rec'[i] = rec[i]
  BY <1>2, <1>3, <1>5, <1>6 DEF Facts, InHandOf
<1> QED BY <1>1, <1>2, <1>3, <1>4, <1>5, <1>6, <1>7, <1>8, <1>9, StepGoesOn DEF Facts, InHandOf

\* ReserveFolder leaves the invariant.
LEMMA ReserveFolderKeeps == ASSUME SpoolInv, SpoolTyped', NEW d \in Daemon, ReserveFolder(d) PROVE SpoolInv'
<1>1. step[d].pc = "open" /\ Go(d, "made")
  BY DEF ReserveFolder, At
<1>2. PICK i \in Id : InHandOf(d, i)
  BY <1>1, InHand
<1>3. Facts(d, i)
  BY <1>1, <1>2, FactsInHand
<1>4. step'[d].pc = "made" /\ step'[d].id = i /\ step'[d].slot = step[d].slot /\ \A e \in Daemon : e # d => step'[e] = step[e]
  BY <1>1, <1>2, HandMoves
<1>5. UNCHANGED <<home, lock, rec, upper, captured, old, keeper, queues, spoolLock, raced, torn>>
  BY DEF ReserveFolder, history
<1>6. place'[i] = "spool" /\ \A j \in Id : j # i => place'[j] = place[j]
  BY <1>2 DEF ReserveFolder, InHandOf, SpoolInv, SpoolTyped
<1>7. Own(d, i)'
  BY <1>1, <1>2, <1>3, <1>4, <1>5, <1>6 DEF Own, Facts, InHandOf
<1>8. (NoSession(i) => NoSession(i)') /\ (NoEntry(i) => NoEntry(i)')
  BY <1>1, <1>2, <1>3, <1>4, <1>5, <1>6 DEF NoSession, NoEntry, Has, Facts, InHandOf
<1>9. /\ home'[i] # "unborn" /\ (home'[i] \in Daemon => home'[i] = d) /\ (lock'[i] \in Daemon => lock'[i] = d)
      /\ i \notin captured' /\ rec'[i] = rec[i]
  BY <1>2, <1>3, <1>5, <1>6 DEF Facts, InHandOf
<1> QED BY <1>1, <1>2, <1>3, <1>4, <1>5, <1>6, <1>7, <1>8, <1>9, StepGoesOn DEF Facts, InHandOf

\* ReserveFile leaves the invariant.
LEMMA ReserveFileKeeps == ASSUME SpoolInv, SpoolTyped', NEW d \in Daemon, ReserveFile(d) PROVE SpoolInv'
<1>1. step[d].pc = "made" /\ Go(d, "unlocked")
  BY DEF ReserveFile, At
<1>2. PICK i \in Id : InHandOf(d, i)
  BY <1>1, InHand
<1>3. Facts(d, i)
  BY <1>1, <1>2, FactsInHand
<1>4. step'[d].pc = "unlocked" /\ step'[d].id = i /\ step'[d].slot = step[d].slot /\ \A e \in Daemon : e # d => step'[e] = step[e]
  BY <1>1, <1>2, HandMoves
<1>5. UNCHANGED <<home, place, rec, upper, captured, old, keeper, queues, spoolLock, raced, torn>>
  BY DEF ReserveFile, history
<1>6. lock'[i] = "free" /\ \A j \in Id : j # i => lock'[j] = lock[j]
  BY <1>2 DEF ReserveFile, InHandOf, SpoolInv, SpoolTyped
<1>7. Own(d, i)'
  BY <1>1, <1>2, <1>3, <1>4, <1>5, <1>6 DEF Own, Facts, InHandOf
<1>8. (NoSession(i) => NoSession(i)') /\ (NoEntry(i) => NoEntry(i)')
  BY <1>1, <1>2, <1>3, <1>4, <1>5, <1>6 DEF NoSession, NoEntry, Has, Facts, InHandOf
<1>9. /\ home'[i] # "unborn" /\ (home'[i] \in Daemon => home'[i] = d) /\ (lock'[i] \in Daemon => lock'[i] = d)
      /\ i \notin captured' /\ rec'[i] = rec[i]
  BY <1>2, <1>3, <1>5, <1>6 DEF Facts, InHandOf
<1> QED BY <1>1, <1>2, <1>3, <1>4, <1>5, <1>6, <1>7, <1>8, <1>9, StepGoesOn DEF Facts, InHandOf

\* ReserveHold leaves the invariant.
LEMMA ReserveHoldKeeps == ASSUME SpoolInv, SpoolTyped', NEW d \in Daemon, ReserveHold(d) PROVE SpoolInv'
<1>1. step[d].pc = "unlocked" /\ Go(d, "held")
  BY DEF ReserveHold, At
<1>2. PICK i \in Id : InHandOf(d, i)
  BY <1>1, InHand
<1>3. Facts(d, i)
  BY <1>1, <1>2, FactsInHand
<1>4. step'[d].pc = "held" /\ step'[d].id = i /\ step'[d].slot = step[d].slot /\ \A e \in Daemon : e # d => step'[e] = step[e]
  BY <1>1, <1>2, HandMoves
<1>5. UNCHANGED <<home, place, rec, upper, captured, old, keeper, queues, spoolLock, raced, torn>>
  BY DEF ReserveHold, history
<1>6. lock'[i] = d /\ \A j \in Id : j # i => lock'[j] = lock[j]
  BY <1>2 DEF ReserveHold, InHandOf, SpoolInv, SpoolTyped
<1>7. Own(d, i)'
  BY <1>1, <1>2, <1>3, <1>4, <1>5, <1>6 DEF Own, Facts, InHandOf
<1>8. (NoSession(i) => NoSession(i)') /\ (NoEntry(i) => NoEntry(i)')
  BY <1>1, <1>2, <1>3, <1>4, <1>5, <1>6 DEF NoSession, NoEntry, Has, Facts, InHandOf
<1>9. /\ home'[i] # "unborn" /\ (home'[i] \in Daemon => home'[i] = d) /\ (lock'[i] \in Daemon => lock'[i] = d)
      /\ i \notin captured' /\ rec'[i] = rec[i]
  BY <1>2, <1>3, <1>5, <1>6 DEF Facts, InHandOf
<1> QED BY <1>1, <1>2, <1>3, <1>4, <1>5, <1>6, <1>7, <1>8, <1>9, StepGoesOn DEF Facts, InHandOf

\* ReserveFails leaves the invariant.
LEMMA ReserveFailsKeeps == ASSUME SpoolInv, SpoolTyped', NEW d \in Daemon, ReserveFails(d) PROVE SpoolInv'
<1>1. step[d].pc \in {"made", "unlocked", "held"} /\ Go(d, "runs")
  BY DEF ReserveFails, At
<1>2. PICK i \in Id : InHandOf(d, i)
  BY <1>1, InHand
<1>3. Facts(d, i)
  BY <1>1, <1>2, FactsInHand
<1>4. step'[d].pc = "runs" /\ step'[d].id = i /\ step'[d].slot = step[d].slot /\ \A e \in Daemon : e # d => step'[e] = step[e]
  BY <1>1, <1>2, HandMoves
<1>5. UNCHANGED <<home, rec, upper, captured, old, keeper, queues, spoolLock, raced, torn>>
  BY DEF ReserveFails, history
<1>6. lock'[i] = "none" /\ \A j \in Id : j # i => place'[j] = place[j] /\ lock'[j] = lock[j]
  BY <1>2 DEF ReserveFails, InHandOf, SpoolInv, SpoolTyped
<1>7. Own(d, i)'
  BY <1>1, <1>2, <1>3, <1>4, <1>5, <1>6 DEF Own, Facts, InHandOf
<1>8. (NoSession(i) => NoSession(i)') /\ (NoEntry(i) => NoEntry(i)')
  BY <1>1, <1>2, <1>3, <1>4, <1>5, <1>6 DEF NoSession, NoEntry, Has, Facts, InHandOf
<1>9. /\ home'[i] # "unborn" /\ (home'[i] \in Daemon => home'[i] = d) /\ (lock'[i] \in Daemon => lock'[i] = d)
      /\ i \notin captured' /\ rec'[i] = rec[i]
  BY <1>2, <1>3, <1>5, <1>6 DEF Facts, InHandOf
<1> QED BY <1>1, <1>2, <1>3, <1>4, <1>5, <1>6, <1>7, <1>8, <1>9, StepGoesOn DEF Facts, InHandOf

\* CloseUnkept leaves the invariant.
LEMMA CloseUnkeptKeeps == ASSUME SpoolInv, SpoolTyped', NEW d \in Daemon, CloseUnkept(d) PROVE SpoolInv'
<1>1. step[d].pc = "runs" /\ Go(d, "over")
  BY DEF CloseUnkept, At
<1>2. PICK i \in Id : InHandOf(d, i)
  BY <1>1, InHand
<1>3. Facts(d, i)
  BY <1>1, <1>2, FactsInHand
<1>4. step'[d].pc = "over" /\ step'[d].id = i /\ step'[d].slot = step[d].slot /\ \A e \in Daemon : e # d => step'[e] = step[e]
  BY <1>1, <1>2, HandMoves
<1>5. UNCHANGED <<place, lock, rec, upper, captured, old, keeper, queues, spoolLock, raced, torn>>
  BY DEF CloseUnkept, history
<1>6. home'[i] \in {home[i], "trash"} /\ home'[i] # d /\ \A j \in Id : j # i => home'[j] = home[j]
  BY <1>2, <1>3 DEF CloseUnkept, Facts, Release, Trashed, InHandOf, SpoolInv, SpoolTyped
<1>7. Own(d, i)'
  BY <1>1, <1>2, <1>3, <1>4, <1>5, <1>6 DEF Own, Facts, InHandOf
<1>8. (NoSession(i) => NoSession(i)') /\ (NoEntry(i) => NoEntry(i)')
  BY <1>1, <1>2, <1>3, <1>4, <1>5, <1>6 DEF NoSession, NoEntry, Has, Facts, InHandOf
<1>9. /\ home'[i] # "unborn" /\ (home'[i] \in Daemon => home'[i] = d) /\ (lock'[i] \in Daemon => lock'[i] = d)
      /\ i \notin captured' /\ rec'[i] = rec[i]
  BY <1>2, <1>3, <1>5, <1>6 DEF Facts, InHandOf
<1> QED BY <1>1, <1>2, <1>3, <1>4, <1>5, <1>6, <1>7, <1>8, <1>9, StepGoesOn DEF Facts, InHandOf

\* Abandon leaves the invariant.
LEMMA AbandonKeeps == ASSUME SpoolInv, SpoolTyped', NEW d \in Daemon, Abandon(d) PROVE SpoolInv'
<1>1. step[d].pc = "kept" /\ Go(d, "over")
  BY DEF Abandon, At
<1>2. PICK i \in Id : InHandOf(d, i)
  BY <1>1, InHand
<1>3. Facts(d, i)
  BY <1>1, <1>2, FactsInHand
<1>4. step'[d].pc = "over" /\ step'[d].id = i /\ step'[d].slot = step[d].slot /\ \A e \in Daemon : e # d => step'[e] = step[e]
  BY <1>1, <1>2, HandMoves
<1>5. UNCHANGED <<home, rec, upper, captured, old, keeper, queues, spoolLock, raced, torn>>
  BY DEF Abandon, history
<1>6. lock'[i] = "free" /\ \A j \in Id : j # i => place'[j] = place[j] /\ lock'[j] = lock[j]
  BY <1>2 DEF Abandon, Trashed, InHandOf, SpoolInv, SpoolTyped
<1>7. Own(d, i)'
  BY <1>1, <1>2, <1>3, <1>4, <1>5, <1>6 DEF Own, Facts, InHandOf
<1>8. (NoSession(i) => NoSession(i)') /\ (NoEntry(i) => NoEntry(i)')
  BY <1>1, <1>2, <1>3, <1>4, <1>5, <1>6 DEF NoSession, NoEntry, Has, Facts, InHandOf
<1>9. /\ home'[i] # "unborn" /\ (home'[i] \in Daemon => home'[i] = d) /\ (lock'[i] \in Daemon => lock'[i] = d)
      /\ i \notin captured' /\ rec'[i] = rec[i]
  BY <1>2, <1>3, <1>5, <1>6 DEF Facts, InHandOf
<1> QED BY <1>1, <1>2, <1>3, <1>4, <1>5, <1>6, <1>7, <1>8, <1>9, StepGoesOn DEF Facts, InHandOf
\* HoldSession leaves the invariant.
LEMMA HoldSessionKeeps == ASSUME SpoolInv, SpoolTyped', NEW d \in Daemon, HoldSession(d) PROVE SpoolInv'
<1>1. step[d].pc = "file" /\ \E pc \in {"open", "over"} : Go(d, pc)
  BY DEF HoldSession, At
<1>2. PICK i \in Id : InHandOf(d, i)
  BY <1>1, InHand
<1>3. Facts(d, i)
  BY <1>1, <1>2, FactsInHand
<1>4. /\ step'[d].pc \in {"open", "over"} /\ step'[d].id = i /\ step'[d].slot = step[d].slot
      /\ \A e \in Daemon : e # d => step'[e] = step[e]
  BY <1>1, <1>2, HandMoves
<1>5. UNCHANGED <<place, lock, rec, captured, old, keeper, queues, spoolLock, raced, torn>>
  BY DEF HoldSession, history
<1>6. home'[i] \in {home[i], d} /\ (step'[d].pc = "over" => home'[i] # d) /\ \A j \in Id : j # i => home'[j] = home[j] /\ upper'[j] = upper[j]
  <2>1. home[i] # d
    BY <1>1, <1>2 DEF InHandOf, Own
  <2>2. CASE home[i] = "free"
    <3>1. Go(d, "open") /\ home' = [home EXCEPT ![i] = d] /\ upper' = [upper EXCEPT ![i] = "home"]
      BY <1>2, <2>2 DEF HoldSession, InHandOf
    <3>2. step'[d].pc = "open"
      BY <1>2, <3>1, HandMoves
    <3> QED BY <3>1, <3>2 DEF SpoolInv, SpoolTyped
  <2>3. CASE home[i] # "free"
    BY <1>2, <2>1, <2>3 DEF HoldSession, InHandOf
  <2> QED BY <2>2, <2>3
<1>7. Own(d, i)'
  BY <1>1, <1>2, <1>3, <1>4, <1>5, <1>6 DEF Own, Facts, InHandOf
<1>8. ~NoSession(i) /\ ~NoEntry(i)
  BY <1>1, <1>2 DEF NoSession, NoEntry, InHandOf
<1>9. /\ home'[i] # "unborn" /\ (home'[i] \in Daemon => home'[i] = d) /\ (lock'[i] \in Daemon => lock'[i] = d)
      /\ i \notin captured' /\ rec'[i] = rec[i]
  BY <1>2, <1>3, <1>5, <1>6 DEF Facts, InHandOf
<1> QED BY <1>1, <1>2, <1>3, <1>4, <1>5, <1>6, <1>7, <1>8, <1>9, StepGoesOn DEF Facts, InHandOf

\* ReserveRecord leaves the invariant.
LEMMA ReserveRecordKeeps == ASSUME SpoolInv, SpoolTyped', NEW d \in Daemon, ReserveRecord(d) PROVE SpoolInv'
<1>1. step[d].pc = "held" /\ step' = [step EXCEPT ![d].pc = "runs", ![d].slot = TRUE]
  BY DEF ReserveRecord, At
<1>2. PICK i \in Id : InHandOf(d, i)
  BY <1>1, InHand
<1>3. Facts(d, i) /\ lock[i] = d
  BY <1>1, <1>2, FactsInHand DEF InHandOf, Own
<1>4. step'[d].pc = "runs" /\ step'[d].slot /\ step'[d].id = i /\ \A e \in Daemon : e # d => step'[e] = step[e]
  BY <1>1, <1>2 DEF InHandOf, SpoolInv, SpoolTyped, StepPlace
<1>5. UNCHANGED <<home, place, lock, upper, captured, old, keeper, queues, spoolLock, raced, torn>>
  BY DEF ReserveRecord, history
<1>6. rec'[i] = Reserved /\ \A j \in Id : j # i => rec'[j] = rec[j]
  BY <1>2 DEF ReserveRecord, InHandOf, SpoolInv, SpoolTyped
<1>7. Own(d, i)'
  BY <1>2, <1>3, <1>4, <1>5 DEF Own, Facts, InHandOf
<1>8. Has(d, i)' /\ ~NoEntry(i) /\ (NoSession(i) => NoSession(i)')
  BY <1>2, <1>3, <1>4, <1>5 DEF NoSession, NoEntry, Has, InHandOf
<1>9. /\ home'[i] # "unborn" /\ (home'[i] \in Daemon => home'[i] = d) /\ (lock'[i] \in Daemon => lock'[i] = d)
      /\ i \notin captured'
  BY <1>2, <1>3, <1>5 DEF Facts, InHandOf
<1>10. rec'[i].state \notin {"kept", "evicted"} /\ ~rec'[i].due
  BY <1>6 DEF Reserved, NoRecord
<1> QED BY <1>1, <1>2, <1>3, <1>4, <1>5, <1>6, <1>7, <1>8, <1>9, <1>10, StepGoesOn DEF Facts, InHandOf

\* CloseKeeping leaves the invariant.
LEMMA CloseKeepingKeeps == ASSUME SpoolInv, SpoolTyped', NEW d \in Daemon, CloseKeeping(d) PROVE SpoolInv'
<1>1. step[d].pc = "runs" /\ step[d].slot /\ \E pc \in {"kept", "over"} : Go(d, pc)
  BY DEF CloseKeeping, At
<1>2. PICK i \in Id : InHandOf(d, i)
  BY <1>1, InHand
<1>3. Facts(d, i) /\ lock[i] = d
  BY <1>1, <1>2, FactsInHand DEF InHandOf, Own
<1>4. /\ step'[d].pc \in {"kept", "over"} /\ step'[d].id = i /\ step'[d].slot = step[d].slot
      /\ \A e \in Daemon : e # d => step'[e] = step[e]
  BY <1>1, <1>2, HandMoves
<1>5. UNCHANGED <<place, lock, rec, captured, old, keeper, queues, spoolLock, raced, torn>>
  BY DEF CloseKeeping, history
<1>6. /\ home'[i] \in {home[i], "trash"} /\ \A j \in Id : j # i => home'[j] = home[j] /\ upper'[j] = upper[j]
      /\ home'[i] # d /\ (step'[d].pc = "kept" => upper'[i] = "entry")
  <2>1. home' = [home EXCEPT ![i] = Trashed(@, d)]
    BY <1>2 DEF CloseKeeping, Release, InHandOf
  <2>2. CASE home[i] = d /\ place[i] = "spool"
    <3>1. upper' = [upper EXCEPT ![i] = "entry"]
      BY <1>2, <2>2 DEF CloseKeeping, InHandOf
    <3> QED BY <1>3, <2>1, <3>1 DEF Facts, SpoolInv, SpoolTyped, Trashed
  <2>3. CASE ~(home[i] = d /\ place[i] = "spool")
    <3>1. upper' = upper /\ Go(d, "over")
      BY <1>2, <2>3 DEF CloseKeeping, InHandOf
    <3>2. step'[d].pc = "over"
      BY <1>2, <3>1, HandMoves
    <3> QED BY <1>3, <2>1, <3>1, <3>2 DEF Facts, SpoolInv, SpoolTyped, Trashed
  <2> QED BY <2>2, <2>3
<1>7. Own(d, i)'
  BY <1>1, <1>2, <1>3, <1>4, <1>5, <1>6 DEF Own, Facts, InHandOf
<1>8. Has(d, i)' /\ ~NoEntry(i) /\ (NoSession(i) => NoSession(i)')
  BY <1>2, <1>3, <1>4, <1>5, <1>6 DEF NoSession, NoEntry, Has, Facts, InHandOf
<1>9. /\ home'[i] # "unborn" /\ (home'[i] \in Daemon => home'[i] = d) /\ (lock'[i] \in Daemon => lock'[i] = d)
      /\ i \notin captured' /\ rec'[i] = rec[i]
  BY <1>2, <1>3, <1>5, <1>6 DEF Facts, InHandOf
<1> QED BY <1>1, <1>2, <1>3, <1>4, <1>5, <1>6, <1>7, <1>8, <1>9, StepGoesOn DEF Facts, InHandOf

\* Commit leaves the invariant.
LEMMA CommitKeeps == ASSUME SpoolInv, SpoolTyped', NEW d \in Daemon, Commit(d) PROVE SpoolInv'
<1>1. step[d].pc = "kept" /\ Go(d, "over")
  BY DEF Commit, At
<1>2. PICK i \in Id : InHandOf(d, i)
  BY <1>1, InHand
<1>3. Facts(d, i) /\ lock[i] = d /\ upper[i] = "entry"
  BY <1>1, <1>2, FactsInHand DEF InHandOf, Own
<1>4. /\ step'[d].pc = "over" /\ step'[d].id = i /\ step'[d].slot = step[d].slot
      /\ \A e \in Daemon : e # d => step'[e] = step[e]
  BY <1>1, <1>2, HandMoves
<1>5. UNCHANGED <<home, place, upper, old, keeper, queues, spoolLock, raced, torn>>
  BY DEF Commit
<1>6. /\ place[i] = "spool" /\ lock'[i] = "free" /\ rec'[i] = Kept /\ captured' = captured \cup {i}
      /\ \A j \in Id : j # i => lock'[j] = lock[j] /\ rec'[j] = rec[j]
  BY <1>2 DEF Commit, InHandOf, SpoolInv, SpoolTyped
<1>7. Own(d, i)'
  BY <1>1, <1>2, <1>3, <1>4, <1>5, <1>6 DEF Own, Facts, InHandOf
<1>8. Has(d, i)' /\ ~NoEntry(i) /\ (NoSession(i) => NoSession(i)')
  BY <1>2, <1>3, <1>4, <1>5 DEF NoSession, NoEntry, Has, InHandOf
<1>9. /\ home'[i] # "unborn" /\ (home'[i] \in Daemon => home'[i] = d) /\ lock'[i] \notin Daemon
  BY <1>2, <1>3, <1>5, <1>6 DEF Facts, InHandOf
<1>10. rec'[i].state = "kept" /\ ~rec'[i].due
  BY <1>6 DEF Kept, NoRecord
<1> QED BY <1>1, <1>2, <1>3, <1>4, <1>5, <1>6, <1>7, <1>8, <1>9, <1>10, StepGoesOn DEF Facts, InHandOf
-----------------------------------------------------------------------------
(* Keepers.                                                                *)

\* What a keeper needs of a captured step to stay: it is as due, as much in the spool and as kept as before.
Undisturbed(j) ==
    /\ rec[j].due => rec'[j].due
    /\ place[j] = "spool" => place'[j] = "spool"
    /\ rec[j].state = "kept" => rec'[j].state = "kept"

\* No step between folder and lock file.
NotBare(j) == home[j] # "unborn" /\ \A e \in Daemon : Has(e, j) => step[e].pc # "bare"

\* What it takes for the invariant that no worker moves, when locks and what is captured stay.
LEMMA SpoolStays ==
    ASSUME SpoolInv, SpoolTyped', UNCHANGED <<step, lock, disposals, captured, torn>>,
           raced \subseteq raced',
           \A j \in Id : home'[j] = home[j] \/ (home'[j] \notin Daemon \cup {"unborn"} /\ NotBare(j)),
           \A j \in Id : j \in raced' => j \in raced \/ NotBare(j),
           \A j \in Id : j \in old' => j \in old \/ (home[j] # "unborn" /\ \A e \in Daemon : ~Has(e, j)),
           \A j \in Id : place'[j] = place[j] \/ place[j] # "unborn",
           \A j \in Id : rec'[j].state \in {"kept", "evicted"} <=> rec[j].state \in {"kept", "evicted"},
           \A j \in Id : rec'[j].due => j \in captured,
           \A j \in captured \ raced' : place'[j] = "spool" \/ rec'[j].due,
           \A j \in Id \ captured : upper[j] = "entry" => upper'[j] = "entry",
           \A j \in captured : rec'[j].state = "kept" /\ j \notin torn /\ (\A e \in Daemon : j \notin DOMAIN keeper'[e].evicted)
               => upper'[j] = "entry",
           OneKeeper',
           \A e \in Daemon : \/ /\ keeper'[e] = keeper[e]
                                /\ keeper[e].pc \in {"act", "record"} => \A j \in captured : Undisturbed(j)
                             \/ SweepKnows(e)' /\ ActKnows(e)' /\ PlanKnows(e)'
    PROVE  SpoolInv'
<1>0. SpoolTyped /\ StepsOwn /\ LocksTell /\ UnbornIsNothing /\ AllCaptured /\ OneKeeper /\ KeeperKnows
  BY DEF SpoolInv
<1>1. \A e \in Daemon, j \in Id : Has(e, j)' <=> Has(e, j)
  BY DEF Has
<1>2. StepsOwn'
  <2> SUFFICES ASSUME NEW e \in Daemon, NEW j \in Id, Has(e, j)
               PROVE  HasAlone(e, j)' /\ Own(e, j)'
    BY <1>1 DEF StepsOwn
  <2>1. HasAlone(e, j) /\ Own(e, j)
    BY <1>0 DEF StepsOwn
  <2>2. HasAlone(e, j)'
    BY <1>1, <2>1 DEF HasAlone
  <2>3. Own(e, j)'
    <3>1. /\ home'[j] = home[j] \/ (home'[j] \notin Daemon /\ step[e].pc # "bare")
          /\ j \in raced' => j \in raced \/ step[e].pc # "bare"
          /\ j \notin captured /\ upper[j] = "entry" => upper'[j] = "entry"
      BY DEF NotBare
    <3> QED BY <2>1, <3>1 DEF Own
  <2> QED BY <2>2, <2>3
<1>3. LocksTell'
  <2>1. \A j \in Id : home'[j] = home[j] \/ home'[j] \notin Daemon \cup {"unborn"}
    OBVIOUS
  <2> QED BY <1>0, <1>1, <2>1 DEF LocksTell
<1>4. UnbornIsNothing'
  <2> SUFFICES ASSUME NEW j \in Id, home'[j] = "unborn"
               PROVE  place'[j] = "unborn" /\ lock'[j] = "none" /\ j \notin captured' /\ j \notin old' /\ j \notin raced'
    BY DEF UnbornIsNothing
  <2>1. home[j] = "unborn"
    OBVIOUS
  <2>2. place[j] = "unborn" /\ lock[j] = "none" /\ j \notin captured /\ j \notin old /\ j \notin raced
    BY <1>0, <2>1 DEF UnbornIsNothing
  <2> QED BY <2>1, <2>2 DEF NotBare
<1>5. AllCaptured'
  <2>1. \A j \in Id : j \in captured' <=> rec'[j].state \in {"kept", "evicted"}
    BY <1>0 DEF AllCaptured
  <2> QED BY <2>1 DEF AllCaptured
<1>6. KeeperKnows'
  <2>1. \A j \in Id : NoSession(j) => NoSession(j)'
    BY <1>1 DEF NoSession
  <2>2. \A j \in Id : NoEntry(j) => NoEntry(j)'
    BY <1>1 DEF NoEntry
  <2> SUFFICES ASSUME NEW e \in Daemon
               PROVE  SweepKnows(e)' /\ ActKnows(e)' /\ PlanKnows(e)'
    BY DEF KeeperKnows
  <2>3. SweepKnows(e) /\ ActKnows(e) /\ PlanKnows(e)
    BY <1>0 DEF KeeperKnows
  <2>4. ASSUME keeper'[e] = keeper[e], keeper[e].pc \in {"act", "record"} => \A j \in captured : Undisturbed(j)
        PROVE  SweepKnows(e)' /\ ActKnows(e)' /\ PlanKnows(e)'
    BY <1>0, <2>1, <2>2, <2>3, <2>4, KeeperStays DEF Undisturbed
  <2> QED BY <2>4
<1> QED BY <1>2, <1>3, <1>4, <1>5, <1>6 DEF SpoolInv
\* Of a keeper that has nothing in hand there is nothing to know.
LEMMA EmptyHanded ==
    ASSUME NEW d \in Daemon, keeper'[d].pc \notin {"swept", "act"}, DOMAIN keeper'[d].evicted = {}
    PROVE  SweepKnows(d)' /\ ActKnows(d)' /\ PlanKnows(d)'
<1> QED BY DEF SweepKnows, ActKnows, PlanKnows

\* Nobody else is going through the spool while this one holds its lock, and nobody is while nobody does.
LEMMA Alone ==
    ASSUME SpoolInv
    PROVE  /\ \A d, e \in Daemon : spoolLock = d /\ e # d => keeper[e].pc \notin {"look", "act", "record"}
           /\ spoolLock = NoOne => \A e \in Daemon : keeper[e].pc \notin {"look", "act", "record"}
<1>1. NoOne \notin Daemon
  BY DaemonsAreNoPlaces DEF NoOne
<1> QED BY <1>1 DEF SpoolInv, OneKeeper

\* The clauses of AllCaptured, and the types, that the cases below start from.
LEMMA Clauses ==
    ASSUME SpoolInv
    PROVE  /\ \A j \in Id : rec[j].due => j \in captured
           /\ \A j \in captured \ raced : place[j] = "spool" \/ rec[j].due
           /\ \A j \in captured : rec[j].state = "kept" /\ j \notin torn /\ (\A e \in Daemon : j \notin DOMAIN keeper[e].evicted)
                 => upper[j] = "entry"
           /\ \A j \in Id : j \in captured <=> rec[j].state \in {"kept", "evicted"}
           /\ captured \subseteq Id /\ raced \subseteq Id
<1> QED BY DEF SpoolInv, AllCaptured, SpoolTyped

\* SweepLook leaves the invariant.
LEMMA SweepLookKeeps == ASSUME SpoolInv, SpoolTyped', NEW d \in Daemon, SweepLook(d) PROVE SpoolInv'
<1> DEFINE orphans == {i \in Id : Orphaned(i)}
<1>0. SpoolTyped /\ StepsOwn /\ OneKeeper
  BY DEF SpoolInv
<1>1. /\ keeper[d].pc = "off" /\ raced' = raced \cup {i \in orphans : InWindow(i, "file")}
      /\ UNCHANGED <<home, place, lock, rec, upper, old, step, disposals, spoolLock, captured, torn>>
  BY DEF SweepLook, KeeperAt, files, queues
<1>2. /\ keeper'[d].pc = "swept" /\ keeper'[d].todo = orphans /\ DOMAIN keeper'[d].evicted = {}
      /\ \A e \in Daemon : e # d => keeper'[e] = keeper[e]
  <2> HIDE DEF orphans
  <2>1. keeper' = [keeper EXCEPT ![d] = [pc |-> "swept", todo |-> orphans, found |-> NoFinding, sizes |-> {}, evicted |-> <<>>]]
    BY KeeperFields DEF SweepLook, orphans
  <2> QED BY <1>0, <2>1 DEF SpoolTyped
<1>3. \A i \in orphans : home[i] \in {"free", "bare"} /\ (home[i] = "bare" => i \in old)
  BY DEF Orphaned
<1>4. ASSUME NEW i \in orphans, NEW e \in Daemon, Has(e, i)
      PROVE  step[e].pc # "bare"
  BY <1>0, <1>3, <1>4 DEF StepsOwn, HasAlone, Own
<1>5. ASSUME NEW i \in orphans, i \notin raced'
      PROVE  NoSession(i)'
  <2>1. \A e \in Daemon : Has(e, i) => step[e].pc \notin {"bare", "file"}
    BY <1>1, <1>4, <1>5 DEF InWindow, Has
  <2> QED BY <1>1, <1>3, <2>1, DaemonsAreNoPlaces DEF NoSession, Has
<1>6. SweepKnows(d)' /\ ActKnows(d)' /\ PlanKnows(d)'
  <2> HIDE DEF orphans
  <2> QED BY <1>2, <1>5 DEF SweepKnows, ActKnows, PlanKnows
<1>7. \A j \in Id : j \in raced' => j \in raced \/ NotBare(j)
  <2> SUFFICES ASSUME NEW j \in orphans
               PROVE  NotBare(j)
    BY <1>1
  <2> QED BY <1>3, <1>4 DEF NotBare
<1>8. OneKeeper'
  BY <1>0, <1>1, <1>2 DEF OneKeeper
<1>9. \A j \in captured : DOMAIN keeper'[d].evicted = {} /\ DOMAIN keeper[d].evicted = {}
  BY <1>0, <1>1, <1>2 DEF SpoolTyped
<1>10. \A j \in captured : (\A e \in Daemon : j \notin DOMAIN keeper'[e].evicted) => \A e \in Daemon : j \notin DOMAIN keeper[e].evicted
  BY <1>2, <1>9
<1>11. \A j \in captured : Undisturbed(j)
  BY <1>1 DEF Undisturbed
<1>12. \A j \in captured \ raced' : place'[j] = "spool" \/ rec'[j].due
  BY <1>1, Clauses, Zenon
<1> QED BY <1>1, <1>2, <1>6, <1>7, <1>8, <1>10, <1>11, <1>12, Clauses, SpoolStays

\* SweepMove leaves the invariant.
LEMMA SweepMoveKeeps == ASSUME SpoolInv, SpoolTyped', NEW d \in Daemon, SweepMove(d) PROVE SpoolInv'
<1>0. SpoolTyped /\ StepsOwn /\ OneKeeper /\ KeeperKnows /\ UnbornIsNothing
  BY DEF SpoolInv
<1>1. /\ keeper[d].pc = "swept" /\ Keep(d, "start")
      /\ home' = [i \in Id |-> IF i \in keeper[d].todo /\ home[i] # "gone" THEN "trash" ELSE home[i]]
      /\ UNCHANGED <<place, lock, rec, upper, old, step, disposals, spoolLock, captured, raced, torn>>
  BY DEF SweepMove, KeeperAt, queues, history
<1>2. /\ keeper'[d].pc = "start" /\ DOMAIN keeper'[d].evicted = {} /\ DOMAIN keeper[d].evicted = {}
      /\ \A e \in Daemon : e # d => keeper'[e] = keeper[e]
  BY <1>0, <1>1, KeepMoves DEF SpoolTyped, KeeperPcs
<1>3. SweepKnows(d)' /\ ActKnows(d)' /\ PlanKnows(d)'
  BY <1>2, EmptyHanded
<1>4. ASSUME NEW j \in Id, home'[j] # home[j]
      PROVE  home'[j] \notin Daemon \cup {"unborn"} /\ NotBare(j)
  <2>1. j \in keeper[d].todo /\ home'[j] = "trash"
    BY <1>1, <1>4
  <2>2. j \in raced \/ NoSession(j)
    BY <1>0, <1>1, <2>1 DEF KeeperKnows, SweepKnows
  <2>3. CASE j \in raced
    BY <1>0, <2>1, <2>3, DaemonsAreNoPlaces DEF NotBare, UnbornIsNothing, StepsOwn, Own
  <2>4. CASE NoSession(j)
    BY <2>1, <2>4, DaemonsAreNoPlaces DEF NotBare, NoSession
  <2> QED BY <2>2, <2>3, <2>4
<1>5. OneKeeper'
  BY <1>0, <1>1, <1>2 DEF OneKeeper
<1>6. \A j \in captured : (\A e \in Daemon : j \notin DOMAIN keeper'[e].evicted) => \A e \in Daemon : j \notin DOMAIN keeper[e].evicted
  BY <1>2
<1>7. \A j \in captured : Undisturbed(j)
  BY <1>1 DEF Undisturbed
<1>8. \A j \in captured \ raced' : place'[j] = "spool" \/ rec'[j].due
  BY <1>1, Clauses, Zenon
<1> QED BY <1>1, <1>2, <1>3, <1>4, <1>5, <1>6, <1>7, <1>8, Clauses, SpoolStays
\* Reconcile leaves the invariant.
LEMMA ReconcileKeeps == ASSUME SpoolInv, SpoolTyped', NEW d \in Daemon, Reconcile(d) \/ Reconciled(d) PROVE SpoolInv'
<1>0. SpoolTyped /\ OneKeeper
  BY DEF SpoolInv
<1>1. UNCHANGED <<home, place, lock, rec, upper, old, step, disposals, captured, raced, torn>>
  BY DEF Reconcile, Reconciled, files, queues, history
<1>2. /\ keeper'[d].pc \in {"look", "pass"} /\ DOMAIN keeper'[d].evicted = {} /\ DOMAIN keeper[d].evicted = {}
      /\ \A e \in Daemon : e # d => keeper'[e] = keeper[e]
      /\ OneKeeper'
  <2>1. CASE Reconcile(d)
    <3> DEFINE T == {i \in Id : place[i] = "spool"}
    <3>1. keeper[d].pc = "start" /\ spoolLock = NoOne /\ spoolLock' = d
      BY <2>1 DEF Reconcile, KeeperAt
    <3> HIDE DEF T
    <3>2. keeper' = [keeper EXCEPT ![d] = [pc |-> "look", todo |-> T, found |-> NoFinding, sizes |-> {}, evicted |-> <<>>]]
      BY <2>1, KeeperFields DEF Reconcile, T
    <3>3. /\ keeper'[d].pc = "look" /\ DOMAIN keeper'[d].evicted = {} /\ DOMAIN keeper[d].evicted = {}
          /\ \A e \in Daemon : e # d => keeper'[e] = keeper[e]
      BY <1>0, <3>1, <3>2 DEF SpoolTyped
    <3>4. OneKeeper'
      BY <3>1, <3>3, Alone DEF OneKeeper
    <3> QED BY <3>3, <3>4
  <2>2. CASE Reconciled(d)
    <3>1. keeper[d].pc = "look" /\ spoolLock' = NoOne /\ Keep(d, "pass")
      BY <2>2 DEF Reconciled, KeeperAt
    <3>2. /\ keeper'[d].pc = "pass" /\ DOMAIN keeper'[d].evicted = {} /\ DOMAIN keeper[d].evicted = {}
          /\ \A e \in Daemon : e # d => keeper'[e] = keeper[e]
      BY <1>0, <3>1, KeepMoves DEF SpoolTyped, KeeperPcs
    <3>3. spoolLock = d /\ NoOne \notin Daemon
      BY <1>0, <3>1, DaemonsAreNoPlaces DEF OneKeeper, NoOne
    <3>4. OneKeeper'
      BY <3>1, <3>2, <3>3, Alone DEF OneKeeper
    <3> QED BY <3>2, <3>4
  <2> QED BY <2>1, <2>2
<1>3. SweepKnows(d)' /\ ActKnows(d)' /\ PlanKnows(d)'
  BY <1>2, EmptyHanded
<1>4. \A j \in captured : (\A e \in Daemon : j \notin DOMAIN keeper'[e].evicted) => \A e \in Daemon : j \notin DOMAIN keeper[e].evicted
  BY <1>2
<1>5. \A j \in captured : Undisturbed(j)
  BY <1>1 DEF Undisturbed
<1>6. \A j \in captured \ raced' : place'[j] = "spool" \/ rec'[j].due
  BY <1>1, Clauses, Zenon
<1> QED BY <1>1, <1>2, <1>3, <1>4, <1>5, <1>6, Clauses, SpoolStays

\* What a keeper finds of an entry it is to move, or to mark.
LEMMA WhatIsFound ==
    ASSUME NEW i \in Id
    PROVE  /\ PlanReconcile(Finding(i)) = "trash" =>
                 /\ lock[i] = "free" \/ (lock[i] = "none" /\ i \in old)
                 /\ rec[i].state \in {"none", "reserved"} \/ rec[i].due
           /\ PlanReconcile(Finding(i)) = "mark" => rec[i].state = "kept"
<1>1. /\ Finding(i).lockFile <=> lock[i] # "none"
      /\ Finding(i).lockFree <=> lock[i] = "free"
      /\ Finding(i).old <=> i \in old
      /\ Finding(i).due = rec[i].due /\ Finding(i).state = rec[i].state
  BY DEF Finding
<1> DEFINE f == Finding(i)
           Stays == (~f.lockFile /\ ~f.old) \/ (f.lockFile /\ ~f.lockFree)
           Goes == f.state \in {"none", "reserved"} \/ f.due
<1>2. /\ PlanReconcile(f) = "trash" => ~Stays /\ Goes
      /\ PlanReconcile(f) = "mark" => f.state = "kept"
  BY DEF PlanReconcile
<1>3. ~Stays => lock[i] = "free" \/ (lock[i] = "none" /\ i \in old)
  BY <1>1
<1>4. Goes => rec[i].state \in {"none", "reserved"} \/ rec[i].due
  <2> HIDE DEF f
  <2>1. f.due = rec[i].due /\ f.state = rec[i].state
    BY <1>1 DEF f
  <2> QED BY <2>1, Zenon
<1> QED BY <1>1, <1>2, <1>3, <1>4, Zenon
\* Look leaves the invariant.
LEMMA LookKeeps == ASSUME SpoolInv, SpoolTyped', NEW d \in Daemon, Look(d) PROVE SpoolInv'
<1>0. SpoolTyped /\ StepsOwn /\ OneKeeper /\ UnbornIsNothing
  BY DEF SpoolInv
<1>1. keeper[d].pc = "look" /\ UNCHANGED <<home, place, lock, rec, upper, old, step, disposals, spoolLock, captured, torn>>
  BY DEF Look, KeeperAt, files, queues
<1> DEFINE v(i) == IF place[i] = "spool" THEN PlanReconcile(Finding(i)) ELSE "leave"
           Looked(i) ==
              /\ keeper' = [keeper EXCEPT ![d].pc = IF v(i) = "leave" THEN "look" ELSE "act",
                                          ![d].todo = @ \ {i},
                                          ![d].found = IF v(i) = "leave" THEN NoFinding
                                                       ELSE [id |-> i, verdict |-> v(i), rec |-> rec[i]]]
              /\ raced' = IF v(i) = "trash" /\ InWindow(i, "unlocked") THEN raced \cup {i} ELSE raced
<1>2. PICK i \in keeper[d].todo : Looked(i)
  BY DEF Look
<1>3. i \in Id
  BY <1>0, KeepersRecords
<1>4. v(i) \in {"leave", "trash", "mark"} /\ (v(i) # "leave" => v(i) = PlanReconcile(Finding(i)) /\ place[i] = "spool")
  BY <1>3, Verdicts
<1>5. (v(i) # "leave" => home[i] # "unborn") /\ (place[i] = "spool" => home[i] # "unborn")
  BY <1>0, <1>3, <1>4 DEF UnbornIsNothing
<1> HIDE DEF v
<1>6. /\ keeper'[d].pc = (IF v(i) = "leave" THEN "look" ELSE "act") /\ keeper'[d].evicted = keeper[d].evicted
      /\ v(i) # "leave" => keeper'[d].found = [id |-> i, verdict |-> v(i), rec |-> rec[i]]
      /\ \A e \in Daemon : e # d => keeper'[e] = keeper[e]
  BY <1>0, <1>2 DEF SpoolTyped, KeeperPlace
<1>7. raced' \in {raced, raced \cup {i}} /\ (v(i) = "trash" /\ InWindow(i, "unlocked") => i \in raced')
      /\ (raced' # raced => v(i) = "trash" /\ InWindow(i, "unlocked"))
  BY <1>2
<1>8. NotBare(i) \/ raced' = raced
  <2> SUFFICES ASSUME v(i) = "trash", InWindow(i, "unlocked")
               PROVE  NotBare(i)
    BY <1>7
  <2>1. PICK e \in Daemon : step[e].id = i /\ step[e].pc = "unlocked"
    BY DEF InWindow
  <2>2. \A g \in Daemon : Has(g, i) => g = e
    BY <1>0, <1>3, <2>1 DEF StepsOwn, HasAlone, Has
  <2> QED BY <1>5, <2>1, <2>2 DEF NotBare
<1>9. ASSUME v(i) = "trash", i \notin raced'
      PROVE  NoEntry(i) /\ (i \in captured => rec[i].due)
  <2>1. /\ lock[i] = "free" \/ (lock[i] = "none" /\ i \in old)
        /\ rec[i].state \in {"none", "reserved"} \/ rec[i].due
    BY <1>3, <1>4, <1>9, WhatIsFound
  <2>2. lock[i] \notin Daemon
    BY <2>1, DaemonsAreNoPlaces
  <2>3. ASSUME NEW e \in Daemon, Has(e, i)
        PROVE  step[e].pc \notin {"bare", "file", "open", "made", "unlocked"}
    <3>1. i \notin old /\ (step[e].pc \in {"bare", "file", "open", "made"} => lock[i] = "none")
      BY <1>0, <1>3, <2>3 DEF StepsOwn, HasAlone, Own
    <3>2. lock[i] = "free"
      BY <2>1, <3>1
    <3>3. step[e].pc # "unlocked"
      BY <1>7, <1>9, <2>3 DEF InWindow, Has
    <3> QED BY <3>1, <3>2, <3>3
  <2>4. i \in captured => rec[i].due
    BY <1>3, <2>1, Clauses
  <2> QED BY <1>5, <1>9, <2>2, <2>3, <2>4 DEF NoEntry
<1>10. ActKnows(d)'
  <2> SUFFICES ASSUME v(i) # "leave"
               PROVE  /\ v(i) = "trash" => i \in raced' \/ (NoEntry(i)' /\ (i \in captured' => rec'[i].due))
                      /\ v(i) = "mark" => i \in captured' /\ place'[i] = "spool" /\ rec[i].state = "kept" /\ rec'[i].state = "kept"
    BY <1>6 DEF ActKnows
  <2>1. NoEntry(i) => NoEntry(i)'
    BY <1>1 DEF NoEntry, Has
  <2>2. ASSUME v(i) = "trash", i \notin raced'
        PROVE  NoEntry(i)' /\ (i \in captured' => rec'[i].due)
    <3>1. NoEntry(i) /\ (i \in captured => rec[i].due) /\ rec' = rec /\ captured' = captured
      BY <1>1, <1>9, <2>2
    <3> QED BY <2>1, <3>1, Zenon
  <2>3. v(i) = "mark" => rec[i].state = "kept" /\ i \in captured /\ place[i] = "spool"
    BY <1>3, <1>4, WhatIsFound, Clauses
  <2> QED BY <1>1, <2>2, <2>3, Zenon
<1>11. SweepKnows(d)' /\ PlanKnows(d)' /\ DOMAIN keeper'[d].evicted = {} /\ DOMAIN keeper[d].evicted = {}
  BY <1>0, <1>1, <1>6 DEF SweepKnows, PlanKnows, SpoolTyped
<1>12. OneKeeper'
  BY <1>0, <1>1, <1>6 DEF OneKeeper
<1>13. \A j \in captured : (\A e \in Daemon : j \notin DOMAIN keeper'[e].evicted) => \A e \in Daemon : j \notin DOMAIN keeper[e].evicted
  BY <1>6, <1>11
<1>14. \A j \in captured : Undisturbed(j)
  BY <1>1 DEF Undisturbed
<1>15. raced \subseteq raced' /\ \A j \in Id : j \in raced' => j \in raced \/ NotBare(j)
  BY <1>7, <1>8
<1>16. \A j \in captured \ raced' : place'[j] = "spool" \/ rec'[j].due
  BY <1>1, <1>15, Clauses, Zenon
<1> QED BY <1>1, <1>6, <1>10, <1>11, <1>12, <1>13, <1>14, <1>15, <1>16, Clauses, SpoolStays

\* Act leaves the invariant.
LEMMA ActKeeps == ASSUME SpoolInv, SpoolTyped', NEW d \in Daemon, Act(d) PROVE SpoolInv'
<1>0. SpoolTyped /\ OneKeeper /\ KeeperKnows /\ UnbornIsNothing
  BY DEF SpoolInv
<1>1. /\ keeper[d].pc = "act"
      /\ UNCHANGED <<home, lock, upper, old, step, disposals, spoolLock, captured, raced, torn>>
  BY DEF Act, KeeperAt, files, queues, history
<1>2. PICK i \in Id : i = keeper[d].found.id
  BY <1>0, <1>1, KeepersRecords
<1> DEFINE f == keeper[d].found
<1>3. /\ place' = [place EXCEPT ![i] = IF f.verdict = "trash" THEN Trashed(@, "spool") ELSE @]
      /\ rec' = [rec EXCEPT ![i] = IF f.verdict = "mark" THEN [f.rec EXCEPT !.report = "unknown"] ELSE @]
      /\ keeper' = [keeper EXCEPT ![d].pc = "look", ![d].found = NoFinding]
  BY <1>2 DEF Act
<1>4. /\ f.verdict = "trash" => i \in raced \/ (i \in captured => rec[i].due)
      /\ f.verdict = "mark" => i \in captured /\ place[i] = "spool" /\ f.rec.state = "kept" /\ rec[i].state = "kept"
      /\ f.rec \in Record /\ f.verdict \in {"trash", "mark"}
  <2>1. ActKnows(d)
    BY <1>0 DEF KeeperKnows
  <2>2. /\ f.verdict = "trash" => i \in raced \/ (i \in captured => rec[i].due)
        /\ f.verdict = "mark" => i \in captured /\ place[i] = "spool" /\ f.rec.state = "kept" /\ rec[i].state = "kept"
    BY <1>1, <1>2, <2>1, Zenon DEF ActKnows
  <2>3. f \in Found
    BY <1>0, <1>1 DEF SpoolTyped
  <2>4. f.rec \in Record /\ f.verdict \in {"trash", "mark"}
    BY <2>3 DEF Found
  <2> QED BY <2>2, <2>4
<1>5. /\ \A j \in Id : j # i => place'[j] = place[j] /\ rec'[j] = rec[j]
      /\ keeper'[d].pc = "look" /\ keeper'[d].evicted = keeper[d].evicted /\ DOMAIN keeper[d].evicted = {}
      /\ \A e \in Daemon : e # d => keeper'[e] = keeper[e]
  BY <1>0, <1>1, <1>3 DEF SpoolTyped, KeeperPlace
<1>6. /\ f.verdict = "mark" => rec'[i] = [f.rec EXCEPT !.report = "unknown"] /\ place'[i] = place[i]
      /\ f.verdict = "trash" => rec'[i] = rec[i] /\ place'[i] = Trashed(place[i], "spool")
  BY <1>0, <1>3 DEF SpoolTyped
<1>7. f.verdict = "mark" => rec'[i].state = "kept" /\ place'[i] = "spool"
  BY <1>4, <1>6 DEF Record
<1> HIDE DEF f
<1>8. SweepKnows(d)' /\ ActKnows(d)' /\ PlanKnows(d)'
  BY <1>5, EmptyHanded
<1>9. \A e \in Daemon : e # d => keeper[e].pc \notin {"act", "record"}
  BY <1>0, <1>1, Alone DEF OneKeeper
<1>10. OneKeeper'
  BY <1>0, <1>1, <1>5 DEF OneKeeper
<1>11. \A j \in Id : rec'[j].state \in {"kept", "evicted"} <=> rec[j].state \in {"kept", "evicted"}
  BY <1>4, <1>5, <1>6, <1>7
<1>12. \A j \in Id : rec'[j].due => j \in captured
  <2> TAKE j \in Id
  <2>1. CASE j = i
    <3>1. rec'[i] = rec[i] \/ i \in captured
      BY <1>4, <1>6
    <3> QED BY <2>1, <3>1, Clauses, Zenon
  <2>2. CASE j # i
    BY <1>5, <2>2, Clauses, Zenon
  <2> QED BY <2>1, <2>2
<1>13. \A j \in captured \ raced' : place'[j] = "spool" \/ rec'[j].due
  <2> TAKE j \in captured \ raced'
  <2>0. j \in Id /\ j \in captured \ raced
    BY <1>1, Clauses
  <2>1. CASE j = i
    <3>1. CASE f.verdict = "mark"
      BY <1>7, <2>1, <3>1
    <3>2. CASE f.verdict = "trash"
      <4>1. rec'[i] = rec[i] /\ rec[i].due
        BY <1>4, <1>6, <2>0, <2>1, <3>2, Zenon
      <4> QED BY <2>1, <4>1, Zenon
    <3> QED BY <1>4, <3>1, <3>2
  <2>2. CASE j # i
    <3>1. place'[j] = place[j] /\ rec'[j] = rec[j]
      BY <1>5, <2>0, <2>2
    <3> QED BY <2>0, <3>1, Clauses, Zenon
  <2> QED BY <2>1, <2>2
<1>14. \A j \in captured : rec'[j].state = "kept" /\ j \notin torn /\ (\A e \in Daemon : j \notin DOMAIN keeper'[e].evicted)
           => upper'[j] = "entry"
  <2> TAKE j \in captured
  <2>1. j \in Id /\ (rec'[j].state = "kept" => rec[j].state = "kept")
    BY <1>4, <1>5, <1>6, Clauses
  <2>2. (\A e \in Daemon : j \notin DOMAIN keeper'[e].evicted) => \A e \in Daemon : j \notin DOMAIN keeper[e].evicted
    BY <1>5
  <2> QED BY <1>1, <2>1, <2>2, Clauses
<1>15. \A j \in Id : place'[j] = place[j] \/ place[j] # "unborn"
  BY <1>4, <1>5, <1>6 DEF Trashed
<1> QED BY <1>1, <1>5, <1>8, <1>9, <1>10, <1>11, <1>12, <1>13, <1>14, <1>15, SpoolStays
\* WriteReport leaves the invariant.
LEMMA WriteReportKeeps == ASSUME SpoolInv, SpoolTyped', NEW d \in Daemon, WriteReport(d) PROVE SpoolInv'
<1>0. SpoolTyped /\ OneKeeper
  BY DEF SpoolInv
<1>1. UNCHANGED <<home, place, lock, upper, old, step, keeper, disposals, spoolLock, captured, raced, torn>>
  BY DEF WriteReport, history
<1>2. PICK r \in reports[d] :
        rec' = [rec EXCEPT ![r[1]] = IF place[r[1]] = "spool" THEN [@ EXCEPT !.report = r[2]] ELSE @]
  BY DEF WriteReport
<1>3. \A j \in Id : rec'[j].state = rec[j].state /\ rec'[j].due = rec[j].due
  <2> TAKE j \in Id
  <2>1. rec \in [Id -> Record] /\ rec[j] \in Record
    BY <1>0 DEF SpoolTyped
  <2>2. rec'[j] = rec[j] \/ rec'[j] = [rec[j] EXCEPT !.report = r[2]]
    BY <1>2, <2>1
  <2>3. r[2] \in Outcomes
    BY <1>0 DEF SpoolTyped
  <2>4. [rec[j] EXCEPT !.report = r[2]].state = rec[j].state /\ [rec[j] EXCEPT !.report = r[2]].due = rec[j].due
    BY <2>1, <2>3, RecordChanges
  <2>5. CASE rec'[j] = rec[j]
    BY <2>5
  <2>6. CASE rec'[j] = [rec[j] EXCEPT !.report = r[2]]
    BY <2>4, <2>6, Zenon
  <2> QED BY <2>2, <2>5, <2>6
<1>4. OneKeeper'
  BY <1>0, <1>1 DEF OneKeeper
<1>5. \A j \in captured : Undisturbed(j)
  BY <1>1, <1>3, Clauses, Zenon DEF Undisturbed
<1>6. \A j \in Id : rec'[j].due => j \in captured
  BY <1>3, Clauses, Zenon
<1>7. \A j \in captured \ raced' : place'[j] = "spool" \/ rec'[j].due
  <2> TAKE j \in captured \ raced'
  <2>1. j \in Id /\ j \in captured \ raced /\ place' = place
    BY <1>1, Clauses
  <2> QED BY <1>3, <2>1, Clauses, Zenon
<1>8. \A j \in captured : rec'[j].state = "kept" /\ j \notin torn /\ (\A e \in Daemon : j \notin DOMAIN keeper'[e].evicted)
          => upper'[j] = "entry"
  BY <1>1, <1>3, Clauses
<1> QED BY <1>1, <1>3, <1>4, <1>5, <1>6, <1>7, <1>8, SpoolStays

\* SettleRead leaves the invariant.
LEMMA SettleReadKeeps == ASSUME SpoolInv, SpoolTyped', NEW d \in Daemon, SettleRead(d) PROVE SpoolInv'
<1>0. SpoolTyped /\ OneKeeper
  BY DEF SpoolInv
<1>1. /\ keeper[d].pc = "pass" /\ spoolLock = NoOne
      /\ place' = [i \in Id |-> IF rec[i].due THEN Trashed(place[i], "spool") ELSE place[i]]
      /\ UNCHANGED <<home, lock, rec, upper, old, step, disposals, spoolLock, captured, raced, torn>>
  BY DEF SettleRead, KeeperAt, queues, history
<1>2. PICK S : keeper' = [keeper EXCEPT ![d] = [Keeper("settle") EXCEPT !.sizes = S]]
  BY DEF SettleRead
<1>3. /\ keeper'[d].pc = "settle" /\ DOMAIN keeper'[d].evicted = {} /\ DOMAIN keeper[d].evicted = {}
      /\ \A e \in Daemon : e # d => keeper'[e] = keeper[e]
  <2>1. keeper' = [keeper EXCEPT ![d] = [pc |-> "settle", todo |-> {}, found |-> NoFinding, sizes |-> S, evicted |-> <<>>]]
    BY <1>2, KeeperFields
  <2> QED BY <1>0, <1>1, <2>1 DEF SpoolTyped
<1>4. SweepKnows(d)' /\ ActKnows(d)' /\ PlanKnows(d)'
  BY <1>3, EmptyHanded
<1>5. \A e \in Daemon : keeper[e].pc \notin {"act", "record"}
  BY <1>1, Alone
<1>6. OneKeeper'
  BY <1>0, <1>1, <1>3 DEF OneKeeper
<1>7. \A j \in Id : place'[j] = place[j] \/ (place[j] = "spool" /\ rec'[j].due)
  BY <1>1 DEF Trashed
<1>8. \A j \in captured \ raced' : place'[j] = "spool" \/ rec'[j].due
  <2> TAKE j \in captured \ raced'
  <2>1. j \in Id /\ j \in captured \ raced /\ rec' = rec
    BY <1>1, Clauses
  <2>2. place'[j] = place[j] \/ rec'[j].due
    BY <1>7, <2>1, Zenon
  <2>3. place[j] = "spool" \/ rec[j].due
    BY <2>1, Clauses, Zenon
  <2> QED BY <2>1, <2>2, <2>3, Zenon
<1>9. \A j \in captured : (\A e \in Daemon : j \notin DOMAIN keeper'[e].evicted) => \A e \in Daemon : j \notin DOMAIN keeper[e].evicted
  BY <1>3
<1>10. \A j \in Id : place'[j] = place[j] \/ place[j] # "unborn"
  BY <1>7
<1> QED BY <1>1, <1>3, <1>4, <1>5, <1>6, <1>8, <1>9, <1>10, Clauses, SpoolStays
\* SettleMove leaves the invariant.
LEMMA SettleMoveKeeps == ASSUME SpoolInv, SpoolTyped', NEW d \in Daemon, SettleMove(d) PROVE SpoolInv'
<1>0. SpoolTyped /\ OneKeeper /\ UnbornIsNothing
  BY DEF SpoolInv
<1>1. /\ keeper[d].pc = "settle" /\ spoolLock = NoOne /\ spoolLock' = d
      /\ rec' = Sized({i \in keeper[d].sizes : place[i] = "spool"})
      /\ UNCHANGED <<home, lock, old, step, disposals, captured, raced, torn>>
  BY DEF SettleMove, KeeperAt, queues, history
<1>2. PICK fs \in Disks, stuck \in SUBSET Id : Planned(d, fs, stuck)
  BY SettleMoves
<1> DEFINE expire == Expires(fs, stuck)
           evict == Evicts(fs, stuck)
           E == [i \in evict |-> rec'[i]]
<1>3. /\ \A i \in expire : i \in Id /\ place[i] = "spool" /\ rec[i].due
      /\ \A i \in evict : i \in Id /\ place[i] = "spool" /\ rec[i].state = "kept" /\ ~rec[i].due
  BY PlanTells
<1>4. /\ place' = [i \in Id |-> IF i \in expire THEN "trash" ELSE place[i]]
      /\ upper' = [i \in Id |-> IF i \in evict THEN Trashed(upper[i], "entry") ELSE upper[i]]
      /\ keeper' = [keeper EXCEPT ![d] = [Keeper("record") EXCEPT !.evicted = E]]
  BY <1>2 DEF Planned
<1> HIDE DEF expire
<1>5. DOMAIN E = evict /\ \A i \in evict : E[i] = rec'[i]
  OBVIOUS
<1> HIDE DEF E, evict
<1>6. /\ keeper'[d].pc = "record" /\ keeper'[d].evicted = E /\ DOMAIN keeper[d].evicted = {}
      /\ \A e \in Daemon : e # d => keeper'[e] = keeper[e]
  <2>1. keeper' = [keeper EXCEPT ![d] = [pc |-> "record", todo |-> {}, found |-> NoFinding, sizes |-> {}, evicted |-> E]]
    BY <1>4, KeeperFields
  <2> QED BY <1>0, <1>1, <2>1 DEF SpoolTyped
<1>7. \A j \in Id : rec'[j].state = rec[j].state /\ rec'[j].due = rec[j].due
  BY <1>0, <1>1, SizedTells DEF SpoolTyped
<1>8. \A j \in Id : place'[j] = place[j] \/ (place[j] = "spool" /\ rec[j].due)
  BY <1>3, <1>4
<1>9. PlanKnows(d)'
  <2> SUFFICES ASSUME NEW i \in Id, i \in evict
               PROVE  i \in captured' /\ E[i].state = "kept" /\ place'[i] = "spool"
    BY <1>5, <1>6 DEF PlanKnows
  <2>1. place[i] = "spool" /\ rec[i].state = "kept" /\ ~rec[i].due
    BY <1>3
  <2>2. i \notin expire
    BY <1>3, <2>1, Zenon
  <2>3. place'[i] = "spool"
    BY <1>4, <2>1, <2>2
  <2> QED BY <1>1, <1>5, <1>7, <2>1, <2>3, Clauses
<1>10. SweepKnows(d)' /\ ActKnows(d)'
  BY <1>6 DEF SweepKnows, ActKnows
<1>11. \A e \in Daemon : keeper[e].pc \notin {"act", "record"}
  BY <1>1, Alone
<1>12. OneKeeper'
  BY <1>1, <1>6, Alone DEF OneKeeper
<1>13. \A j \in Id : rec'[j].due => j \in captured
  BY <1>7, Clauses, Zenon
<1>14. \A j \in captured \ raced' : place'[j] = "spool" \/ rec'[j].due
  <2> TAKE j \in captured \ raced'
  <2>1. j \in Id /\ j \in captured \ raced
    BY <1>1, Clauses
  <2>2. place'[j] = place[j] \/ rec[j].due
    BY <1>8, <2>1, Zenon
  <2>3. place[j] = "spool" \/ rec[j].due
    BY <2>1, Clauses, Zenon
  <2> QED BY <1>7, <2>1, <2>2, <2>3, Zenon
<1>15. \A j \in captured : rec'[j].state = "kept" /\ j \notin torn /\ (\A e \in Daemon : j \notin DOMAIN keeper'[e].evicted)
           => upper'[j] = "entry"
  <2> SUFFICES ASSUME NEW j \in captured, rec'[j].state = "kept", j \notin torn, \A e \in Daemon : j \notin DOMAIN keeper'[e].evicted
               PROVE  upper'[j] = "entry"
    OBVIOUS
  <2>1. j \in Id /\ rec[j].state = "kept" /\ j \notin evict
    BY <1>5, <1>6, <1>7, Clauses
  <2>2. \A e \in Daemon : j \notin DOMAIN keeper[e].evicted
    BY <1>6
  <2>3. upper[j] = "entry"
    BY <2>1, <2>2, Clauses
  <2> QED BY <1>4, <2>1, <2>3
<1>16. \A j \in Id \ captured : upper[j] = "entry" => upper'[j] = "entry"
  <2> TAKE j \in Id \ captured
  <2>1. j \notin evict
    BY <1>3, Clauses
  <2> QED BY <1>4, <2>1
<1>17. \A j \in Id : place'[j] = place[j] \/ place[j] # "unborn"
  BY <1>8
<1> QED BY <1>1, <1>6, <1>7, <1>9, <1>10, <1>11, <1>12, <1>13, <1>14, <1>15, <1>16, <1>17, SpoolStays

\* SettleRecord leaves the invariant.
LEMMA SettleRecordKeeps == ASSUME SpoolInv, SpoolTyped', NEW d \in Daemon, SettleRecord(d) PROVE SpoolInv'
<1>0. SpoolTyped /\ OneKeeper /\ KeeperKnows
  BY DEF SpoolInv
<1> DEFINE E == keeper[d].evicted
<1>1. /\ keeper[d].pc = "record" /\ spoolLock' = NoOne /\ Keep(d, "pass")
      /\ rec' = [i \in Id |-> IF i \in DOMAIN E THEN [E[i] EXCEPT !.state = "evicted"] ELSE rec[i]]
      /\ UNCHANGED <<home, place, lock, upper, old, step, disposals, captured, raced, torn>>
  BY DEF SettleRecord, KeeperAt, queues, history
<1>2. /\ keeper'[d].pc = "pass" /\ DOMAIN keeper'[d].evicted = {}
      /\ \A e \in Daemon : e # d => keeper'[e] = keeper[e]
  BY <1>0, <1>1, KeepMoves DEF SpoolTyped, KeeperPcs
<1>3. SweepKnows(d)' /\ ActKnows(d)' /\ PlanKnows(d)'
  BY <1>2, EmptyHanded
<1>4. spoolLock = d /\ \A e \in Daemon : e # d => keeper[e].pc \notin {"look", "act", "record"}
  BY <1>0, <1>1, Alone DEF OneKeeper
<1>5. OneKeeper'
  <2>1. NoOne \notin Daemon
    BY DaemonsAreNoPlaces DEF NoOne
  <2> QED BY <1>1, <1>2, <1>4, <2>1 DEF OneKeeper
<1>6. \A j \in Id : IF j \in DOMAIN E THEN rec'[j].state = "evicted" /\ j \in captured /\ place[j] = "spool"
                    ELSE rec'[j] = rec[j]
  <2> TAKE j \in Id
  <2>1. CASE j \in DOMAIN E
    <3>1. E[j] \in Record /\ rec'[j] = [E[j] EXCEPT !.state = "evicted"]
      BY <1>0, <1>1, <2>1, KeepersRecords
    <3>2. rec'[j].state = "evicted"
      BY <3>1, RecordChanges
    <3>3. j \in captured /\ place[j] = "spool"
      BY <1>0, <2>1 DEF KeeperKnows, PlanKnows
    <3> QED BY <2>1, <3>2, <3>3
  <2>2. CASE j \notin DOMAIN E
    BY <1>1, <2>2
  <2> QED BY <2>1, <2>2
<1>7. \A j \in Id : rec'[j].state \in {"kept", "evicted"} <=> rec[j].state \in {"kept", "evicted"}
  <2> HIDE DEF E
  <2> QED BY <1>6, Clauses
<1>8. \A j \in Id : rec'[j].due => j \in captured
  <2> HIDE DEF E
  <2> QED BY <1>6, Clauses, Zenon
<1>9. \A j \in captured \ raced' : place'[j] = "spool" \/ rec'[j].due
  <2> HIDE DEF E
  <2> TAKE j \in captured \ raced'
  <2>1. j \in Id /\ j \in captured \ raced /\ place' = place
    BY <1>1, Clauses
  <2>2. place[j] = "spool" \/ (rec[j].due /\ rec'[j] = rec[j])
    BY <1>6, <2>1, Clauses, Zenon
  <2> QED BY <2>1, <2>2, Zenon
<1>10. \A j \in captured : rec'[j].state = "kept" /\ j \notin torn /\ (\A e \in Daemon : j \notin DOMAIN keeper'[e].evicted)
           => upper'[j] = "entry"
  <2> SUFFICES ASSUME NEW j \in captured, rec'[j].state = "kept", j \notin torn, \A e \in Daemon : j \notin DOMAIN keeper'[e].evicted
               PROVE  upper[j] = "entry"
    BY <1>1
  <2>1. j \in Id /\ j \notin DOMAIN E /\ rec'[j] = rec[j]
    BY <1>6, Clauses
  <2>2. \A e \in Daemon : j \notin DOMAIN keeper[e].evicted
    BY <1>2, <2>1
  <2> QED BY <2>1, <2>2, Clauses
<1> QED BY <1>1, <1>2, <1>3, <1>4, <1>5, <1>7, <1>8, <1>9, <1>10, SpoolStays
\* Delete leaves the invariant.
LEMMA DeleteKeeps == ASSUME SpoolInv, SpoolTyped', NEW d \in Daemon, Delete(d) PROVE SpoolInv'
<1>0. SpoolTyped /\ StepsOwn /\ OneKeeper /\ KeeperKnows
  BY DEF SpoolInv
<1>1. /\ home' = [i \in Id |-> IF home[i] = "trash" THEN "gone" ELSE home[i]]
      /\ place' = [i \in Id |-> IF place[i] = "trash" THEN "gone" ELSE place[i]]
      /\ upper' = [i \in Id |-> IF upper[i] = "trash" THEN "gone" ELSE upper[i]]
      /\ UNCHANGED <<lock, rec, old, step, keeper, disposals, spoolLock, captured, raced, torn>>
  BY DEF Delete, queues, history
<1>2. ASSUME NEW j \in Id, home'[j] # home[j]
      PROVE  home'[j] \notin Daemon \cup {"unborn"} /\ NotBare(j)
  <2>1. home[j] = "trash" /\ home'[j] = "gone"
    BY <1>1, <1>2
  <2> QED BY <1>0, <2>1, DaemonsAreNoPlaces DEF NotBare, StepsOwn, Own
<1>3. OneKeeper'
  BY <1>0, <1>1 DEF OneKeeper
<1>4. \A j \in captured : Undisturbed(j)
  BY <1>1, Clauses DEF Undisturbed
<1>5. \A j \in captured \ raced' : place'[j] = "spool" \/ rec'[j].due
  <2> TAKE j \in captured \ raced'
  <2>1. j \in Id /\ j \in captured \ raced /\ rec' = rec
    BY <1>1, Clauses
  <2>2. place[j] = "spool" => place'[j] = "spool"
    BY <1>1, <2>1
  <2> QED BY <2>1, <2>2, Clauses, Zenon
<1>6. \A j \in Id : upper[j] = "entry" => upper'[j] = "entry"
  BY <1>1
<1>7. \A j \in Id : place'[j] = place[j] \/ place[j] # "unborn"
  BY <1>1
<1> QED BY <1>1, <1>2, <1>3, <1>4, <1>5, <1>6, <1>7, Clauses, SpoolStays

\* Time leaves the invariant.
LEMMA TimeKeeps == ASSUME SpoolInv, SpoolTyped', Age \/ Expire \/ UNCHANGED vars PROVE SpoolInv'
<1>0. SpoolTyped /\ OneKeeper /\ UnbornIsNothing
  BY DEF SpoolInv
<1>1. UNCHANGED <<home, place, lock, upper, step, keeper, disposals, spoolLock, captured, raced, torn>>
  BY DEF Age, Expire, vars, files, queues, history
<1>2. \A j \in Id : j \in old' => j \in old \/ (home[j] # "unborn" /\ \A e \in Daemon : ~Has(e, j))
  <2>1. CASE Age
    <3>1. PICK i \in Id : /\ home[i] = "bare" \/ place[i] = "spool"
                          /\ \A d \in Daemon : step[d].id # i
                          /\ old' = old \cup {i}
      BY <2>1 DEF Age
    <3>2. home[i] # "unborn"
      BY <1>0, <3>1 DEF UnbornIsNothing
    <3> QED BY <3>1, <3>2 DEF Has
  <2>2. CASE Expire \/ UNCHANGED vars
    BY <2>2 DEF Expire, vars
  <2> QED BY <2>1, <2>2
<1>3. \A j \in Id : rec'[j] = rec[j] \/ (rec'[j].state = rec[j].state /\ j \in captured /\ rec'[j].due)
  <2>1. CASE Expire
    <3>1. PICK i \in Id : rec[i].state \in {"kept", "evicted"} /\ rec' = [rec EXCEPT ![i].due = TRUE]
      BY <2>1 DEF Expire
    <3>2. rec[i] \in Record /\ i \in captured
      BY <1>0, <3>1, Clauses DEF SpoolTyped
    <3>3. rec'[i] = [rec[i] EXCEPT !.due = TRUE] /\ \A j \in Id : j # i => rec'[j] = rec[j]
      BY <1>0, <3>1 DEF SpoolTyped
    <3>4. [rec[i] EXCEPT !.due = TRUE].state = rec[i].state /\ [rec[i] EXCEPT !.due = TRUE].due
      BY <3>2, RecordChanges
    <3>5. rec'[i].state = rec[i].state /\ rec'[i].due
      BY <3>3, <3>4, Zenon
    <3> QED BY <3>2, <3>3, <3>5, Zenon
  <2>2. CASE Age \/ UNCHANGED vars
    BY <2>2 DEF Age, vars, files
  <2> QED BY <2>1, <2>2
<1>4. \A j \in captured : Undisturbed(j)
  BY <1>1, <1>3, Clauses, Zenon DEF Undisturbed
<1>5. \A j \in Id : rec'[j].state = rec[j].state
  BY <1>3
<1>6. \A j \in Id : rec'[j].due => j \in captured
  BY <1>3, Clauses, Zenon
<1>7. \A j \in captured \ raced' : place'[j] = "spool" \/ rec'[j].due
  <2> TAKE j \in captured \ raced'
  <2>1. j \in Id /\ j \in captured \ raced /\ place' = place
    BY <1>1, Clauses
  <2> QED BY <1>3, <2>1, Clauses, Zenon
<1>8. OneKeeper'
  BY <1>0, <1>1 DEF OneKeeper
<1>9. \A j \in captured : rec'[j].state = "kept" /\ j \notin torn /\ (\A e \in Daemon : j \notin DOMAIN keeper'[e].evicted)
          => upper'[j] = "entry"
  BY <1>1, <1>5, Clauses
<1> QED BY <1>1, <1>2, <1>4, <1>5, <1>6, <1>7, <1>8, <1>9, SpoolStays

\* DisposeOne leaves the invariant.
LEMMA DisposeOneKeeps == ASSUME SpoolInv, SpoolTyped', NEW d \in Daemon, DisposeOne(d) PROVE SpoolInv'
<1>0. SpoolTyped /\ StepsOwn /\ LocksTell /\ UnbornIsNothing /\ AllCaptured /\ OneKeeper /\ KeeperKnows
  BY DEF SpoolInv
<1>1. UNCHANGED <<home, upper, old, step, keeper, spoolLock, captured, raced, torn>>
  BY DEF DisposeOne, history
<1>2. PICK i \in disposals[d] :
        /\ disposals' = [disposals EXCEPT ![d] = @ \ {i}]
        /\ place' = [place EXCEPT ![i] = Removed(@)]
        /\ rec' = [rec EXCEPT ![i] = IF place[i] = "spool" THEN NoRecord ELSE @]
        /\ lock' = [lock EXCEPT ![i] = IF place[i] = "spool" THEN "none" ELSE "free"]
  BY DEF DisposeOne
<1>3. i \in Id /\ lock[i] = d /\ home[i] # "unborn" /\ i \notin captured /\ \A e \in Daemon : ~Has(e, i)
  BY <1>0, <1>2 DEF LocksTell, SpoolTyped
<1>4. /\ \A j \in Id : j # i => place'[j] = place[j] /\ rec'[j] = rec[j] /\ lock'[j] = lock[j]
      /\ lock'[i] \notin Daemon /\ (rec'[i] = rec[i] \/ rec'[i] = NoRecord)
  BY <1>0, <1>2, <1>3, DaemonsAreNoPlaces DEF SpoolTyped
<1>5. \A e \in Daemon, j \in Id : Has(e, j)' <=> Has(e, j)
  BY <1>1 DEF Has
<1>6. /\ \A e \in Daemon : disposals'[e] \subseteq disposals[e] /\ i \notin disposals'[e]
      /\ \A e \in Daemon, j \in Id : j # i /\ j \in disposals[e] => j \in disposals'[e]
  BY <1>0, <1>2, <1>3 DEF SpoolTyped, LocksTell
<1>7. rec'[i].state \notin {"kept", "evicted"} /\ ~rec'[i].due
  <2>1. NoRecord.state = "none" /\ NoRecord.due = FALSE
    BY DEF NoRecord
  <2>2. rec[i].state \notin {"kept", "evicted"} /\ ~rec[i].due
    BY <1>3, Clauses
  <2> QED BY <1>4, <2>1, <2>2
<1>8. StepsOwn'
  <2> SUFFICES ASSUME NEW e \in Daemon, NEW j \in Id, Has(e, j)
               PROVE  HasAlone(e, j)' /\ Own(e, j)'
    BY <1>5 DEF StepsOwn
  <2>1. HasAlone(e, j) /\ Own(e, j) /\ j # i
    BY <1>0, <1>3 DEF StepsOwn
  <2>2. HasAlone(e, j)'
    BY <1>1, <1>5, <1>6, <2>1 DEF HasAlone
  <2>3. Own(e, j)'
    BY <1>1, <1>4, <2>1 DEF Own
  <2> QED BY <2>2, <2>3
<1>9. LocksTell'
  BY <1>0, <1>1, <1>3, <1>4, <1>5, <1>6 DEF LocksTell
<1>10. UnbornIsNothing'
  BY <1>0, <1>1, <1>3, <1>4 DEF UnbornIsNothing
<1>11. AllCaptured'
  <2>1. \A j \in Id : j \in captured' <=> rec'[j].state \in {"kept", "evicted"}
    BY <1>1, <1>3, <1>4, <1>7, Clauses
  <2>2. \A j \in captured : rec'[j] = rec[j] /\ place'[j] = place[j] /\ j \in Id
    BY <1>3, <1>4, Clauses
  <2>3. \A j \in Id : rec'[j].due => j \in captured'
    <3> TAKE j \in Id
    <3>1. CASE j = i
      BY <1>7, <3>1, Zenon
    <3>2. CASE j # i
      <4>1. rec'[j] = rec[j] /\ captured' = captured
        BY <1>1, <1>4, <3>2
      <4> QED BY <4>1, Clauses, Zenon
    <3> QED BY <3>1, <3>2
  <2>4. \A j \in captured' \ raced' : place'[j] = "spool" \/ rec'[j].due
    <3> TAKE j \in captured' \ raced'
    <3>1. j \in captured \ raced /\ rec'[j] = rec[j] /\ place'[j] = place[j]
      BY <1>1, <2>2
    <3> QED BY <3>1, Clauses, Zenon
  <2>5. \A j \in captured' : rec'[j].state = "kept" /\ j \notin torn' /\ (\A e \in Daemon : j \notin DOMAIN keeper'[e].evicted)
            => upper'[j] = "entry"
    BY <1>1, <2>2, Clauses
  <2> QED BY <2>1, <2>3, <2>4, <2>5, Zenon DEF AllCaptured
<1>12. OneKeeper'
  BY <1>0, <1>1 DEF OneKeeper
<1>13. KeeperKnows'
  <2>1. \A j \in Id : NoSession(j) => NoSession(j)'
    BY <1>1, <1>5 DEF NoSession
  <2>2. \A j \in Id : NoEntry(j) => NoEntry(j)'
    <3> TAKE j \in Id
    <3>1. lock[j] \notin Daemon => lock'[j] \notin Daemon
      BY <1>4
    <3> QED BY <1>1, <1>5, <3>1 DEF NoEntry
  <2> SUFFICES ASSUME NEW e \in Daemon
               PROVE  SweepKnows(e)' /\ ActKnows(e)' /\ PlanKnows(e)'
    BY DEF KeeperKnows
  <2>3. SweepKnows(e) /\ ActKnows(e) /\ PlanKnows(e)
    BY <1>0 DEF KeeperKnows
  <2>4. \A j \in captured : rec'[j] = rec[j] /\ place'[j] = place[j]
    BY <1>3, <1>4, Clauses
  <2> QED BY <1>0, <1>1, <2>1, <2>2, <2>3, <2>4, KeeperStays
<1> QED BY <1>8, <1>9, <1>10, <1>11, <1>12, <1>13 DEF SpoolInv
\* Crash leaves the invariant.
LEMMA CrashKeeps == ASSUME SpoolInv, SpoolTyped', NEW d \in Daemon, Crash(d) PROVE SpoolInv'
<1>0. SpoolTyped /\ StepsOwn /\ LocksTell /\ UnbornIsNothing /\ AllCaptured /\ OneKeeper /\ KeeperKnows
  BY DEF SpoolInv
<1>1. /\ home' = [i \in Id |-> IF home[i] = d THEN "free" ELSE home[i]]
      /\ lock' = [i \in Id |-> IF lock[i] = d THEN "free" ELSE lock[i]]
      /\ spoolLock' = (IF spoolLock = d THEN NoOne ELSE spoolLock)
      /\ step' = [step EXCEPT ![d] = Idle] /\ Keep(d, "off")
      /\ disposals' = [disposals EXCEPT ![d] = {}]
      /\ torn' = torn \cup DOMAIN keeper[d].evicted
      /\ UNCHANGED <<place, rec, upper, old, captured, raced>>
  BY DEF Crash
<1>2. /\ keeper'[d].pc = "off" /\ DOMAIN keeper'[d].evicted = {}
      /\ \A e \in Daemon : e # d => keeper'[e] = keeper[e]
  BY <1>0, <1>1, KeepMoves DEF SpoolTyped, KeeperPcs
<1>3. step'[d].pc = "idle" /\ \A e \in Daemon : e # d => step'[e] = step[e]
  BY <1>0, <1>1 DEF SpoolTyped, Idle
<1>4. \A e \in Daemon, j \in Id : Has(e, j)' <=> e # d /\ Has(e, j)
  BY <1>3 DEF Has
<1>5. disposals'[d] = {} /\ \A e \in Daemon : e # d => disposals'[e] = disposals[e]
  BY <1>0, <1>1 DEF SpoolTyped
<1>6. "free" \notin Daemon /\ "unborn" \notin Daemon /\ "none" \notin Daemon /\ NoOne \notin Daemon
  BY DaemonsAreNoPlaces DEF NoOne
<1>7. StepsOwn'
  <2> SUFFICES ASSUME NEW e \in Daemon, NEW j \in Id, e # d, Has(e, j)
               PROVE  HasAlone(e, j)' /\ Own(e, j)'
    BY <1>4 DEF StepsOwn
  <2>1. HasAlone(e, j) /\ Own(e, j)
    BY <1>0 DEF StepsOwn
  <2>2. home[j] # d /\ lock[j] # d
    BY <1>0, <2>1 DEF LocksTell, HasAlone
  <2>3. home'[j] = home[j] /\ lock'[j] = lock[j]
    BY <1>1, <2>2
  <2>4. HasAlone(e, j)'
    BY <1>1, <1>4, <1>5, <2>1, <2>3 DEF HasAlone
  <2>5. Own(e, j)'
    BY <1>1, <1>3, <2>1, <2>3 DEF Own
  <2> QED BY <2>4, <2>5
<1>8. LocksTell'
  <2>1. \A j \in Id, e \in Daemon : lock'[j] = e => e # d /\ lock[j] = e
    BY <1>1, <1>6
  <2>2. \A j \in Id, e \in Daemon : home'[j] = e => e # d /\ home[j] = e
    BY <1>1, <1>6
  <2>3. \A j \in Id, e \in Daemon : j \in disposals'[e] =>
            e # d /\ j \in disposals[e] /\ lock'[j] = e /\ home'[j] # "unborn" /\ \A g \in Daemon : ~Has(g, j)
    <3> SUFFICES ASSUME NEW j \in Id, NEW e \in Daemon, j \in disposals'[e]
                 PROVE  e # d /\ j \in disposals[e] /\ lock'[j] = e /\ home'[j] # "unborn" /\ \A g \in Daemon : ~Has(g, j)
      OBVIOUS
    <3>1. e # d /\ j \in disposals[e]
      BY <1>5
    <3>2. lock[j] = e /\ home[j] # "unborn" /\ \A g \in Daemon : ~Has(g, j)
      BY <1>0, <3>1 DEF LocksTell
    <3> QED BY <1>1, <3>1, <3>2
  <2> QED BY <1>0, <1>1, <1>4, <1>5, <2>1, <2>2, <2>3 DEF LocksTell
<1>9. UnbornIsNothing'
  <2> SUFFICES ASSUME NEW j \in Id, home'[j] = "unborn"
               PROVE  place'[j] = "unborn" /\ lock'[j] = "none" /\ j \notin captured' /\ j \notin old' /\ j \notin raced'
    BY DEF UnbornIsNothing
  <2>1. home[j] = "unborn"
    BY <1>1
  <2>2. lock[j] = "none" /\ lock[j] # d
    BY <1>0, <1>6, <2>1 DEF UnbornIsNothing
  <2> QED BY <1>0, <1>1, <2>1, <2>2 DEF UnbornIsNothing
<1>10. AllCaptured'
  <2>1. \A j \in Id : j \in captured' <=> rec'[j].state \in {"kept", "evicted"}
    BY <1>1, Clauses
  <2>2. \A j \in Id : rec'[j].due => j \in captured'
    BY <1>1, Clauses, Zenon
  <2>3. \A j \in captured' \ raced' : place'[j] = "spool" \/ rec'[j].due
    BY <1>1, Clauses, Zenon
  <2>4. \A j \in captured' : rec'[j].state = "kept" /\ j \notin torn' /\ (\A e \in Daemon : j \notin DOMAIN keeper'[e].evicted)
            => upper'[j] = "entry"
    <3> SUFFICES ASSUME NEW j \in captured, rec[j].state = "kept", j \notin torn', \A e \in Daemon : j \notin DOMAIN keeper'[e].evicted
                 PROVE  upper[j] = "entry"
      BY <1>1
    <3>1. j \notin torn /\ \A e \in Daemon : j \notin DOMAIN keeper[e].evicted
      BY <1>1, <1>2
    <3> QED BY <3>1, Clauses
  <2> QED BY <2>1, <2>2, <2>3, <2>4, Zenon DEF AllCaptured
<1>11. OneKeeper'
  BY <1>0, <1>1, <1>2, <1>6 DEF OneKeeper
<1>12. KeeperKnows'
  <2>1. \A j \in Id : NoSession(j) => NoSession(j)'
    <3> SUFFICES ASSUME NEW j \in Id, NoSession(j)
                 PROVE  NoSession(j)'
      OBVIOUS
    <3>1. home'[j] \notin Daemon \cup {"unborn"}
      BY <1>1, <1>6 DEF NoSession
    <3> QED BY <1>3, <1>4, <3>1 DEF NoSession
  <2>2. \A j \in Id : NoEntry(j) => NoEntry(j)'
    <3> SUFFICES ASSUME NEW j \in Id, NoEntry(j)
                 PROVE  NoEntry(j)'
      OBVIOUS
    <3>1. home'[j] # "unborn" /\ lock'[j] \notin Daemon
      BY <1>1, <1>6 DEF NoEntry
    <3> QED BY <1>3, <1>4, <3>1 DEF NoEntry
  <2> SUFFICES ASSUME NEW e \in Daemon
               PROVE  SweepKnows(e)' /\ ActKnows(e)' /\ PlanKnows(e)'
    BY DEF KeeperKnows
  <2>3. SweepKnows(e) /\ ActKnows(e) /\ PlanKnows(e)
    BY <1>0 DEF KeeperKnows
  <2>4. CASE e = d
    BY <1>2, <2>4, EmptyHanded
  <2>5. CASE e # d
    BY <1>0, <1>1, <1>2, <2>1, <2>2, <2>3, <2>5, KeeperStays
  <2> QED BY <2>4, <2>5
<1> QED BY <1>7, <1>8, <1>9, <1>10, <1>11, <1>12 DEF SpoolInv

\* The step of a worker that begins, or has ended: nothing but step, its session and its queue moves.
LEMMA OpenKeeps == ASSUME SpoolInv, SpoolTyped', NEW d \in Daemon, Open(d) PROVE SpoolInv'
<1>0. SpoolTyped /\ StepsOwn /\ LocksTell /\ UnbornIsNothing /\ AllCaptured /\ OneKeeper /\ KeeperKnows
  BY DEF SpoolInv
<1>1. step[d].pc = "idle" /\ UNCHANGED <<place, lock, rec, upper, old, keeper, disposals, spoolLock, captured, raced, torn>>
  BY DEF Open, At, queues, history
<1>2. PICK i \in Id : /\ home[i] = "unborn" /\ home' = [home EXCEPT ![i] = "bare"]
                      /\ step' = [step EXCEPT ![d] = [pc |-> "bare", id |-> i, slot |-> FALSE]]
  BY DEF Open
<1>3. /\ home'[i] = "bare" /\ \A j \in Id : j # i => home'[j] = home[j]
      /\ step'[d].pc = "bare" /\ step'[d].id = i /\ ~step'[d].slot /\ \A e \in Daemon : e # d => step'[e] = step[e]
  BY <1>0, <1>2 DEF SpoolTyped
<1>4. /\ place[i] = "unborn" /\ lock[i] = "none" /\ i \notin captured /\ i \notin old /\ i \notin raced
      /\ \A e \in Daemon : ~Has(e, i) /\ i \notin disposals[e]
  BY <1>0, <1>2 DEF UnbornIsNothing, StepsOwn, HasAlone, LocksTell
<1>5. \A e \in Daemon, j \in Id : Has(e, j)' <=> (IF e = d THEN j = i ELSE Has(e, j))
  BY <1>3 DEF Has
<1>6. "bare" \notin Daemon
  BY DaemonsAreNoPlaces
<1>7. StepsOwn'
  <2> SUFFICES ASSUME NEW e \in Daemon, NEW j \in Id, Has(e, j)'
               PROVE  HasAlone(e, j)' /\ Own(e, j)'
    BY DEF StepsOwn
  <2>1. CASE e = d
    <3>1. j = i
      BY <1>5, <2>1
    <3>2. HasAlone(d, i)'
      BY <1>1, <1>3, <1>4, <1>5 DEF HasAlone
    <3>3. Own(d, i)'
      BY <1>1, <1>3, <1>4 DEF Own
    <3> QED BY <2>1, <3>1, <3>2, <3>3
  <2>2. CASE e # d
    <3>1. Has(e, j) /\ j # i
      BY <1>4, <1>5, <2>2
    <3>2. HasAlone(e, j) /\ Own(e, j)
      BY <1>0, <3>1 DEF StepsOwn
    <3>3. HasAlone(e, j)'
      BY <1>1, <1>3, <1>5, <2>2, <3>1, <3>2 DEF HasAlone
    <3>4. Own(e, j)'
      BY <1>1, <1>3, <2>2, <3>1, <3>2 DEF Own
    <3> QED BY <3>3, <3>4
  <2> QED BY <2>1, <2>2
<1>8. LocksTell'
  <2>1. \A e \in Daemon, j \in Id : Has(e, j) => Has(e, j)'
    BY <1>1, <1>5 DEF Has
  <2>2. \A e \in Daemon, j \in Id : j \in disposals[e] => home'[j] # "unborn" /\ \A g \in Daemon : ~Has(g, j)'
    <3> SUFFICES ASSUME NEW e \in Daemon, NEW j \in Id, j \in disposals[e], NEW g \in Daemon
                 PROVE  home'[j] # "unborn" /\ ~Has(g, j)'
      OBVIOUS
    <3>1. j # i /\ home[j] # "unborn" /\ ~Has(g, j)
      BY <1>0, <1>4 DEF LocksTell
    <3> QED BY <1>3, <1>5, <3>1
  <2>3. \A e \in Daemon, j \in Id : home'[j] = e => home[j] = e
    BY <1>3, <1>6
  <2> QED BY <1>0, <1>1, <2>1, <2>2, <2>3 DEF LocksTell
<1>9. UnbornIsNothing'
  BY <1>0, <1>1, <1>3 DEF UnbornIsNothing
<1>10. AllCaptured'
  <2>1. AllCaptured
    BY <1>0
  <2> QED BY <1>1, <2>1, Zenon DEF AllCaptured
<1>11. OneKeeper'
  BY <1>0, <1>1 DEF OneKeeper
<1>12. KeeperKnows'
  <2>1. \A j \in Id : (NoSession(j) => NoSession(j)') /\ (NoEntry(j) => NoEntry(j)')
    <3> TAKE j \in Id
    <3>1. CASE j = i
      BY <1>2, <3>1 DEF NoSession, NoEntry
    <3>2. CASE j # i
      <4>1. \A e \in Daemon : Has(e, j)' => Has(e, j) /\ e # d
        BY <1>5, <3>2
      <4> QED BY <1>1, <1>3, <3>2, <4>1 DEF NoSession, NoEntry
    <3> QED BY <3>1, <3>2
  <2> SUFFICES ASSUME NEW e \in Daemon
               PROVE  SweepKnows(e)' /\ ActKnows(e)' /\ PlanKnows(e)'
    BY DEF KeeperKnows
  <2>2. SweepKnows(e) /\ ActKnows(e) /\ PlanKnows(e)
    BY <1>0 DEF KeeperKnows
  <2> QED BY <1>0, <1>1, <2>1, <2>2, KeeperStays
<1> QED BY <1>7, <1>8, <1>9, <1>10, <1>11, <1>12 DEF SpoolInv

\* Report leaves the invariant.
LEMMA ReportKeeps == ASSUME SpoolInv, SpoolTyped', NEW d \in Daemon, Report(d) PROVE SpoolInv'
<1>0. SpoolTyped /\ StepsOwn /\ LocksTell /\ UnbornIsNothing /\ AllCaptured /\ OneKeeper /\ KeeperKnows
  BY DEF SpoolInv
<1>1. step[d].pc = "over" /\ UNCHANGED <<home, place, lock, rec, upper, old, keeper, spoolLock, captured, raced, torn>>
  BY DEF Report, At, files, history
<1>2. PICK i \in Id : InHandOf(d, i)
  BY <1>1, InHand
<1>3. /\ disposals' = [disposals EXCEPT ![d] = IF Disposable(d, i) THEN @ \cup {i} ELSE @]
      /\ step' = [step EXCEPT ![d] = Idle]
  BY <1>2 DEF Report, InHandOf
<1>4. step'[d].pc = "idle" /\ \A e \in Daemon : e # d => step'[e] = step[e]
  BY <1>0, <1>3 DEF SpoolTyped, Idle
<1>5. /\ \A e \in Daemon : e # d => disposals'[e] = disposals[e]
      /\ disposals'[d] = disposals[d] \/ (disposals'[d] = disposals[d] \cup {i} /\ lock[i] = d)
      /\ lock[i] = d => disposals'[d] = disposals[d] \cup {i}
  <2>1. lock[i] = d => Disposable(d, i)
    BY <1>1, <1>2 DEF InHandOf, Own, Disposable
  <2>2. Disposable(d, i) => lock[i] = d
    BY DEF Disposable
  <2> HIDE DEF Disposable
  <2> QED BY <1>0, <1>3, <2>1, <2>2 DEF SpoolTyped
<1>6. home[i] # "unborn" /\ home[i] # d /\ \A e \in Daemon : Has(e, i) => e = d
  BY <1>1, <1>2 DEF InHandOf, Own, HasAlone
<1>7. \A e \in Daemon, j \in Id : Has(e, j)' <=> e # d /\ Has(e, j)
  BY <1>4 DEF Has
<1>8. \A j \in Id : Has(d, j) => j = i
  BY <1>2 DEF InHandOf, Has
<1>9. StepsOwn'
  <2> SUFFICES ASSUME NEW e \in Daemon, NEW j \in Id, e # d, Has(e, j)
               PROVE  HasAlone(e, j)' /\ Own(e, j)'
    BY <1>7 DEF StepsOwn
  <2>1. HasAlone(e, j) /\ Own(e, j) /\ j # i
    BY <1>0, <1>6 DEF StepsOwn
  <2>2. HasAlone(e, j)'
    BY <1>1, <1>5, <1>7, <2>1 DEF HasAlone
  <2>3. Own(e, j)'
    BY <1>1, <1>4, <2>1 DEF Own
  <2> QED BY <2>2, <2>3
<1>10. LocksTell'
  <2>1. \A j \in Id, e \in Daemon : lock[j] = e => j \notin captured /\ (j \in disposals'[e] \/ Has(e, j)')
    <3> SUFFICES ASSUME NEW j \in Id, NEW e \in Daemon, lock[j] = e
                 PROVE  j \notin captured /\ (j \in disposals'[e] \/ Has(e, j)')
      OBVIOUS
    <3>1. j \notin captured /\ (j \in disposals[e] \/ Has(e, j))
      BY <1>0 DEF LocksTell
    <3> QED BY <1>5, <1>7, <1>8, <3>1
  <2>2. \A j \in Id, e \in Daemon : j \in disposals'[e] => lock[j] = e /\ home[j] # "unborn" /\ \A g \in Daemon : ~Has(g, j)'
    <3> SUFFICES ASSUME NEW j \in Id, NEW e \in Daemon, j \in disposals'[e]
                 PROVE  lock[j] = e /\ home[j] # "unborn" /\ \A g \in Daemon : ~Has(g, j)'
      OBVIOUS
    <3>1. CASE j \in disposals[e]
      BY <1>0, <1>7, <3>1 DEF LocksTell
    <3>2. CASE j \notin disposals[e]
      BY <1>5, <1>6, <1>7, <3>2
    <3> QED BY <3>1, <3>2
  <2>3. \A j \in Id, e \in Daemon : home[j] = e => Has(e, j)'
    <3> SUFFICES ASSUME NEW j \in Id, NEW e \in Daemon, home[j] = e
                 PROVE  Has(e, j)'
      OBVIOUS
    <3>1. Has(e, j)
      BY <1>0 DEF LocksTell
    <3> QED BY <1>6, <1>7, <1>8, <3>1
  <2> QED BY <1>1, <2>1, <2>2, <2>3 DEF LocksTell
<1>11. UnbornIsNothing'
  BY <1>0, <1>1 DEF UnbornIsNothing
<1>12. AllCaptured'
  <2>1. AllCaptured
    BY <1>0
  <2> QED BY <1>1, <2>1, Zenon DEF AllCaptured
<1>13. OneKeeper'
  BY <1>0, <1>1 DEF OneKeeper
<1>14. KeeperKnows'
  <2>1. \A j \in Id : (NoSession(j) => NoSession(j)') /\ (NoEntry(j) => NoEntry(j)')
    BY <1>1, <1>4, <1>7 DEF NoSession, NoEntry
  <2> SUFFICES ASSUME NEW e \in Daemon
               PROVE  SweepKnows(e)' /\ ActKnows(e)' /\ PlanKnows(e)'
    BY DEF KeeperKnows
  <2>2. SweepKnows(e) /\ ActKnows(e) /\ PlanKnows(e)
    BY <1>0 DEF KeeperKnows
  <2> QED BY <1>0, <1>1, <2>1, <2>2, KeeperStays
<1> QED BY <1>9, <1>10, <1>11, <1>12, <1>13, <1>14 DEF SpoolInv
-----------------------------------------------------------------------------
(* The invariant, and what it says of every behaviour.                     *)

LEMMA SpoolInit == Init => SpoolInv
<1> SUFFICES ASSUME Init
             PROVE  SpoolInv
  OBVIOUS
<1>0. "unborn" \notin Daemon /\ "none" \notin Daemon /\ NoOne \notin Daemon /\ NoOne = "none"
  BY DaemonsAreNoPlaces DEF NoOne
<1>1. \A d \in Daemon : step[d] = Idle /\ step[d].pc = "idle" /\ keeper[d] = Keeper("off") /\ disposals[d] = {}
  BY DEF Init, Idle
<1>2. \A d \in Daemon : keeper[d].pc = "off" /\ DOMAIN keeper[d].evicted = {}
  BY <1>1 DEF Keeper
<1>3. \A i \in Id : home[i] = "unborn" /\ place[i] = "unborn" /\ lock[i] = "none" /\ rec[i] = NoRecord
  BY DEF Init
<1>4. \A d \in Daemon, i \in Id : ~Has(d, i)
  BY <1>1 DEF Has
<1>5. SpoolTyped
  <2>1. /\ home \in [Id -> HomePlaces] /\ place \in [Id -> {"unborn", "spool", "trash", "gone"}]
        /\ lock \in [Id -> {"none", "free"} \cup Daemon] /\ upper \in [Id -> {"none", "home", "entry", "trash", "gone"}]
    BY DEF Init, HomePlaces
  <2>2. rec \in [Id -> Record]
    BY RecordTypes DEF Init
  <2>3. step \in [Daemon -> StepPlace]
    BY DEF Init, Idle, StepPlace, StepPcs
  <2>4. Keeper("off") \in KeeperPlace
    <3>1. <<>> \in [{} -> Record]
      OBVIOUS
    <3>2. <<>> \in UNION {[S -> Record] : S \in SUBSET Id}
      BY <3>1
    <3> QED BY <3>2 DEF Keeper, KeeperPlace, KeeperPcs, NoFinding
  <2>5. keeper \in [Daemon -> KeeperPlace]
    BY <2>4 DEF Init
  <2>6. disposals \in [Daemon -> SUBSET Id] /\ reports \in [Daemon -> SUBSET (Id \X Outcomes)]
    BY DEF Init
  <2>7. old \subseteq Id /\ captured \subseteq Id /\ raced \subseteq Id /\ torn \subseteq Id /\ spoolLock \in Daemon \cup {NoOne}
    BY DEF Init
  <2> QED BY <1>1, <1>2, <2>1, <2>2, <2>3, <2>5, <2>6, <2>7 DEF SpoolTyped
<1>6. StepsOwn /\ UnbornIsNothing
  BY <1>3, <1>4 DEF StepsOwn, UnbornIsNothing, Init
<1>7. LocksTell
  BY <1>0, <1>1, <1>3 DEF LocksTell
<1>8. AllCaptured
  BY <1>3 DEF AllCaptured, NoRecord, Init
<1>9. OneKeeper
  BY <1>0, <1>2 DEF OneKeeper, Init
<1>10. KeeperKnows
  BY <1>2 DEF KeeperKnows, SweepKnows, ActKnows, PlanKnows
<1> QED BY <1>5, <1>6, <1>7, <1>8, <1>9, <1>10 DEF SpoolInv

LEMMA SpoolStep == SpoolInv /\ [Next]_vars => SpoolInv'
<1> SUFFICES ASSUME SpoolInv, [Next]_vars
             PROVE  SpoolInv'
  OBVIOUS
<1>1. SpoolTyped'
  BY TypesStay DEF SpoolInv
<1>2. ASSUME NEW d \in Daemon, Work(d)
      PROVE  SpoolInv'
  BY <1>1, <1>2, OpenKeeps, MakeSessionFileKeeps, HoldSessionKeeps, OpenFailsKeeps, ReserveFolderKeeps, ReserveFileKeeps,
     ReserveHoldKeeps, ReserveRecordKeeps, ReserveFailsKeeps, CloseUnkeptKeeps, CloseKeepingKeeps, CommitKeeps,
     AbandonKeeps, ReportKeeps DEF Work
<1>3. ASSUME NEW d \in Daemon, Start(d) \/ Settling(d)
      PROVE  SpoolInv'
  BY <1>1, <1>3, SweepLookKeeps, SweepMoveKeeps, ReconcileKeeps, LookKeeps, ActKeeps, DisposeOneKeeps, WriteReportKeeps,
     SettleReadKeeps, SettleMoveKeeps, SettleRecordKeeps DEF Start, Settling
<1>4. ASSUME NEW d \in Daemon, Delete(d) \/ Crash(d)
      PROVE  SpoolInv'
  BY <1>1, <1>4, DeleteKeeps, CrashKeeps
<1>5. CASE Age \/ Expire \/ UNCHANGED vars
  BY <1>1, <1>5, TimeKeeps
<1> QED BY <1>2, <1>3, <1>4, <1>5 DEF Next

\* Every reachable state is as the invariant says: the records, the folders, the flocks, and what each keeper and each
\* worker has in hand.
THEOREM SpoolInvariant == Spec => []SpoolInv
<1> QED BY SpoolInit, SpoolStep, PTL DEF Spec

\* What a receipt calls captured stays in the spool until it is due, with its upper unless that was evicted.
THEOREM CapturedIsKept == Spec => []CapturedStays
<1>1. SpoolInv => CapturedStays
  <2> SUFFICES ASSUME SpoolInv, NEW i \in captured \ raced, ~rec[i].due
               PROVE  /\ place[i] = "spool" /\ rec[i].state \in {"kept", "evicted"}
                      /\ rec[i].state = "kept" /\ i \notin torn /\ (\A d \in Daemon : i \notin DOMAIN keeper[d].evicted)
                            => upper[i] = "entry"
    BY DEF CapturedStays
  <2>1. place[i] = "spool"
    BY Clauses, Zenon
  <2>2. i \in Id /\ rec[i].state \in {"kept", "evicted"}
    BY Clauses
  <2> QED BY <2>1, <2>2, Clauses
<1> QED BY <1>1, SpoolInvariant, PTL

\* A worker's action is about its own step, and moves it on.
LEMMA WorkIsOwn ==
    ASSUME SpoolInv, NEW d \in Daemon, Work(d), NEW i \in Id,
           (home'[i] # home[i] /\ home[i] # "unborn") \/ (place'[i] # place[i] /\ lock[i] # "none")
    PROVE  InHandOf(d, i) /\ step'[d] # step[d]
<1>0. SpoolTyped
  BY DEF SpoolInv
<1>1. CASE Open(d)
  <2>1. \A j \in Id : home'[j] = home[j] \/ home[j] = "unborn"
    BY <1>0, <1>1 DEF Open, SpoolTyped
  <2>2. place' = place
    BY <1>1 DEF Open
  <2> QED BY <2>1, <2>2
<1>2. CASE ReserveHold(d) \/ ReserveRecord(d) \/ Commit(d) \/ Report(d)
  <2>1. home' = home /\ place' = place
    BY <1>2 DEF ReserveHold, ReserveRecord, Commit, Report, files
  <2> QED BY <2>1
<1>3. CASE \/ MakeSessionFile(d) \/ HoldSession(d) \/ OpenFails(d) \/ ReserveFolder(d) \/ ReserveFile(d) \/ ReserveFails(d)
           \/ CloseUnkept(d) \/ CloseKeeping(d) \/ Abandon(d)
  <2>1. step[d].pc # "idle" /\ \E pc \in StepPcs : Go(d, pc) /\ pc # step[d].pc
    BY <1>3 DEF MakeSessionFile, HoldSession, OpenFails, ReserveFolder, ReserveFile, ReserveFails, CloseUnkept, CloseKeeping,
                Abandon, At, StepPcs
  <2>2. step'[d] # step[d]
    BY <1>0, <2>1, GoMoves DEF SpoolTyped
  <2>3. PICK j \in Id : InHandOf(d, j)
    BY <2>1, InHand
  <2>4. j = step[d].id
    BY <2>3 DEF InHandOf
  <2>5. \A k \in Id : k # j => home'[k] = home[k] /\ place'[k] = place[k]
    BY <1>0, <1>3, <2>4 DEF MakeSessionFile, HoldSession, OpenFails, ReserveFolder, ReserveFile, ReserveFails, CloseUnkept,
       CloseKeeping, Abandon, Release, SpoolTyped
  <2> QED BY <2>2, <2>3, <2>5
<1> QED BY <1>1, <1>2, <1>3 DEF Work

\* Nobody but the daemon of a step moves its session while the daemon holds it, and nobody but the daemon, its worker or
\* its keeper, takes an entry it holds out of the spool - but for what was taken for an orphan between file and lock.
THEOREM OwnersAreSafe == Spec => OwnersOnly
<1> DEFINE Safe == \A i \in Id, d \in Daemon :
         /\ home[i] = d /\ home'[i] # d /\ keeper'[d].pc # "off" => step'[d] # step[d] \/ i \in raced
         /\ lock[i] = d /\ place[i] = "spool" /\ place'[i] # "spool" =>
              step'[d] # step[d] \/ disposals'[d] # disposals[d] \/ i \in raced
<1>1. SpoolInv /\ [Next]_vars => [Safe]_vars
  <2> SUFFICES ASSUME SpoolInv, Next, NEW i \in Id, NEW d \in Daemon
               PROVE  /\ home[i] = d /\ home'[i] # d /\ keeper'[d].pc # "off" => step'[d] # step[d] \/ i \in raced
                      /\ lock[i] = d /\ place[i] = "spool" /\ place'[i] # "spool" =>
                           step'[d] # step[d] \/ disposals'[d] # disposals[d] \/ i \in raced
    OBVIOUS
  <2> DEFINE G == /\ home[i] = d /\ home'[i] # d /\ keeper'[d].pc # "off" => step'[d] # step[d] \/ i \in raced
                  /\ lock[i] = d /\ place[i] = "spool" /\ place'[i] # "spool" =>
                        step'[d] # step[d] \/ disposals'[d] # disposals[d] \/ i \in raced
  <2>0. SpoolTyped /\ LocksTell /\ KeeperKnows
    BY DEF SpoolInv
  <2>1. home[i] = d => home[i] \notin {"unborn", "trash", "gone"} /\ (lock[i] = d => lock[i] # "none")
    BY DaemonsAreNoPlaces
  <2>2. lock[i] = d => lock[i] # "none" /\ i \notin captured /\ ~rec[i].due
    <3>1. lock[i] = d => lock[i] # "none" /\ i \notin captured
      BY <2>0, DaemonsAreNoPlaces DEF LocksTell
    <3> QED BY <3>1, Clauses, Zenon
  <2>3. ASSUME NEW e \in Daemon, Work(e)
        PROVE  G
    <3>1. CASE (home[i] = d /\ home'[i] # d) \/ (lock[i] = d /\ place[i] = "spool" /\ place'[i] # "spool")
      <4>1. InHandOf(e, i) /\ step'[e] # step[e]
        BY <2>1, <2>2, <2>3, <3>1, WorkIsOwn
      <4>2. e = d
        BY <3>1, <4>1 DEF InHandOf
      <4> QED BY <4>1, <4>2
    <3> QED BY <3>1
  <2>4. ASSUME NEW e \in Daemon, SweepMove(e)
        PROVE  G
    <3>1. place' = place /\ keeper[e].pc = "swept" /\ (home'[i] # home[i] => i \in keeper[e].todo)
      BY <2>4 DEF SweepMove, KeeperAt
    <3>2. home'[i] # home[i] => i \in raced \/ home[i] \notin Daemon
      BY <2>0, <3>1 DEF KeeperKnows, SweepKnows, NoSession
    <3> QED BY <3>1, <3>2
  <2>5. ASSUME NEW e \in Daemon, Act(e)
        PROVE  G
    <3>1. home' = home /\ keeper[e].pc = "act"
          /\ place' = [place EXCEPT ![keeper[e].found.id] = IF keeper[e].found.verdict = "trash" THEN Trashed(@, "spool") ELSE @]
      BY <2>5 DEF Act, KeeperAt
    <3>2. place'[i] # place[i] => i = keeper[e].found.id /\ keeper[e].found.verdict = "trash"
      BY <2>0, <3>1, KeepersRecords DEF SpoolTyped
    <3>3. ActKnows(e)
      BY <2>0 DEF KeeperKnows
    <3>4. place'[i] # place[i] => i \in raced \/ lock[i] \notin Daemon
      BY <3>1, <3>2, <3>3 DEF ActKnows, NoEntry
    <3> QED BY <3>1, <3>4
  <2>6. ASSUME NEW e \in Daemon, DisposeOne(e)
        PROVE  G
    <3>1. PICK j \in disposals[e] : /\ disposals' = [disposals EXCEPT ![e] = @ \ {j}]
                                    /\ place' = [place EXCEPT ![j] = Removed(@)] /\ home' = home
      BY <2>6 DEF DisposeOne
    <3>2. j \in Id /\ lock[j] = e /\ disposals'[e] # disposals[e]
      BY <2>0, <3>1 DEF SpoolTyped, LocksTell
    <3>3. place'[i] # place[i] => i = j
      BY <2>0, <3>1, <3>2 DEF SpoolTyped
    <3> QED BY <3>1, <3>2, <3>3
  <2>7. ASSUME NEW e \in Daemon, SettleRead(e)
        PROVE  G
    <3>1. home' = home /\ (place'[i] # place[i] => rec[i].due)
      BY <2>7 DEF SettleRead
    <3> QED BY <2>2, <3>1, Zenon
  <2>8. ASSUME NEW e \in Daemon, SettleMove(e)
        PROVE  G
    <3>1. PICK fs \in Disks, stuck \in SUBSET Id : Planned(e, fs, stuck)
      BY <2>8, SettleMoves
    <3> DEFINE expire == Expires(fs, stuck)
    <3>2. \A k \in expire : rec[k].due
      BY PlanTells
    <3>3. place' = [k \in Id |-> IF k \in expire THEN "trash" ELSE place[k]]
      BY <3>1 DEF Planned
    <3> HIDE DEF expire
    <3>4. place'[i] # place[i] => rec[i].due
      BY <3>2, <3>3, Zenon
    <3>5. home' = home
      BY <2>8 DEF SettleMove
    <3> QED BY <2>2, <3>4, <3>5, Zenon
  <2>9. ASSUME NEW e \in Daemon, Delete(e)
        PROVE  G
    <3>1. (home'[i] # home[i] => home[i] = "trash") /\ (place'[i] # place[i] => place[i] = "trash")
      BY <2>9 DEF Delete
    <3> QED BY <2>1, <3>1
  <2>10. ASSUME NEW e \in Daemon, Crash(e)
         PROVE  G
    <3>1. place' = place /\ (home'[i] # home[i] => home[i] = e) /\ Keep(e, "off")
      BY <2>10 DEF Crash
    <3>2. keeper'[e].pc = "off"
      BY <2>0, <3>1, KeepMoves DEF SpoolTyped, KeeperPcs
    <3> QED BY <3>1, <3>2
  <2>11. ASSUME NEW e \in Daemon, SweepLook(e) \/ Reconcile(e) \/ Look(e) \/ Reconciled(e) \/ WriteReport(e) \/ SettleRecord(e)
         PROVE  G
    <3>1. home' = home /\ place' = place
      BY <2>11 DEF SweepLook, Reconcile, Look, Reconciled, WriteReport, SettleRecord, files
    <3> QED BY <3>1
  <2>12. ASSUME Age \/ Expire
         PROVE  G
    <3>1. home' = home /\ place' = place
      BY <2>12 DEF Age, Expire, files
    <3> QED BY <3>1
  <2> HIDE DEF G
  <2>13. G
    <3>1. ASSUME NEW e \in Daemon, Start(e) \/ Settling(e)
          PROVE  G
      BY <2>4, <2>5, <2>6, <2>7, <2>8, <2>11, <3>1 DEF Start, Settling
    <3> QED BY <2>3, <2>9, <2>10, <2>12, <3>1 DEF Next
  <2> QED BY <2>13 DEF G
<1>2. Spec => [][Safe]_vars
  <2> HIDE DEF Safe
  <2> QED BY <1>1, SpoolInvariant, PTL DEF Spec
<1> QED BY <1>2 DEF OwnersOnly
=============================================================================
