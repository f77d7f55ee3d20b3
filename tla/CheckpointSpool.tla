--------------------------- MODULE CheckpointSpool ---------------------------
(***************************************************************************)
(* The scratch directory that daemons of one host share: session folders,  *)
(* the spool of checkpoints, the trash (internal/scratch, and              *)
(* internal/enode/checkpoint.go, trash_linux.go).                          *)
(*                                                                         *)
(* A step opens a session folder, reserves an entry of the spool, moves    *)
(* its upper there when the session closes and commits the entry, or gives *)
(* it up. Each daemon has a keeper, which reconciles the spool when it     *)
(* starts and then settles it again and again, and a deleter, which        *)
(* empties the trash. Nobody talks to anybody: what keeps the daemons      *)
(* apart are flocks, of a session, of an entry, and of the spool, which    *)
(* the kernel drops when a daemon dies.                                    *)
(*                                                                         *)
(* One index stands for a step's session folder and for its entry. A       *)
(* write of a record is a rename and so one step.                          *)
(***************************************************************************)
EXTENDS SpoolPolicy, TLC

CONSTANTS
    Daemon,      \* the daemons that share the scratch
    Id,          \* steps, and the session and entry of each
    Size,        \* Id -> the bytes a helper measures
    Policy,      \* the policy of the daemons
    Disks,       \* what statfs may say
    Outcomes,    \* how the report of a step may go
    NoId,        \* no step
    MaxCrashes   \* bound: crashes

\* A place is told from a daemon, and no step from a step.
ASSUME DaemonsAreNoPlaces == Daemon \cap {"unborn", "bare", "free", "trash", "gone", "none"} = {}
ASSUME NoIdIsNone == NoId \notin Id
ASSUME SizesAreNumbers == Size \in [Id -> Nat]

VARIABLES
    home,       \* session folders: unborn, bare (no lock file), free, held by a daemon, trash
    place,      \* entry folders: unborn, spool, trash, gone
    lock,       \* lock file of an entry: none, free, or the daemon that holds it
    rec,        \* record of an entry
    upper,      \* where the step's upper is: none, home, entry, trash (evicted), gone
    old,        \* folders older than an hour
    step,       \* what the worker of a daemon does
    keeper,     \* what the keeper of a daemon does
    disposals, reports,  \* what the worker left to the keeper
    spoolLock,  \* who holds spool/.lock
    crashes,    \* bound
    captured,   \* history: ids whose receipt says captured
    raced,      \* history: taken for an orphan between lock file and lock
    torn        \* history: evictions cut by a crash

files == <<home, place, lock, rec, upper>>
queues == <<disposals, reports>>
history == <<captured, raced, torn>>
vars == <<files, old, step, keeper, queues, spoolLock, crashes, history>>

-----------------------------------------------------------------------------
NoOne == "none"
NoRecord == [state |-> "none", at |-> 0, bytes |-> Unmeasured, report |-> "", due |-> FALSE]

Reserved == [NoRecord EXCEPT !.state = "reserved"]

\* Store.Commit: the order of capture is what the clock is for.
Kept == [NoRecord EXCEPT !.state = "kept",
                         !.at = 1 + Cardinality({i \in Id : rec[i].state \in {"kept", "evicted"}})]

Idle == [pc |-> "idle", id |-> NoId, slot |-> FALSE]
NoFinding == <<>>
Keeper(pc) == [pc |-> pc, todo |-> {}, found |-> NoFinding, sizes |-> {}, evicted |-> <<>>]

Init ==
    /\ home = [i \in Id |-> "unborn"] /\ place = [i \in Id |-> "unborn"]
    /\ lock = [i \in Id |-> "none"] /\ rec = [i \in Id |-> NoRecord]
    /\ upper = [i \in Id |-> "none"]
    /\ old = {}
    /\ step = [d \in Daemon |-> Idle] /\ keeper = [d \in Daemon |-> Keeper("off")]
    /\ disposals = [d \in Daemon |-> {}] /\ reports = [d \in Daemon |-> {}]
    /\ spoolLock = NoOne /\ crashes = 0
    /\ captured = {} /\ raced = {} /\ torn = {}

\* The start-up sweep is before the worker, the keeper and the deleter.
Up(d) == keeper[d].pc \notin {"off", "swept"}

-----------------------------------------------------------------------------
(* The step: session folder.                                               *)

At(d, pc) == Up(d) /\ step[d].pc = pc
Go(d, pc) == step' = [step EXCEPT ![d].pc = pc]

Open(d) ==
    /\ At(d, "idle")
    /\ \E i \in Id :
        /\ home[i] = "unborn"
        /\ home' = [home EXCEPT ![i] = "bare"]
        /\ step' = [step EXCEPT ![d] = [pc |-> "bare", id |-> i, slot |-> FALSE]]
    /\ UNCHANGED <<place, lock, rec, upper, old, keeper, queues, spoolLock, crashes, history>>

\* HoldSession opens the file, then locks it without waiting.
MakeSessionFile(d) ==
    /\ At(d, "bare")
    /\ home' = [home EXCEPT ![step[d].id] = "free"]
    /\ Go(d, "file")
    /\ UNCHANGED <<place, lock, rec, upper, old, keeper, queues, spoolLock, crashes, history>>

\* The helper then finds its folder, or not.
HoldSession(d) ==
    /\ At(d, "file")
    /\ LET i == step[d].id IN
        IF home[i] = "free"
        THEN /\ home' = [home EXCEPT ![i] = d] /\ upper' = [upper EXCEPT ![i] = "home"]
             /\ Go(d, "open")
        ELSE Go(d, "over") /\ UNCHANGED <<home, upper>>
    /\ UNCHANGED <<place, lock, rec, old, keeper, queues, spoolLock, crashes, history>>

\* discard, abort
OpenFails(d) ==
    /\ \E pc \in {"bare", "file", "open"} : At(d, pc)
    /\ home' = [home EXCEPT ![step[d].id] = IF @ = "gone" THEN @ ELSE "trash"]
    /\ Go(d, "over")
    /\ UNCHANGED <<place, lock, rec, upper, old, keeper, queues, spoolLock, crashes, history>>

-----------------------------------------------------------------------------
(* The step: reservation.                                                  *)

ReserveFolder(d) ==
    /\ At(d, "open")
    /\ place' = [place EXCEPT ![step[d].id] = "spool"]
    /\ Go(d, "made")
    /\ UNCHANGED <<home, lock, rec, upper, old, keeper, queues, spoolLock, crashes, history>>

ReserveFile(d) ==
    /\ At(d, "made")
    /\ lock' = [lock EXCEPT ![step[d].id] = "free"]
    /\ Go(d, "unlocked")
    /\ UNCHANGED <<home, place, rec, upper, old, keeper, queues, spoolLock, crashes, history>>

\* The flock is on the file, wherever the folder went.
ReserveHold(d) ==
    /\ At(d, "unlocked")
    /\ lock' = [lock EXCEPT ![step[d].id] = d]
    /\ Go(d, "held")
    /\ UNCHANGED <<home, place, rec, upper, old, keeper, queues, spoolLock, crashes, history>>

ReserveRecord(d) ==
    /\ At(d, "held")
    /\ place[step[d].id] = "spool"
    /\ rec' = [rec EXCEPT ![step[d].id] = Reserved]
    /\ step' = [step EXCEPT ![d].pc = "runs", ![d].slot = TRUE]
    /\ UNCHANGED <<home, place, lock, upper, old, keeper, queues, spoolLock, crashes, history>>

\* Reserve's fail: the two files and the folder are removed, if they are there.
\* The step runs without a slot.
Removed(where) == IF where = "spool" THEN "gone" ELSE where

ReserveFails(d) ==
    /\ \E pc \in {"made", "unlocked", "held"} : At(d, pc)
    /\ place' = [place EXCEPT ![step[d].id] = Removed(@)]
    /\ lock' = [lock EXCEPT ![step[d].id] = "none"]
    /\ Go(d, "runs")
    /\ UNCHANGED <<home, rec, upper, old, keeper, queues, spoolLock, crashes, history>>

-----------------------------------------------------------------------------
(* The step: the end.                                                      *)

\* Trash.Move, of a folder that may have gone.
Trashed(where, from) == IF where = from THEN "trash" ELSE where

\* Session.release: the folder first, its lock second.
Release(d) == home' = [home EXCEPT ![step[d].id] = Trashed(@, d)]

\* Decide says no (not asked for, no budget, no room), Close is too late, or
\* the lease ended: Close moves the upper with its folder.
CloseUnkept(d) ==
    /\ At(d, "runs")
    /\ Release(d) /\ Go(d, "over")
    /\ UNCHANGED <<place, lock, rec, upper, old, keeper, queues, spoolLock, crashes, history>>

\* keepUpper: one rename, which finds both folders or fails.
CloseKeeping(d) ==
    /\ At(d, "runs") /\ step[d].slot
    /\ Release(d)
    /\ LET i == step[d].id IN
        IF home[i] = d /\ place[i] = "spool"
        THEN upper' = [upper EXCEPT ![i] = "entry"] /\ Go(d, "kept")
        ELSE Go(d, "over") /\ UNCHANGED upper
    /\ UNCHANGED <<place, lock, rec, old, keeper, queues, spoolLock, crashes, history>>

\* Store.Commit.
Commit(d) ==
    /\ At(d, "kept")
    /\ LET i == step[d].id IN
        /\ place[i] = "spool"
        /\ rec' = [rec EXCEPT ![i] = Kept]
        /\ lock' = [lock EXCEPT ![i] = "free"]
        /\ captured' = captured \cup {i}
    /\ Go(d, "over")
    /\ UNCHANGED <<home, place, upper, old, keeper, queues, spoolLock, crashes, raced, torn>>

\* The budget ran out after the move, or the record could not be written.
\* The entry stays reserved when the trash does not take it.
Abandon(d) ==
    /\ At(d, "kept")
    /\ \E moved \in BOOLEAN :
        place' = [place EXCEPT ![step[d].id] = IF moved THEN Trashed(@, "spool") ELSE @]
    /\ lock' = [lock EXCEPT ![step[d].id] = "free"]
    /\ Go(d, "over")
    /\ UNCHANGED <<home, rec, upper, old, keeper, queues, spoolLock, crashes, history>>

\* Slip: a reservation is given back when it was used, too.
DisposableUsed(d, i) == step[d].slot

\* CheckpointKeeper.Dispose: neither committed nor abandoned.
Disposable(d, i) == step[d].slot /\ lock[i] = d

\* Worker.report, whose deferred calls leave the outcome to the keeper, and
\* then the deferred Dispose, which leaves it a reservation nobody used.
Report(d) ==
    /\ At(d, "over")
    /\ LET i == step[d].id IN
        /\ \E o \in Outcomes :
            reports' = [reports EXCEPT ![d] = IF i \in captured THEN @ \cup {<<i, o>>} ELSE @]
        /\ disposals' = [disposals EXCEPT ![d] = IF Disposable(d, i) THEN @ \cup {i} ELSE @]
    /\ step' = [step EXCEPT ![d] = Idle]
    /\ UNCHANGED <<files, old, keeper, spoolLock, crashes, history>>

Work(d) ==
    \/ Open(d) \/ MakeSessionFile(d) \/ HoldSession(d) \/ OpenFails(d)
    \/ ReserveFolder(d) \/ ReserveFile(d) \/ ReserveHold(d) \/ ReserveRecord(d) \/ ReserveFails(d)
    \/ CloseUnkept(d) \/ CloseKeeping(d) \/ Commit(d) \/ Abandon(d) \/ Report(d)

-----------------------------------------------------------------------------
(* The start of a daemon.                                                  *)

KeeperAt(d, pc) == keeper[d].pc = pc
Keep(d, pc) == keeper' = [keeper EXCEPT ![d] = Keeper(pc)]

\* A step of a live daemon is between the lock file of i and the lock.
InWindow(i, pc) == \E d \in Daemon : step[d].id = i /\ step[d].pc = pc

\* Orphans: each session folder is looked at, the locks are let go again.
Orphaned(i) == home[i] = "free" \/ (home[i] = "bare" /\ i \in old)

SweepLook(d) ==
    /\ KeeperAt(d, "off")
    /\ LET orphans == {i \in Id : Orphaned(i)} IN
        /\ keeper' = [keeper EXCEPT ![d] = [Keeper("swept") EXCEPT !.todo = orphans]]
        /\ raced' = raced \cup {i \in orphans : InWindow(i, "file")}
    /\ UNCHANGED <<files, old, step, queues, spoolLock, crashes, captured, torn>>

SweepMove(d) ==
    /\ KeeperAt(d, "swept")
    /\ home' = [i \in Id |-> IF i \in keeper[d].todo /\ home[i] # "gone" THEN "trash" ELSE home[i]]
    /\ Keep(d, "start")
    /\ UNCHANGED <<place, lock, rec, upper, old, step, queues, spoolLock, crashes, history>>

\* Store.Reconcile, under the lock of the spool.
Reconcile(d) ==
    /\ KeeperAt(d, "start") /\ spoolLock = NoOne
    /\ spoolLock' = d
    /\ keeper' = [keeper EXCEPT ![d] = [Keeper("look") EXCEPT !.todo = {i \in Id : place[i] = "spool"}]]
    /\ UNCHANGED <<files, old, step, queues, crashes, history>>

Finding(i) ==
    [lockFile |-> lock[i] # "none", lockFree |-> lock[i] = "free", old |-> i \in old,
     state |-> rec[i].state, due |-> rec[i].due, report |-> rec[i].report]

\* found, PlanReconcile: the lock is probed and let go, the record read.
Look(d) ==
    /\ KeeperAt(d, "look")
    /\ \E i \in keeper[d].todo :
        LET v == IF place[i] = "spool" THEN PlanReconcile(Finding(i)) ELSE "leave" IN
        /\ keeper' = [keeper EXCEPT ![d].pc = IF v = "leave" THEN "look" ELSE "act",
                                    ![d].todo = @ \ {i},
                                    ![d].found = IF v = "leave" THEN NoFinding
                                                 ELSE [id |-> i, verdict |-> v, rec |-> rec[i]]]
        /\ raced' = IF v = "trash" /\ InWindow(i, "unlocked") THEN raced \cup {i} ELSE raced
    /\ UNCHANGED <<files, old, step, queues, spoolLock, crashes, captured, torn>>

Act(d) ==
    /\ KeeperAt(d, "act")
    /\ LET f == keeper[d].found IN
        /\ place' = [place EXCEPT ![f.id] = IF f.verdict = "trash" THEN Trashed(@, "spool") ELSE @]
        /\ rec' = [rec EXCEPT ![f.id] = IF f.verdict = "mark" THEN [f.rec EXCEPT !.report = "unknown"] ELSE @]
    /\ keeper' = [keeper EXCEPT ![d].pc = "look", ![d].found = NoFinding]
    /\ UNCHANGED <<home, lock, upper, old, step, queues, spoolLock, crashes, history>>

Reconciled(d) ==
    /\ KeeperAt(d, "look") /\ keeper[d].todo = {}
    /\ spoolLock' = NoOne /\ Keep(d, "pass")
    /\ UNCHANGED <<files, old, step, queues, crashes, history>>

-----------------------------------------------------------------------------
(* The passes of the keeper.                                               *)

\* drain: a reservation the step did not use.
DisposeOne(d) ==
    /\ KeeperAt(d, "pass")
    /\ \E i \in disposals[d] :
        /\ disposals' = [disposals EXCEPT ![d] = @ \ {i}]
        /\ place' = [place EXCEPT ![i] = Removed(@)]
        /\ rec' = [rec EXCEPT ![i] = IF place[i] = "spool" THEN NoRecord ELSE @]
        /\ lock' = [lock EXCEPT ![i] = IF place[i] = "spool" THEN "none" ELSE "free"]
    /\ UNCHANGED <<home, upper, old, step, keeper, reports, spoolLock, crashes, history>>

\* lockSpool waits.
MayWrite == spoolLock = NoOne

\* drain: Store.Report, under the lock of the spool.
WriteReport(d) ==
    /\ KeeperAt(d, "pass") /\ MayWrite
    /\ \E r \in reports[d] :
        /\ reports' = [reports EXCEPT ![d] = @ \ {r}]
        /\ rec' = [rec EXCEPT ![r[1]] =
                      IF place[r[1]] = "spool" THEN [@ EXCEPT !.report = r[2]] ELSE @]
    /\ UNCHANGED <<home, place, lock, upper, old, step, keeper, disposals, spoolLock, crashes, history>>

\* The readable records of the spool.
Entries == {[id |-> i, state |-> rec[i].state, at |-> rec[i].at, pos |-> 0, bytes |-> rec[i].bytes, inodes |-> 1,
             due |-> rec[i].due] : i \in {i \in Id : place[i] = "spool" /\ rec[i].state # "none"}}

\* Settle, 1 and 2: under the lock, what expired goes to the trash; without
\* it, what is not measured is. A helper that does not start ends the
\* measuring, one that does not find the upper fails. A pass comes when it is
\* kicked, after a report, or by the timer.
SettleRead(d) ==
    /\ KeeperAt(d, "pass") /\ disposals[d] = {} /\ reports[d] = {}
    /\ spoolLock = NoOne
    /\ place' = [i \in Id |-> IF rec[i].due THEN Trashed(place[i], "spool") ELSE place[i]]
    /\ \E S \in SUBSET {e.id : e \in {e \in Entries :
                e.state = "kept" /\ ~e.due /\ e.bytes = Unmeasured /\ upper[e.id] = "entry"}} :
        keeper' = [keeper EXCEPT ![d] = [Keeper("settle") EXCEPT !.sizes = S]]
    /\ UNCHANGED <<home, lock, rec, upper, old, step, queues, spoolLock, crashes, history>>

\* Settle, 3: the records are read again; a size is written to what is still
\* kept and not measured.
Sized(sizes) ==
    [i \in Id |-> IF i \in sizes /\ rec[i].state = "kept" /\ rec[i].bytes = Unmeasured
                  THEN [rec[i] EXCEPT !.bytes = Size[i]]
                  ELSE rec[i]]

\* Settle, 4: what the plan takes is moved, before any record says so. What
\* cannot be moved stays as it is, for a later pass.
SettleMove(d) ==
    /\ KeeperAt(d, "settle") /\ spoolLock = NoOne
    /\ spoolLock' = d
    /\ rec' = Sized({i \in keeper[d].sizes : place[i] = "spool"})
    /\ \E fs \in Disks, stuck \in SUBSET Id :
        LET entries == {[e EXCEPT !.bytes = rec'[e.id].bytes] : e \in Entries}
            plan == PlanSettle(Policy, entries, fs)
            evicted == plan.evict \ stuck
        IN  /\ place' = [i \in Id |-> IF i \in plan.expire \ stuck THEN "trash" ELSE place[i]]
            /\ upper' = [i \in Id |-> IF i \in evicted THEN Trashed(upper[i], "entry") ELSE upper[i]]
            /\ keeper' = [keeper EXCEPT ![d] = [Keeper("record") EXCEPT !.evicted = [i \in evicted |-> rec'[i]]]]
    /\ UNCHANGED <<home, lock, old, step, queues, crashes, history>>

\* Settle, 5: the evicted ones' records, the summary.
SettleRecord(d) ==
    /\ KeeperAt(d, "record")
    /\ rec' = [i \in Id |-> IF i \in DOMAIN keeper[d].evicted
                            THEN [keeper[d].evicted[i] EXCEPT !.state = "evicted"] ELSE rec[i]]
    /\ spoolLock' = NoOne /\ Keep(d, "pass")
    /\ UNCHANGED <<home, place, lock, upper, old, step, queues, crashes, history>>

Settling(d) ==
    \/ Reconcile(d) \/ Look(d) \/ Act(d) \/ Reconciled(d)
    \/ DisposeOne(d) \/ WriteReport(d) \/ SettleRead(d) \/ SettleMove(d) \/ SettleRecord(d)

\* Deleter.pass: each folder of the trash goes with all it holds.
Delete(d) ==
    /\ Up(d)
    /\ \E i \in Id : "trash" \in {home[i], place[i], upper[i]}
    /\ LET Emptied(where) == [i \in Id |-> IF where[i] = "trash" THEN "gone" ELSE where[i]] IN
        home' = Emptied(home) /\ place' = Emptied(place) /\ upper' = Emptied(upper)
    /\ UNCHANGED <<lock, rec, old, step, keeper, queues, spoolLock, crashes, history>>

-----------------------------------------------------------------------------
(* Time and the death of a daemon.                                         *)

\* An hour is longer than a live step stays between a folder and its lock
\* file; where there is one the age is not asked for.
Age ==
    /\ \E i \in Id \ old :
        /\ home[i] = "bare" \/ (place[i] = "spool" /\ lock[i] = "none")
        /\ \A d \in Daemon : step[d].id # i
        /\ old' = old \cup {i}
    /\ UNCHANGED <<files, step, keeper, queues, spoolLock, crashes, history>>

Expire ==
    /\ \E i \in Id :
        /\ rec[i].state \in {"kept", "evicted"} /\ ~rec[i].due
        /\ rec' = [rec EXCEPT ![i].due = TRUE]
    /\ UNCHANGED <<home, place, lock, upper, old, step, keeper, queues, spoolLock, crashes, history>>

\* The kernel lets go of what it held.
Crash(d) ==
    /\ keeper[d].pc # "off" /\ crashes < MaxCrashes
    /\ crashes' = crashes + 1
    /\ home' = [i \in Id |-> IF home[i] = d THEN "free" ELSE home[i]]
    /\ lock' = [i \in Id |-> IF lock[i] = d THEN "free" ELSE lock[i]]
    /\ spoolLock' = IF spoolLock = d THEN NoOne ELSE spoolLock
    /\ step' = [step EXCEPT ![d] = Idle] /\ Keep(d, "off")
    /\ disposals' = [disposals EXCEPT ![d] = {}] /\ reports' = [reports EXCEPT ![d] = {}]
    /\ torn' = torn \cup DOMAIN keeper[d].evicted
    /\ UNCHANGED <<place, rec, upper, old, captured, raced>>

Start(d) == SweepLook(d) \/ SweepMove(d)

Next ==
    \/ \E d \in Daemon : Work(d) \/ Start(d) \/ Settling(d) \/ Delete(d) \/ Crash(d)
    \/ Age \/ Expire

Spec == Init /\ [][Next]_vars

\* A daemon that is down is started again, workers and deleters go on. The
\* lock of the spool is held for milliseconds, a pass comes in minutes: who
\* waits for it gets it.
FairSpec ==
    /\ Spec
    /\ \A d \in Daemon : WF_vars(Start(d)) /\ SF_vars(Settling(d)) /\ WF_vars(Delete(d)) /\ WF_vars(Work(d))

-----------------------------------------------------------------------------
StepPcs == {"idle", "bare", "file", "open", "made", "unlocked", "held", "runs", "kept", "over"}

TypeOK ==
    /\ home \in [Id -> {"unborn", "bare", "free", "trash", "gone"} \cup Daemon]
    /\ place \in [Id -> {"unborn", "spool", "trash", "gone"}]
    /\ lock \in [Id -> {"none", "free"} \cup Daemon]
    /\ upper \in [Id -> {"none", "home", "entry", "trash", "gone"}]
    /\ \A i \in Id : rec[i].state \in {"none", "reserved", "kept", "evicted"}
    /\ \A d \in Daemon : step[d].pc \in StepPcs /\ (step[d].pc = "idle") = (step[d].id = NoId)
    /\ \A d \in Daemon : spoolLock = d => keeper[d].pc \in {"look", "act", "record"}

\* What a receipt calls captured is in the spool until its time is up, with
\* its upper unless it was evicted - but for an entry that was taken for an
\* orphan between lock file and lock, and an eviction a crash cut in two.
CapturedStays ==
    \A i \in captured \ raced : ~rec[i].due =>
        /\ place[i] = "spool" /\ rec[i].state \in {"kept", "evicted"}
        /\ rec[i].state = "kept" /\ i \notin torn /\ (\A d \in Daemon : i \notin DOMAIN keeper[d].evicted)
              => upper[i] = "entry"

\* Nobody but the daemon of a step moves the step's session or entry.
OwnersOnly ==
    [][\A i \in Id, d \in Daemon :
         /\ home[i] = d /\ home'[i] # d /\ keeper'[d].pc # "off" => step'[d] # step[d] \/ i \in raced
         /\ lock[i] = d /\ place[i] = "spool" /\ place'[i] # "spool" =>
              step'[d] # step[d] \/ disposals'[d] # disposals[d] \/ i \in raced]_vars

\* The same without the exemption: what the flocks are for.
LocksProtect ==
    [][\A i \in Id, d \in Daemon :
         lock[i] = d /\ place[i] = "spool" /\ place'[i] # "spool" =>
              step'[d] # step[d] \/ disposals'[d] # disposals[d]]_vars

\* Once a record says how the report went, the settling of any daemon and a
\* late reconciliation leave it.
OutcomeStays ==
    [][\A i \in Id : rec[i].report \in Outcomes => rec'[i].report = rec[i].report]_vars

\* What was reserved by a daemon that died is gone from the spool once some
\* daemon reconciles, if its lock file was there or it is old enough.
DeadReservationsGo ==
    \A i \in Id, d \in Daemon :
        (/\ keeper[d].pc = "start" /\ place[i] = "spool"
         /\ rec[i].state \in {"none", "reserved"} /\ (lock[i] = "free" \/ (lock[i] = "none" /\ i \in old))
         /\ \A e \in Daemon : step[e].id # i)
        ~> (place[i] # "spool" \/ keeper[d].pc = "off")
=============================================================================
