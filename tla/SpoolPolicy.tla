----------------------------- MODULE SpoolPolicy -----------------------------
(***************************************************************************)
(* What the checkpoint store of a node (internal/scratch/checkpoint.go)    *)
(* decides without touching a file: which kept uppers expire or are        *)
(* evicted when the store settles, and what the start-up reconciliation    *)
(* does with each folder of the spool.                                     *)
(*                                                                         *)
(* Shares of a capacity are compared as 100 * x <= percent * (kept + free):*)
(* the code does it in float64.                                            *)
(***************************************************************************)
EXTENDS Integers, FiniteSets, FiniteSetsExt

(* A size that was not measured yet (a nil pointer in the code). *)
Unmeasured == -1

(* The order in which the kept ones are walked: by capture, oldest first,  *)
(* and as the directory lists them when they are equally old.              *)
NotOlder(e, f) == e.at > f.at \/ (e.at = f.at /\ e.pos >= f.pos)

Total(S, size) == MapThenSumSet(LAMBDA e : e[size], S)

(* The oldest of S, as many as it takes for the rest to be within a limit  *)
(* of percent * (all of S + free) / 100: e goes when it and everything     *)
(* after it are still above the limit.                                     *)
Above(S, size, limit) ==
    {e \in S : 100 * Total({f \in S : NotOlder(f, e)}, size) > limit}

Share(percent, S, size, free) == percent * (Total(S, size) + free)

(* Policy.PlanSettle. The capacity is fixed once, before anything is       *)
(* evicted; what was not measured weighs nothing and is not evicted.       *)
PlanSettle(p, entries, fs) ==
    LET kept  == {e \in entries : e.state = "kept" /\ ~e.due}
        sized == {e \in kept : e.bytes # Unmeasured}
        large == {e \in sized : p.maxBytes > 0 /\ e.bytes > p.maxBytes}
        rest  == sized \ large
        over  == IF ~fs.known THEN {}
                 ELSE Above(rest, "bytes", Share(p.percent, rest, "bytes", fs.free))
        left  == rest \ over
        many  == IF ~fs.known \/ fs.files = 0 THEN {}
                 ELSE Above(left, "inodes",
                            IF p.maxInodes = 0
                            THEN Share(p.percent, left, "inodes", fs.filesFree)
                            ELSE 100 * p.maxInodes)
    IN  [expire |-> {e.id : e \in {e \in entries : e.state \in {"kept", "evicted"} /\ e.due}},
         evict  |-> {e.id : e \in large \cup over \cup many}]

(* Slip: a folder is judged by its record alone.                           *)
PlanByRecord(f) ==
    IF f.state \in {"none", "reserved"} \/ f.due THEN "trash"
    ELSE IF f.state = "kept" /\ f.report = "" THEN "mark"
    ELSE "leave"

(* Slip: no folder is moved before it is an hour old.                      *)
PlanOldOnly(f) ==
    IF ~f.old \/ (f.lockFile /\ ~f.lockFree) THEN "leave"
    ELSE IF f.state \in {"none", "reserved"} \/ f.due THEN "trash"
    ELSE IF f.state = "kept" /\ f.report = "" THEN "mark"
    ELSE "leave"

(* PlanReconcile, for a folder with a valid name. `old` is its age against *)
(* orphanEntryAge; `state` is "none" when there is no readable record.     *)
PlanReconcile(f) ==
    IF \/ ~f.lockFile /\ ~f.old
       \/ f.lockFile /\ ~f.lockFree
    THEN "leave"
    ELSE IF f.state \in {"none", "reserved"} \/ f.due THEN "trash"
    ELSE IF f.state = "kept" /\ f.report = "" THEN "mark"
    ELSE "leave"
==============================================================================
