---------------------------- MODULE LowerIdentity ----------------------------
(***************************************************************************)
(* Which directory the state of a lower is about (internal/lower: dir,     *)
(* judge, perm, check; internal/enode: lowerguard.go, bake.go).            *)
(*                                                                         *)
(* The state of a lower is kept apart from it, in a directory named by the *)
(* file system and the inode of the lower. An inode is used again: what is *)
(* written there may be about a directory that was deleted, and lower.json *)
(* tells by its time of birth. The nodes of a host open the same state and *)
(* take no lock for it, while the first of them may be baking already. A   *)
(* node dies at any step; a person repairs or removes what no node may.    *)
(*                                                                         *)
(* Left out: the paths of a lower that lower.json lists for people, a file *)
(* system that tells no time of birth (everything matches there), the      *)
(* locks of the guard and the wait for them (LowerBake), a lower that is   *)
(* replaced while a node has it open.                                      *)
(***************************************************************************)
EXTENDS Integers

CONSTANTS
    Nodes, NoNode,
    MaxBirths,  \* bound: directories that there have been at the path
    MaxDeaths   \* bound: deaths of nodes

ASSUME NoNodeIsNone == NoNode \notin Nodes

VARIABLES
    lower,      \* the directory at the path: its birth; half merged
    place,      \* the state directory: absent, ok, loose (open to others), foreign (not ours to use)
    recorded,   \* lower.json: the birth it tells, Nobody, or Broken
    state,      \* state.json: phase, the lower its upper was built on, the one its last_attempt is of
    bakeLock,
    node,       \* per node: where it is, and what it has read: birth, recorded and state
    lost,       \* history: a state was written over that had changed since it was read
    deaths

identityVars == <<lower, place, recorded, state, bakeLock, node, lost, deaths>>

-----------------------------------------------------------------------------
Nobody == 0
Broken == -1
CommittedAfter(last) == [phase |-> "committed", of |-> Nobody, last |-> last]
Committed == CommittedAfter(Nobody)
Anew(pc, birth) == [pc |-> pc, birth |-> birth, recorded |-> Nobody, state |-> Committed]
Down == Anew("down", Nobody)

\* What a host whose earlier lower was the first can look like: untouched, baked in, or with a bake
\* of it broken off, after which the lower was replaced.
IdentityInit ==
    /\ lower = [birth |-> 2, half |-> FALSE]
    /\ place \in {"absent", "ok", "loose", "foreign"}
    /\ recorded \in IF place = "absent" THEN {Nobody} ELSE {Broken, Nobody, 1, 2}
    /\ state \in IF recorded # 1 THEN {Committed}
                 ELSE {Committed, CommittedAfter(1)}
                      \cup {[phase |-> p, of |-> 1, last |-> Nobody] : p \in {"building", "pending", "merging"}}
    /\ bakeLock = NoNode
    /\ node = [n \in Nodes |-> Down]
    /\ lost = FALSE /\ deaths = 0

NodeAt(n, pc) == node[n].pc = pc
Open(n) == node[n].pc \in {"open", "building", "pending", "merging"}
GoTo(n, pc) == node' = [node EXCEPT ![n].pc = pc]
\* A file that cannot be used, or the wrong owner: nothing can be read or written there.
Usable == place # "foreign"

-----------------------------------------------------------------------------
(* The verdict on lower.json, of the lower at the path.                    *)
\* Slip: whatever was going on in the directory before it is over.
VerdictAnyPhase(read, birth, phase) ==
    IF read = Nobody THEN "new"
    ELSE IF read = Broken THEN "broken"
    ELSE IF read = birth THEN "match"
    ELSE "reused"

Verdict(read, birth, phase) ==
    IF read = Nobody THEN "new"
    ELSE IF read = Broken THEN "broken"
    ELSE IF read = birth THEN "match"
    ELSE IF phase = "committed" THEN "reused"
    ELSE "foreign"

\* The check before a node starts: it looks and changes nothing.
Start(n) ==
    LET fine == Usable /\ Verdict(recorded, lower.birth, state.phase) \notin {"foreign", "broken"} IN
    /\ NodeAt(n, "down") /\ fine
    /\ node' = [node EXCEPT ![n] = Anew("opening", lower.birth)]
    /\ UNCHANGED <<lower, place, recorded, state, bakeLock, lost, deaths>>

\* The state directory and its locks are made, or narrowed, and lower.json is read. What cannot be
\* used is tried again at the next advert.
ReadIdentity(n) ==
    /\ NodeAt(n, "opening") /\ Usable
    /\ place' = "ok"
    /\ IF recorded = Broken THEN UNCHANGED node
       ELSE node' = [node EXCEPT ![n].recorded = recorded,
                                 ![n].pc = IF recorded \in {Nobody, node[n].birth} THEN "verdict" ELSE "phase"]
    /\ UNCHANGED <<lower, recorded, state, bakeLock, lost, deaths>>

\* The phase is read only for another birth.
ReadPhase(n) ==
    /\ NodeAt(n, "phase")
    /\ node' = [node EXCEPT ![n].state = state, ![n].pc = "verdict"]
    /\ UNCHANGED <<lower, place, recorded, state, bakeLock, lost, deaths>>

Record(n) ==
    LET verdict == Verdict(node[n].recorded, node[n].birth, node[n].state.phase) IN
    /\ NodeAt(n, "verdict")
    /\ CASE verdict = "new" -> recorded' = node[n].birth /\ GoTo(n, "open")
         [] verdict = "match" -> UNCHANGED recorded /\ GoTo(n, "open")
         [] verdict = "reused" -> recorded' = node[n].birth /\ GoTo(n, "last")
         [] verdict = "foreign" -> UNCHANGED recorded /\ GoTo(n, "opening")
    /\ UNCHANGED <<lower, place, state, bakeLock, lost, deaths>>

\* Of a lower whose inode was used again the old failed bake is forgotten: the state is read,
\* then the bake lock is tried, then the state is written as it was read.
ReadLast(n) ==
    /\ NodeAt(n, "last")
    /\ node' = [node EXCEPT ![n].state = state, ![n].pc = IF state.last = Nobody THEN "open" ELSE "clear"]
    /\ UNCHANGED <<lower, place, recorded, state, bakeLock, lost, deaths>>

Clear(n) ==
    IF bakeLock # NoNode THEN UNCHANGED <<state, lost>>
    ELSE state' = [node[n].state EXCEPT !.last = Nobody] /\ lost' = (lost \/ state # node[n].state)

ClearLastAttempt(n) ==
    /\ NodeAt(n, "clear") /\ Clear(n) /\ GoTo(n, "open")
    /\ UNCHANGED <<lower, place, recorded, bakeLock, deaths>>

-----------------------------------------------------------------------------
(* What the state is for: a bake by a node that has it open (LowerBake).   *)
\* What a bake leaves that nobody need finish.
Stale == {"building", "pending"}
Cleaned == IF state.phase \in Stale THEN CommittedAfter(state.of) ELSE state

\* A bake nobody holds is cleaned, by any node that sees it.
Clean(n) ==
    /\ NodeAt(n, "open") /\ bakeLock = NoNode /\ state.phase \in Stale
    /\ state' = Cleaned
    /\ UNCHANGED <<lower, place, recorded, bakeLock, node, lost, deaths>>

Build(n) ==
    /\ NodeAt(n, "open") /\ bakeLock = NoNode /\ state.phase # "merging"
    /\ bakeLock' = n /\ GoTo(n, "building")
    /\ state' = [Cleaned EXCEPT !.phase = "building", !.of = lower.birth]
    /\ UNCHANGED <<lower, place, recorded, lost, deaths>>

KeepUpper(n) ==
    /\ NodeAt(n, "building") /\ GoTo(n, "pending")
    /\ state' = [state EXCEPT !.phase = "pending"]
    /\ UNCHANGED <<lower, place, recorded, bakeLock, lost, deaths>>

Abandon(n) ==
    /\ node[n].pc \in {"building", "pending"} /\ GoTo(n, "open")
    /\ state' = CommittedAfter(lower.birth) /\ bakeLock' = NoNode
    /\ UNCHANGED <<lower, place, recorded, lost, deaths>>

\* The merge begins, or one that was broken off is taken up.
Merge(n) ==
    /\ \/ NodeAt(n, "pending") /\ state' = [state EXCEPT !.phase = "merging"] /\ UNCHANGED bakeLock
       \/ NodeAt(n, "open") /\ bakeLock = NoNode /\ state.phase = "merging" /\ bakeLock' = n /\ UNCHANGED state
    /\ GoTo(n, "merging") /\ lower' = [lower EXCEPT !.half = TRUE]
    /\ UNCHANGED <<place, recorded, lost, deaths>>

Merged(n) ==
    /\ NodeAt(n, "merging") /\ GoTo(n, "open")
    /\ lower' = [lower EXCEPT !.half = FALSE] /\ state' = Committed /\ bakeLock' = NoNode
    /\ UNCHANGED <<place, recorded, lost, deaths>>

-----------------------------------------------------------------------------
(* Around them.                                                            *)
Stop(n) ==
    /\ node[n].pc \in {"open", "opening"}
    /\ node' = [node EXCEPT ![n] = Down]
    /\ UNCHANGED <<lower, place, recorded, state, bakeLock, lost, deaths>>

NodeDies(n) ==
    /\ ~NodeAt(n, "down") /\ deaths < MaxDeaths /\ deaths' = deaths + 1
    /\ node' = [node EXCEPT ![n] = Down]
    /\ bakeLock' = IF bakeLock = n THEN NoNode ELSE bakeLock
    /\ UNCHANGED <<lower, place, recorded, state, lost>>

NoneUp == \A n \in Nodes : NodeAt(n, "down")

\* The lower is deleted and made again on the same inode.
Replace ==
    /\ NoneUp /\ lower.birth < MaxBirths
    /\ lower' = [birth |-> lower.birth + 1, half |-> FALSE]
    /\ UNCHANGED <<place, recorded, state, bakeLock, node, lost, deaths>>

\* A person removes a state that no node may use: the check says when (judge.go:424).
Remove ==
    /\ NoneUp
    /\ ~Usable \/ recorded = Broken \/ Verdict(recorded, lower.birth, state.phase) = "foreign"
    /\ place' = "absent" /\ recorded' = Nobody /\ state' = Committed
    /\ UNCHANGED <<lower, bakeLock, node, lost, deaths>>

-----------------------------------------------------------------------------
Opening(n) == Start(n) \/ ReadIdentity(n) \/ ReadPhase(n) \/ Record(n) \/ ReadLast(n) \/ ClearLastAttempt(n)
Baking(n) == Clean(n) \/ Build(n) \/ KeepUpper(n) \/ Abandon(n) \/ Merge(n) \/ Merged(n)
IdentityNext == (\E n \in Nodes : Opening(n) \/ Baking(n) \/ Stop(n) \/ NodeDies(n)) \/ Replace \/ Remove
IdentitySpec == IdentityInit /\ [][IdentityNext]_identityVars

-----------------------------------------------------------------------------
\* A lower is merged only with an upper that was built on it (judge.go:93-97): not with one that a
\* bake of the directory that had its inode before has left, whichever nodes were opening the state,
\* baking or dying meanwhile. And one that is half merged says so: no node takes it for whole
\* (bake.go:101-130), unless clearLastAttempt has written back a state it had read before it had the
\* lock (dir_linux.go:92-105).
HalfIsTold ==
    lower.half =>
        /\ state.phase = "merging" => state.of = lower.birth
        /\ ~lost => state.phase = "merging"
=============================================================================
