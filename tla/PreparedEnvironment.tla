------------------------- MODULE PreparedEnvironment -------------------------
(***************************************************************************)
(* The prepared environments of a host (internal/environment; the smoke of *)
(* internal/enode; cmd/enode): `env apply` builds the rootfs that a        *)
(* profile declares and publishes it in a store of the host; a node that   *)
(* starts takes from the store what its steps will run in.                 *)
(*                                                                         *)
(* Any number of preparers and starting nodes use one store and no lock.   *)
(* A published environment is named by what is in it: the hash of its      *)
(* profile and the versions of its packages. The index names the one that  *)
(* is current. Meanwhile the profile is edited, the mirror moves on, and a *)
(* process dies.                                                           *)
(*                                                                         *)
(* Left out: what a fact of the host is (installed, installable or in the  *)
(* way), the text of a profile and its hash, the lower (LowerBake), the    *)
(* smoke's own scratch.                                                    *)
(***************************************************************************)
EXTENDS Integers, Sequences

CONSTANTS
    Preparers, Starters,  \* processes: `env apply`, and a node that starts
    Native,               \* the profile's driver: without a sandbox there is no smoke
    Hashes,               \* what the profile's file may hash to
    RootOps,              \* operations that make a rootfs: each takes packages from the mirror
    MaxMoves, MaxTrouble  \* bounds: edits and moves of the mirror; things that fail, deaths

ASSUME NativeType == Native \in BOOLEAN

VARIABLES
    profile,  \* the hash of the profile's file
    mirror,   \* the version the mirror serves
    host,     \* its declared packages are installed; something blocks it
    envs,     \* published environments
    index,    \* profiles/<name>.json: a hash and the environment, or none
    proc,     \* per process: where it is and what it has read
    moves, trouble

envVars == <<profile, mirror, host, envs, index, proc, moves, trouble>>
Processes == Preparers \cup Starters

-----------------------------------------------------------------------------
NoIndex == [hash |-> "", id |-> <<>>]
NoBuild == [packages |-> <<>>, sealed |-> FALSE, smoked |-> FALSE]
Waiting == [pc |-> "load", hash |-> "", check |-> "first", host |-> FALSE, rootfs |-> FALSE,
            build |-> NoBuild, id |-> <<>>]

EnvInit ==
    /\ profile \in Hashes /\ mirror = 1
    /\ host \in [installed : BOOLEAN, blocked : {FALSE}]
    /\ envs = {} /\ index = NoIndex
    /\ proc = [p \in Processes |-> Waiting]
    /\ moves = 0 /\ trouble = 0

ProcAt(p, pc) == proc[p].pc = pc
Become(p, with) == proc' = [proc EXCEPT ![p] = with]
Fail(p) == Become(p, [proc[p] EXCEPT !.pc = "failed"])
Trouble == trouble < MaxTrouble /\ trouble' = trouble + 1
Unchanged(p) == profile = proc[p].hash
\* The identity of a build: its name in the store.
Identity(p) == <<proc[p].hash, proc[p].build.packages>>
Published(id) == \E e \in envs : e.id = id

-----------------------------------------------------------------------------
(* The check: facts of the host and the store, then a smoke if all is well. *)
Load(p) ==
    /\ ProcAt(p, "load")
    /\ Become(p, [proc[p] EXCEPT !.pc = "facts", !.hash = profile])
    /\ UNCHANGED <<profile, mirror, host, envs, index, moves, trouble>>

\* The index was written for this text of the profile, and the environment it names is one.
Prepared(hash) == index.hash = hash /\ index.id[1] = hash /\ Published(index.id)

\* What follows a check that did not come out ready: a node does not start; a preparer goes on with
\* what the first report asks of it, unless the host is still not as declared after its packages.
NotReady(p, host_, rootfs_) ==
    LET me == proc[p] IN
    IF p \in Starters \/ me.check = "last" THEN [me EXCEPT !.pc = "failed"]
    ELSE IF me.check = "first" THEN [me EXCEPT !.pc = "plan", !.host = host_, !.rootfs = rootfs_]
    ELSE IF host_ THEN [me EXCEPT !.pc = "failed"]
    ELSE IF me.rootfs THEN [me EXCEPT !.pc = "build"]
    ELSE [me EXCEPT !.pc = "facts", !.check = "last"]

Facts(p) ==
    /\ ProcAt(p, "facts")
    /\ LET missing == ~host.installed  unprepared == ~Prepared(proc[p].hash) IN
       IF host.blocked THEN Fail(p)
       ELSE IF missing \/ unprepared THEN Become(p, NotReady(p, missing, unprepared))
       ELSE Become(p, [proc[p] EXCEPT !.pc = "smoke"])
    /\ UNCHANGED <<profile, mirror, host, envs, index, moves, trouble>>

\* Slip: the sandbox opens whatever the index names.
OpensAny(id, hash) == TRUE

\* A sandbox does not open on the environment of another profile. Without one nothing looks.
Opens(id, hash) == Native \/ id[1] = hash

\* The index is read again; then the environment it names is tried.
Smoke(p) ==
    /\ ProcAt(p, "smoke")
    /\ \/ Opens(index.id, proc[p].hash) /\ Become(p, [proc[p] EXCEPT !.pc = "current"]) /\ UNCHANGED trouble
       \/ ~Opens(index.id, proc[p].hash) /\ Fail(p) /\ UNCHANGED trouble
       \/ ~Native /\ Trouble /\ Fail(p)
    /\ UNCHANGED <<profile, mirror, host, envs, index, moves>>

\* All is ready: the index is read once more, for the answer or for the runtime of the node.
Current(p) ==
    /\ ProcAt(p, "current")
    /\ IF p \in Preparers THEN Become(p, [proc[p] EXCEPT !.pc = "answered", !.id = index.id])
       ELSE IF Opens(index.id, proc[p].hash) THEN Become(p, [proc[p] EXCEPT !.pc = "started", !.id = index.id])
       ELSE Fail(p)
    /\ UNCHANGED <<profile, mirror, host, envs, index, moves, trouble>>

-----------------------------------------------------------------------------
(* Apply: the host, a build of its own, then the store.                     *)
\* Before each operation the profile is read again. Packages of the host; then all is checked again.
Plan(p) ==
    /\ ProcAt(p, "plan")
    /\ \/ ~Unchanged(p) /\ Fail(p) /\ UNCHANGED <<host, trouble>>
       \/ /\ Unchanged(p) /\ proc[p].host /\ host' = [host EXCEPT !.installed = TRUE]
          /\ Become(p, [proc[p] EXCEPT !.pc = "facts", !.check = "second"]) /\ UNCHANGED trouble
       \/ Unchanged(p) /\ proc[p].host /\ Trouble /\ Fail(p) /\ UNCHANGED host
       \/ Unchanged(p) /\ ~proc[p].host /\ Become(p, [proc[p] EXCEPT !.pc = "build"]) /\ UNCHANGED <<host, trouble>>
    /\ UNCHANGED <<profile, mirror, envs, index, moves>>

\* What failed stays in the store as a build nobody takes up.
RootFSOperation(p) ==
    /\ ProcAt(p, "build") /\ Len(proc[p].build.packages) < RootOps
    /\ \/ ~Unchanged(p) /\ Fail(p) /\ UNCHANGED trouble
       \/ /\ Unchanged(p) /\ UNCHANGED trouble
          /\ Become(p, [proc[p] EXCEPT !.build.packages = Append(@, mirror)])
       \/ Unchanged(p) /\ Trouble /\ Fail(p)
    /\ UNCHANGED <<profile, mirror, host, envs, index, moves>>

\* The versions are read from the rootfs, and with the profile's hash they are its identity.
Manifest(p) ==
    /\ ProcAt(p, "build") /\ Len(proc[p].build.packages) = RootOps
    /\ IF Unchanged(p) THEN Become(p, [proc[p] EXCEPT !.pc = "seal"]) ELSE Fail(p)
    /\ UNCHANGED <<profile, mirror, host, envs, index, moves, trouble>>

Seal(p) ==
    /\ ProcAt(p, "seal")
    /\ \/ Become(p, [proc[p] EXCEPT !.pc = "verify", !.build.sealed = TRUE]) /\ UNCHANGED trouble
       \/ Trouble /\ Fail(p)
    /\ UNCHANGED <<profile, mirror, host, envs, index, moves>>

Verify(p) ==
    /\ ProcAt(p, "verify")
    /\ \/ Become(p, [proc[p] EXCEPT !.pc = "publish", !.build.smoked = ~Native]) /\ UNCHANGED trouble
       \/ ~Native /\ Trouble /\ Fail(p)
    /\ UNCHANGED <<profile, mirror, host, envs, index, moves>>

\* The folder of that name is there already, or this build becomes it; a rename onto a folder fails.
Look(p) ==
    /\ ProcAt(p, "publish")
    /\ Become(p, [proc[p] EXCEPT !.pc = IF Published(Identity(p)) THEN "discard" ELSE "rename"])
    /\ UNCHANGED <<profile, mirror, host, envs, index, moves, trouble>>

Discard(p) ==
    /\ ProcAt(p, "discard")
    /\ \/ Become(p, [proc[p] EXCEPT !.pc = "index"]) /\ UNCHANGED trouble
       \/ Trouble /\ Fail(p)
    /\ UNCHANGED <<profile, mirror, host, envs, index, moves>>

Rename(p) ==
    /\ ProcAt(p, "rename")
    /\ IF Published(Identity(p)) THEN Fail(p) /\ UNCHANGED envs
       ELSE /\ envs' = envs \cup {[id |-> Identity(p), sealed |-> proc[p].build.sealed, smoked |-> proc[p].build.smoked]}
            /\ Become(p, [proc[p] EXCEPT !.pc = "index"])
    /\ UNCHANGED <<profile, mirror, host, index, moves, trouble>>

WriteIndex(p) ==
    /\ ProcAt(p, "index")
    /\ \/ /\ index' = [hash |-> proc[p].hash, id |-> Identity(p)] /\ UNCHANGED trouble
          /\ Become(p, [proc[p] EXCEPT !.pc = "answered", !.id = Identity(p)])
       \/ Trouble /\ Fail(p) /\ UNCHANGED index
    /\ UNCHANGED <<profile, mirror, host, envs, moves>>

-----------------------------------------------------------------------------
(* Around them.                                                             *)
Dies(p) ==
    /\ proc[p].pc \notin {"load", "failed", "answered", "started"} /\ Trouble /\ Fail(p)
    /\ UNCHANGED <<profile, mirror, host, envs, index, moves>>

Edit ==
    /\ moves < MaxMoves /\ moves' = moves + 1
    /\ profile' \in Hashes \ {profile}
    /\ UNCHANGED <<mirror, host, envs, index, proc, trouble>>

MirrorMoves ==
    /\ moves < MaxMoves /\ moves' = moves + 1
    /\ mirror' = mirror + 1
    /\ UNCHANGED <<profile, host, envs, index, proc, trouble>>

HostBreaks ==
    /\ Trouble
    /\ host' \in {[host EXCEPT !.installed = FALSE], [host EXCEPT !.blocked = TRUE]} \ {host}
    /\ UNCHANGED <<profile, mirror, envs, index, proc, moves>>

-----------------------------------------------------------------------------
Checking(p) == Load(p) \/ Facts(p) \/ Smoke(p) \/ Current(p)
Applying(p) == Plan(p) \/ RootFSOperation(p) \/ Manifest(p) \/ Seal(p) \/ Verify(p)
               \/ Look(p) \/ Discard(p) \/ Rename(p) \/ WriteIndex(p)
EnvNext == (\E p \in Processes : Checking(p) \/ Applying(p) \/ Dies(p)) \/ Edit \/ MirrorMoves \/ HostBreaks
EnvSpec == EnvInit /\ [][EnvNext]_envVars

-----------------------------------------------------------------------------
\* A node runs its steps in an environment that is whole, sealed, was tried before it was published
\* (apply.go:165-196), and was made for the profile the node has loaded (main.go:152-180,
\* runc_overlay_linux.go:66): whatever was edited, applied or published between the reads of its
\* start, and whoever died meanwhile. Without a sandbox nothing compares the two.
StartedIsPrepared ==
    ~Native => \A p \in Starters : ProcAt(p, "started") =>
        /\ proc[p].id[1] = proc[p].hash
        /\ \E e \in envs : e.id = proc[p].id /\ Len(e.id[2]) = RootOps /\ e.sealed /\ e.smoked
=============================================================================
