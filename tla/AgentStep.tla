------------------------------ MODULE AgentStep ------------------------------
(***************************************************************************)
(* One agent step on a node (internal/enode: runAgentStep of claim.go,     *)
(* runHarness of runner.go, the claude adapter, resolveComponents and the  *)
(* packs of mcp.go, the Stop hook of hook.go).                             *)
(*                                                                         *)
(* Everything that can refuse the step comes before the harness starts:    *)
(* the parameters, the pack, the servers it may reach, the folder that     *)
(* isolates it.  While the harness works, the model writes into $OUT and   *)
(* asks to stop; the hook, a process of its own that remembers in a file   *)
(* of $OUT, may send it back.  The harness may crash, the lease may end.   *)
(*                                                                         *)
(* Left out: what a prompt or a file says; the session's own failures      *)
(* (StepSession); the events the node logs.                                *)
(***************************************************************************)
EXTENDS Integers, FiniteSets

CONSTANTS
    Names,       \* MCP servers
    Outs,        \* artifacts the contract requires
    Plan,        \* the one that is a plan, checked against the grammar
    Problems,    \* what may be wrong with a plan
    HookBudget,  \* hookBlockBudget
    Jobs         \* the jobs a node may be given, a subset of Job

\* Where a server is declared: not at all, usably, or with neither command nor url.
Declaration == {"no", "usable", "kindless"}

\* want: the servers asked for; node, ws, pack: who declares what.
Job == [want : SUBSET Names, node : SUBSET Names,
        ws : [readable : BOOLEAN, mcp : [Names -> Declaration]],
        pack : [is : {"none", "missing", "broken", "good"}, mcp : [Names -> Declaration]],
        expect : SUBSET Outs]

ASSUME JobsAreJobs == Jobs \subseteq Job

Cannot == "_cannot"

VARIABLES
    phase,    \* where runAgentStep is
    job,
    expired,  \* the lease has ended
    box,      \* the instrumentation: flags, and allow, the servers with their source
    harness,  \* the harness: none, working, ended, crashed; done: what its envelope says
    out,      \* $OUT: the artifacts there, the plan's problem, and whether the hook can write
    seen,     \* the hook's memory, .enode-hook-seen
    note,     \* the goroutine that reports the exit: none, sending, stopped
    res       \* the result: reason, mcp, pack, shipped, error, sent

agentVars == <<phase, job, expired, box, harness, out, seen, note, res>>

-----------------------------------------------------------------------------
(* Which servers the harness may reach.                                    *)

Declares(d, n) == d.mcp[n] # "no"
Packed(j, n) == j.pack.is = "good" /\ Declares(j.pack, n)

\* The pack is looked at first, the node second, the workspace last.
Source(j, n) == IF Packed(j, n) THEN "pack" ELSE IF n \in j.node THEN "node" ELSE "ws"

\* Slip: only the workspace's entries are looked at.
OverridesNothing(j, n) == FALSE

\* The node's word on a name it declares is not replaced by the contract's.
Overrides(j, n) == Packed(j, n) /\ n \in j.node

Unusable(j, n) ==
    CASE Source(j, n) = "pack" -> j.pack.mcp[n] = "kindless"
      [] Source(j, n) = "ws"   -> j.ws.mcp[n] # "usable"
      [] OTHER                 -> FALSE

\* A pack that does not open refuses the step, servers or not; a workspace
\* file that does not parse does when servers are asked for.
Refused(j) ==
    \/ j.pack.is \in {"missing", "broken"}
    \/ j.want # {} /\ ~j.ws.readable
    \/ \E n \in j.want : Overrides(j, n) \/ Unusable(j, n)

Allowed(j) == [n \in j.want |-> Source(j, n)]

-----------------------------------------------------------------------------
NoResult == [reason |-> "none", mcp |-> {}, pack |-> FALSE, shipped |-> {}, error |-> "none", sent |-> FALSE]

AgentFresh(at) ==
    /\ phase = at /\ expired = FALSE
    /\ box = [flags |-> {}, allow |-> << >>]
    /\ harness = [st |-> "none", done |-> "none"]
    /\ out = [have |-> {}, problem |-> "none", memory |-> TRUE]
    /\ seen = {} /\ note = "none" /\ res = NoResult

AgentInit == AgentFresh("claimed") /\ job \in Jobs

\* The step is over before the harness runs.
Refuse(why) == res' = [res EXCEPT !.error = why, !.sent = TRUE] /\ phase' = "over"

\* runHarness came back without a process: the step still goes through Finalize.
NotRun == res' = [res EXCEPT !.reason = "harness_error"] /\ phase' = "ran"

\* Parameters that do not parse, a harness nobody knows, credentials that
\* cannot be made.
Prepare ==
    /\ phase = "claimed"
    /\ \/ Refuse("refused")
       \/ phase' = "prepared" /\ UNCHANGED res
    /\ UNCHANGED <<job, expired, box, harness, out, seen, note>>

\* The temporary folder, the pack, the servers.
Resolve ==
    /\ phase = "prepared"
    /\ \/ NotRun /\ UNCHANGED box
       \/ ~Refused(job) /\ box' = [box EXCEPT !.allow = Allowed(job)] /\ phase' = "resolved" /\ UNCHANGED res
    /\ UNCHANGED <<job, expired, harness, out, seen, note>>

\* What the adapter writes, in the order it writes; of these only the hook's
\* settings may fail and the step go on.
Parts == {"home", "settings", "pack", "allowlist", "credentials"}

Fatal(failed) == failed \ {"settings"} # {}

Flags(failed) ==
    {"no-settings", "strict"}
        \cup (IF "settings" \in failed THEN {} ELSE {"hook"})
        \cup (IF job.pack.is = "good" /\ "pack" \notin failed THEN {"pack"} ELSE {})
        \cup ({"home", "allowlist", "credentials"} \ failed)

Instrument ==
    /\ phase = "resolved"
    /\ \E failed \in {{}} \cup {{p} : p \in Parts} :
        IF Fatal(failed) THEN NotRun /\ UNCHANGED box
        ELSE box' = [box EXCEPT !.flags = Flags(failed)] /\ phase' = "ready" /\ UNCHANGED res
    /\ UNCHANGED <<job, expired, harness, out, seen, note>>

\* The session's Run: the process starts or it does not.
StartHarness ==
    /\ phase = "ready"
    /\ \E st \in {"working", "unborn"} : harness' = [harness EXCEPT !.st = st]
    /\ phase' = "running"
    /\ UNCHANGED <<job, expired, box, out, seen, note, res>>

-----------------------------------------------------------------------------
(* The harness and its Stop hook.                                          *)

Working == phase = "running" /\ harness.st = "working"

\* The model writes an artifact, or the plan anew; it may say that it cannot.
\* It may also damage the file in which the hook remembers.
Write ==
    /\ Working
    /\ \/ \E o \in job.expect \cup {Cannot} :
            out' = [out EXCEPT !.have = @ \cup {o}, !.problem = IF o = Plan THEN "none" ELSE @]
       \/ \E p \in Problems :
            /\ Plan \in job.expect
            /\ out' = [out EXCEPT !.have = @ \cup {Plan}, !.problem = p]
       \/ out' = [out EXCEPT !.memory = FALSE]
    /\ UNCHANGED <<phase, job, expired, box, harness, seen, note, res>>

Ends(how) == harness' = [st |-> "ended", done |-> how]

\* What the hook has against stopping: a missing artifact first, a plan that
\* breaks the grammar second.
Complaint ==
    IF job.expect \ out.have # {} THEN "missing"
    ELSE IF Plan \in job.expect THEN out.problem ELSE "none"

\* Each complaint once, at most HookBudget of them, and none that cannot be
\* remembered.
Blocks ==
    Cardinality(seen) < HookBudget /\ Complaint \notin seen \cup {"none"} /\ out.memory

\* The model asks to stop. Without the hook, or when the hook cannot read what
\* it is asked, it may.
Stop ==
    /\ Working
    /\ IF "hook" \in box.flags /\ Blocks
       THEN seen' = (IF out.memory THEN seen \cup {Complaint} ELSE seen) /\ UNCHANGED harness
       ELSE Ends("success") /\ UNCHANGED seen
    /\ UNCHANGED <<phase, job, expired, box, out, note, res>>

HookUnreadable ==
    /\ Working /\ "hook" \in box.flags
    /\ Ends("success")
    /\ UNCHANGED <<phase, job, expired, box, out, seen, note, res>>

\* A limit is reached, the harness reports an error, or it goes without its
\* envelope; when the lease ends it is killed, with or without one.
HarnessEnds ==
    /\ Working
    /\ \/ \E how \in {"max_turns", "max_tokens", "error"} : Ends(how)
       \/ harness' = [st |-> "crashed", done |-> "none"]
    /\ UNCHANGED <<phase, job, expired, box, out, seen, note, res>>

Killed ==
    /\ Working /\ expired
    /\ \E how \in {"none", "success"} : harness' = [st |-> "ended", done |-> how]
    /\ UNCHANGED <<phase, job, expired, box, out, seen, note, res>>

-----------------------------------------------------------------------------
(* After the harness.                                                      *)

\* Exited: what ran under a live lease is reported at once.
HarnessExited ==
    /\ phase = "running" /\ harness.st \notin {"none", "working"}
    /\ note' = (IF harness.st # "unborn" /\ ~expired THEN "sending" ELSE note)
    /\ phase' = "exited"
    /\ UNCHANGED <<job, expired, box, harness, out, seen, res>>

\* ParseClaude: no envelope is an error, and so is the type of another object.
Parsed(done) ==
    CASE done = "success"                    -> "ok"
      [] done \in {"max_turns", "max_tokens"} -> done
      [] OTHER                               -> "harness_error"

Completed(reason) == reason \in {"ok", "max_turns", "max_tokens", "cannot"}

\* A confession turns an ok into cannot; the lease's end beats both. What was
\* loaded is recorded here only, where the harness has been started.
Decode ==
    /\ phase = "exited"
    /\ LET said == Parsed(harness.done)
           reason == IF said = "ok" /\ Cannot \in out.have THEN "cannot" ELSE said
       IN  res' = [res EXCEPT !.reason = IF expired THEN "timeout" ELSE reason,
                              !.mcp = DOMAIN box.allow,
                              !.pack = job.pack.is = "good"]
    /\ phase' = "ran"
    /\ UNCHANGED <<job, expired, box, harness, out, seen, note>>

Stopped == IF note = "sending" THEN "stopped" ELSE note

\* The lease has ended: no Finalize, no artifacts.
LeaseOver ==
    /\ phase = "ran" /\ expired
    /\ note' = Stopped
    /\ res' = [res EXCEPT !.error = IF Completed(res.reason) THEN "lease" ELSE "harness", !.sent = TRUE]
    /\ phase' = "over"
    /\ UNCHANGED <<job, expired, box, harness, out, seen>>

\* Slip: what is in $OUT is shipped in any case.
ShipsAll(reason) == TRUE

\* Artifacts are uploaded only when the harness came to its own end.
Ships(reason) == Completed(reason)

\* afterExit: Finalize, Close, the log and the artifacts, any of which may run
\* out of its time or fail; the lease may end meanwhile. An artifact the
\* Mediator rejects is not shipped, and is no error.
CloseOut ==
    /\ phase = "ran" /\ ~expired
    /\ \E lost \in BOOLEAN, how \in {"none", "finalize", "upload"} :
        \E shipped \in IF Ships(res.reason) THEN SUBSET out.have ELSE {{}} :
            /\ expired' = lost
            /\ note' = Stopped
            /\ res' = [res EXCEPT !.shipped = shipped, !.sent = TRUE,
                          !.error = IF ~Completed(res.reason) THEN "harness" ELSE IF lost THEN "lease" ELSE how]
    /\ phase' = "over"
    /\ UNCHANGED <<job, box, harness, out, seen>>

AgentLeaseEnds ==
    /\ ~expired /\ phase # "over"
    /\ expired' = TRUE
    /\ UNCHANGED <<phase, job, box, harness, out, seen, note, res>>

Node == Prepare \/ Resolve \/ Instrument \/ StartHarness \/ HarnessExited \/ Decode \/ LeaseOver \/ CloseOut

AgentNext == Node \/ Write \/ Stop \/ HookUnreadable \/ HarnessEnds \/ Killed \/ AgentLeaseEnds

AgentSpec == AgentInit /\ [][AgentNext]_agentVars

\* The node works; the model comes to a stop now and then; a kill kills.
AgentFairness == WF_agentVars(Node) /\ WF_agentVars(Stop) /\ WF_agentVars(Killed)

-----------------------------------------------------------------------------
\* A harness that runs is isolated, whatever failed before, reaches exactly
\* the servers the contract asked for, and those the node's owner declares by
\* the owner's definition, although packs, the workspace and the node may all
\* declare the same name.
RunsAsAsked ==
    harness.st # "none" =>
        /\ {"no-settings", "strict", "home", "allowlist", "credentials"} \subseteq box.flags
        /\ DOMAIN box.allow = job.want
        /\ \A n \in job.want : n \in job.node => box.allow[n] = "node"
        /\ job.pack.is # "none" => "pack" \in box.flags

\* Artifacts leave the node, and a result is without an error, only for a
\* harness that came to its own end under a live lease, whatever crashed or
\* raced; and the result names servers and a pack only of a harness that was
\* started.
OnlyWholeWork ==
    res.sent =>
        /\ res.shipped # {} => harness.st = "ended" /\ harness.done \notin {"none", "error"}
        /\ res.error = "none" => ~expired /\ note = "stopped"
        /\ res.mcp # {} \/ res.pack => harness.st # "none"
        /\ res.reason = "ok" => Cannot \notin out.have
=============================================================================
