------------------------------- MODULE Harvest -------------------------------
(***************************************************************************)
(* What a node takes from a command that has ended (internal/enode: claim, *)
(* finalize, collect, changed, diff, upload; the Finalize of both          *)
(* runtimes): the files the contract declares are copied into $OUT, the    *)
(* paths it names are compared with the time the step began, the diff of   *)
(* the workspace is made, what changed is listed; then the session is      *)
(* closed and $OUT is sent. All but the sending has one deadline, the      *)
(* lease may end meanwhile, and either may fall between any two of these.  *)
(*                                                                         *)
(* Without a sandbox the node does it itself. With one a helper does all   *)
(* but the diff and knows the deadline only; a helper that does not answer *)
(* in time is killed, wherever it is.                                      *)
(*                                                                         *)
(* Left out: patterns and what they match outside the workspace, processes *)
(* of a command that go on after it, an mtime of the very moment the step  *)
(* began, the capture of a checkpoint (CheckpointSpool), a bake, a contract *)
(* that collects or requires a file by the name of the diff.               *)
(***************************************************************************)
EXTENDS Integers, FiniteSets

CONSTANTS
    Names,     \* what the contract collects, requires, or both
    Files,     \* of the workspace; the contract names all of them
    MaxHeld, MaxPaths  \* files a walk holds and lists: 200,000 and 2,000 in the code

VARIABLES
    overlay,   \* the step runs in a sandbox
    workspace, \* the node has one; a command of a node without runs in the temporary folder
    step,      \* what it asks: diff, discover, the names to collect and those it requires
    tree,      \* per file: when it was written, whether by this step, whether it can be read
    source,    \* per name: the command has put it into $OUT, or one file matches, or none
    out,       \* $OUT: per name and for Diff, absent, half (under another name while copied), whole
    pc, todo,  \* where it is; the names or files that are left
    fin,       \* what Finalize has found: FinalizeResult, and how it ended
    late, ended, cause,  \* the deadline has passed; the lease has ended; which of them was first
    result     \* the stages of the report and its diagnostics

harvestVars == <<overlay, workspace, step, tree, source, out, pc, todo, fin, late, ended, cause, result>>

-----------------------------------------------------------------------------
Diff == "workspace.diff"
ASSUME DiffIsNotDeclared == Diff \notin Names
\* What a file can be: a copy may keep an older time, a step before may have written in the same second.
File == {f \in [recent : BOOLEAN, wrote : BOOLEAN, readable : BOOLEAN] : f.readable \/ (f.recent /\ f.wrote)}
NothingFound(err) == [notes |-> {}, changed |-> {}, diff |-> "none", walk |-> "none", held |-> {}, paths |-> {}, err |-> err]
NoResult == [changes |-> "not_measured", missing |-> {}, closeErr |-> FALSE, closedLate |-> FALSE,
             upload |-> "none", finalize |-> "none", reason |-> ""]

HarvestInit ==
    /\ overlay \in BOOLEAN /\ workspace \in BOOLEAN
    /\ step \in [diff : BOOLEAN, discover : BOOLEAN, collect : SUBSET Names, required : SUBSET Names]
    /\ overlay \/ step.diff => workspace
    /\ step.collect \cup step.required = Names
    /\ tree \in [Files -> File] /\ source \in [Names -> {"made", "one", "none"}]
    /\ out = [n \in Names \cup {Diff} |-> IF n \in Names /\ source[n] = "made" THEN "whole" ELSE "absent"]
    /\ pc = "collect" /\ todo = step.collect
    /\ fin = NothingFound("none") /\ late = FALSE /\ ended = FALSE /\ cause = "none" /\ result = NoResult

\* The context of Finalize: the helper is told of the deadline only.
Over == IF overlay THEN late ELSE cause # "none"
Why == IF overlay THEN "deadline" ELSE cause

-----------------------------------------------------------------------------
(* collectDeclared: what is there is left; the rest is copied under another *)
(* name and renamed.                                                        *)
Collect(n) ==
    /\ pc = "collect" /\ n \in todo /\ ~Over
    /\ CASE out[n] = "whole" -> todo' = todo \ {n} /\ UNCHANGED <<pc, fin, out>>
         [] out[n] # "whole" /\ source[n] = "none" -> todo' = todo \ {n} /\ fin' = [fin EXCEPT !.notes = @ \cup {n}] /\ UNCHANGED <<pc, out>>
         [] OTHER -> pc' = "copy" /\ out' = [out EXCEPT ![n] = "half"] /\ UNCHANGED <<todo, fin>>
    /\ UNCHANGED <<overlay, workspace, step, tree, source, late, ended, cause, result>>

\* A copy looks at the deadline before each piece: one that had its last piece is finished.
Copy(n) ==
    /\ pc = "copy" /\ out[n] = "half"
    /\ pc' = "collect" /\ todo' = todo \ {n}
    /\ \/ out' = [out EXCEPT ![n] = "whole"] /\ UNCHANGED fin
       \/ out' = [out EXCEPT ![n] = "absent"] /\ fin' = IF Over THEN fin ELSE [fin EXCEPT !.notes = @ \cup {n}]
    /\ UNCHANGED <<overlay, workspace, step, tree, source, late, ended, cause, result>>

\* Slip: what was collected is the answer, whatever stopped it.
ReturnFound(err) == pc' = (IF overlay THEN "answered" ELSE "done") /\ fin' = [fin EXCEPT !.err = "none"]

Return(err) == pc' = (IF overlay THEN "answered" ELSE "done") /\ fin' = [fin EXCEPT !.err = err]

CollectOver ==
    /\ pc = "collect" /\ Over
    /\ Return(Why) /\ todo' = {}
    /\ UNCHANGED <<overlay, workspace, step, tree, source, out, late, ended, cause, result>>

\* CheckChanged: by the time of each path; a file that cannot be looked at has not changed.
Changed == {f \in Files : tree[f].recent /\ tree[f].readable}

Check ==
    /\ pc = "collect" /\ todo = {} /\ ~Over
    /\ fin' = [fin EXCEPT !.changed = Changed]
    /\ pc' = IF step.diff /\ ~overlay THEN "diff" ELSE "discover"
    /\ UNCHANGED <<overlay, workspace, step, tree, source, out, todo, late, ended, cause, result>>

-----------------------------------------------------------------------------
(* The diff, by the git of the host: written in place. It may be broken off.*)
LocalDiff ==
    /\ pc = "diff" /\ pc' = "diffed"
    /\ \/ fin' = [fin EXCEPT !.diff = "empty"] /\ UNCHANGED out
       \/ fin' = [fin EXCEPT !.diff = "placed"] /\ out' = [out EXCEPT ![Diff] = "whole"]
       \/ fin' = [fin EXCEPT !.diff = "error"] /\ out' \in {out, [out EXCEPT ![Diff] = "half"]}
    /\ UNCHANGED <<overlay, workspace, step, tree, source, todo, late, ended, cause, result>>

LocalDiffed ==
    /\ pc = "diffed"
    /\ IF Over THEN Return(Why) ELSE pc' = "discover" /\ UNCHANGED fin
    /\ UNCHANGED <<overlay, workspace, step, tree, source, out, todo, late, ended, cause, result>>

-----------------------------------------------------------------------------
(* What changed: the files since the step began, or those of the upper.     *)
Listed(f) == tree[f].readable /\ IF overlay THEN tree[f].wrote ELSE tree[f].recent

\* Without a workspace there is nothing to walk: the walk is skipped, and this is told.
Discover ==
    /\ pc = "discover"
    /\ IF step.discover /\ workspace THEN pc' = "walk" /\ todo' = Files /\ fin' = [fin EXCEPT !.walk = "whole"]
       ELSE /\ pc' = (IF overlay THEN "answered" ELSE "done") /\ UNCHANGED todo
            /\ fin' = [fin EXCEPT !.walk = IF step.discover THEN "skipped" ELSE @, !.err = IF Over THEN Why ELSE "none"]
    /\ UNCHANGED <<overlay, workspace, step, tree, source, out, late, ended, cause, result>>

\* Slip: a walk that the deadline stops has listed what there is.
CutSilently(why) == /\ todo' = {} /\ fin' = [fin EXCEPT !.walk = IF why = "time" THEN @ ELSE why]

\* Only the limit that was met first is told.
Cut(why) == /\ todo' = {} /\ fin' = [fin EXCEPT !.walk = why]

\* A walk has a time of its own, half of the deadline's, and a number of visits.
Visit(f) ==
    /\ pc = "walk" /\ f \in todo
    /\ \/ Over /\ Cut("time")
       \/ ~Over /\ (Cut("time") \/ Cut("visits"))
       \/ ~Over /\ ~Listed(f) /\ todo' = todo \ {f} /\ UNCHANGED fin
       \/ ~Over /\ Listed(f) /\ Cardinality(fin.held) >= MaxHeld /\ Cut("memory")
       \/ /\ ~Over /\ Listed(f) /\ Cardinality(fin.held) < MaxHeld
          /\ todo' = todo \ {f} /\ fin' = [fin EXCEPT !.held = @ \cup {f}]
    /\ UNCHANGED <<overlay, workspace, step, tree, source, out, pc, late, ended, cause, result>>

\* The list is shortened to what a report carries: so many paths, and so many letters.
Walked ==
    /\ pc = "walk" /\ todo = {}
    /\ \E kept \in SUBSET fin.held :
          /\ Cardinality(kept) <= MaxPaths
          /\ pc' = IF overlay THEN "answered" ELSE "done"
          /\ fin' = [fin EXCEPT !.paths = kept, !.err = IF Over THEN Why ELSE "none",
                                !.walk = IF kept # fin.held /\ @ = "whole" THEN "size" ELSE @]
    /\ UNCHANGED <<overlay, workspace, step, tree, source, out, todo, late, ended, cause, result>>

-----------------------------------------------------------------------------
(* With a sandbox: the helper's answer, and the diff of the session.        *)
Helping == overlay /\ pc \in {"collect", "copy", "discover", "walk"}

\* The node waits a little after the deadline or the lease, then kills the helper.
Abort ==
    /\ Helping /\ cause # "none"
    /\ pc' = "done" /\ fin' = NothingFound(cause) /\ todo' = {}
    /\ UNCHANGED <<overlay, workspace, step, tree, source, out, late, ended, cause, result>>

HelperFails ==
    /\ Helping
    /\ pc' = "done" /\ fin' = NothingFound("error") /\ todo' = {}
    /\ UNCHANGED <<overlay, workspace, step, tree, source, out, late, ended, cause, result>>

\* The diff is placed by a rename; how long it took is looked at once it is done.
SessionDiff ==
    /\ pc = "answered"
    /\ LET err(e) == IF e = "none" THEN cause ELSE e IN
       IF ~step.diff THEN pc' = "done" /\ UNCHANGED <<fin, out>>
       ELSE IF fin.err = "deadline" \/ cause # "none"
            THEN pc' = "done" /\ fin' = [fin EXCEPT !.diff = "skipped", !.err = err(@)] /\ UNCHANGED out
       ELSE /\ pc' = "placed"
            /\ \/ fin' = [fin EXCEPT !.diff = "empty"] /\ UNCHANGED out
               \/ fin' = [fin EXCEPT !.diff = "placed"] /\ out' = [out EXCEPT ![Diff] = "whole"]
               \/ fin' = [fin EXCEPT !.diff = "error"] /\ UNCHANGED out
    /\ UNCHANGED <<overlay, workspace, step, tree, source, todo, late, ended, cause, result>>

SessionDiffed ==
    /\ pc = "placed" /\ pc' = "done"
    /\ fin' = [fin EXCEPT !.err = IF @ = "none" THEN cause ELSE @]
    /\ UNCHANGED <<overlay, workspace, step, tree, source, out, todo, late, ended, cause, result>>

-----------------------------------------------------------------------------
(* The report.                                                              *)
Diagnostics ==
    /\ pc = "done" /\ pc' = "close"
    /\ result' = [result EXCEPT
          !.missing = {n \in step.required : out[n] # "whole"},
          !.changes = CASE fin.walk \in {"none", "skipped"} -> "not_measured" [] fin.walk = "whole" -> "measured" [] OTHER -> "partial"]
    /\ UNCHANGED <<overlay, workspace, step, tree, source, out, todo, fin, late, ended, cause>>

Close ==
    /\ pc = "close" /\ pc' = "upload"
    /\ \E failed \in BOOLEAN : result' = [result EXCEPT !.closeErr = failed, !.closedLate = late /\ ~ended]
    /\ UNCHANGED <<overlay, workspace, step, tree, source, out, todo, fin, late, ended, cause>>

\* What is sent is in RunOutcome. The sending has a time of its own.
Upload ==
    /\ pc = "upload" /\ pc' = "settle"
    /\ \E how \in {"ok", "error", "timeout"} : result' = [result EXCEPT !.upload = IF ended THEN "timeout" ELSE how]
    /\ UNCHANGED <<overlay, workspace, step, tree, source, out, todo, fin, late, ended, cause>>

Settle ==
    /\ pc = "settle" /\ pc' = "settled"
    /\ LET timedOut == ~ended /\ (fin.err = "deadline" \/ (fin.err = "none" /\ result.closedLate))
           finalize == IF timedOut THEN "timeout" ELSE IF fin.err # "none" \/ result.closeErr THEN "error" ELSE "ok"
           upload == IF result.upload = "timeout" /\ ended THEN "error" ELSE result.upload IN
       result' = [result EXCEPT !.finalize = finalize, !.upload = upload,
                    !.reason = IF finalize = "timeout" THEN "finalize_timeout"
                               ELSE IF upload = "timeout" THEN "upload_timeout" ELSE ""]
    /\ UNCHANGED <<overlay, workspace, step, tree, source, out, todo, fin, late, ended, cause>>

-----------------------------------------------------------------------------
DeadlinePasses ==
    /\ ~late /\ pc \notin {"upload", "settle", "settled"} /\ late' = TRUE
    /\ cause' = IF cause = "none" THEN "deadline" ELSE cause
    /\ UNCHANGED <<overlay, workspace, step, tree, source, out, pc, todo, fin, ended, result>>

LeaseGoes ==
    /\ ~ended /\ pc # "settled" /\ ended' = TRUE
    /\ cause' = IF cause = "none" THEN "canceled" ELSE cause
    /\ UNCHANGED <<overlay, workspace, step, tree, source, out, pc, todo, fin, late, result>>

-----------------------------------------------------------------------------
Finalizing ==
    \/ (\E n \in Names : Collect(n) \/ Copy(n)) \/ CollectOver \/ Check \/ LocalDiff \/ LocalDiffed
    \/ Discover \/ (\E f \in Files : Visit(f)) \/ Walked \/ Abort \/ HelperFails \/ SessionDiff \/ SessionDiffed
Reporting == Diagnostics \/ Close \/ Upload \/ Settle
HarvestNext == Finalizing \/ Reporting \/ DeadlinePasses \/ LeaseGoes
HarvestSpec == HarvestInit /\ [][HarvestNext]_harvestVars

-----------------------------------------------------------------------------
Settled == pc = "settled"

\* A step whose Finalize is reported as ok was gathered whole (finalize.go:232-246, runtime.go:243-270):
\* each file to collect is in $OUT or the reason is told, a required one that is not there is missing
\* in the report, the named paths were compared, the diff that was asked for is placed, empty or its
\* failure told, and the walk that was asked for was made -- or, on a node without a workspace, is
\* told as skipped and measures nothing. Whatever the deadline, the end of the lease or the end of the
\* helper fell between; a deadline that is met says timeout.
OkIsComplete ==
    Settled /\ result.finalize = "ok" =>
        /\ \A n \in step.collect : out[n] = "whole" \/ n \in fin.notes
        /\ \A n \in step.required : out[n] = "whole" \/ n \in result.missing
        /\ fin.changed = Changed
        /\ step.diff => fin.diff \in {"placed", "empty", "error"}
        /\ step.discover => IF workspace THEN fin.walk \notin {"none", "skipped"}
                            ELSE fin.walk = "skipped" /\ result.changes = "not_measured"

\* A report that says the changes were measured lists all of them (finalize.go:316-325, ADR-075: what
\* was not looked at is not said to be unchanged): a walk that a limit, the deadline or the size of
\* the report cut short is partial, and the list of a helper that was killed is no list.
MeasuredIsComplete == Settled /\ result.changes = "measured" => fin.paths = {f \in Files : Listed(f)}
=============================================================================
