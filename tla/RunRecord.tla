------------------------------ MODULE RunRecord ------------------------------
(***************************************************************************)
(* What one step leaves at the Mediator: the raw transcript it pushes      *)
(* while it runs (internal/enode/upload.go, internal/record/progress.go),  *)
(* its log and its artifact (putLog, putBlob of internal/api), and the     *)
(* seal of the Run's record (internal/record/record.go).                   *)
(*                                                                         *)
(* A request is a handler of its own: it reads the Run's state, takes its  *)
(* locks or opens its file, and reads a body that may break off.  The node *)
(* may stop waiting for it; the handler goes on.  The Run may be cancelled,*)
(* the reaper sweeps progress trees, the Mediator may stop at any point.   *)
(*                                                                         *)
(* Bytes of an attempt are the numbers 1, 2, ..; those in Lines end a line.*)
(* Left out: failures of the disk; the panel's ring file; a second sealer  *)
(* (RunLifecycle has it).                                                  *)
(***************************************************************************)
EXTENDS Integers, Sequences, FiniteSets

CONSTANTS
    MaxAttempt,  \* attempts 0 .. MaxAttempt of the step
    Writes,      \* per attempt: bytes it writes at most
    Lines,       \* those that end a line
    BufferMax,   \* uploadBufferMax
    Limit,       \* MaxBlobBytes, for a progress file
    MaxFaults    \* bound: answers lost, bodies broken, restarts, long silences, steps taken over,
                 \*   a Run submitted in the middle of a sweep

Attempts == 0..MaxAttempt

ASSUME RecordAssumption ==
    /\ MaxAttempt \in Nat /\ BufferMax \in Nat /\ Limit \in Nat /\ MaxFaults \in Nat
    /\ Writes \in [Attempts -> Nat] /\ Lines \subseteq Nat \ {0}

Mark == 0        \* cappedMarker
NewLine == -1    \* the newline put before it
None == -1

VARIABLES
    recorded,      \* none, running, reported or cancelled (a terminal state)
    attempt,  \* the step's attempt in the database
    node,     \* per attempt: where the node is (at), the bytes the command wrote, and the
              \*   uploader's buf, inflight, done
    reqs,     \* handlers: kind, att, body, pc, wait (the node waits), as (an artifact's attempt)
    dir,      \* the Run's progress folder is there
    file,     \* per attempt: the progress file
    sweep,    \* the reaper's sweep: pc, live (its list has the Run), doomed (an old file)
    rec,      \* the record: log, blobs (per attempt: whose), temps, locked log
    seal,     \* none, due, write, locking, files, sealed; half and jammed after a restart
    harmed,   \* attempts: bytes possibly twice, file swept while the Run lives, artifact astray
    faults    \* bound: so far

recordVars == <<recorded, attempt, node, reqs, dir, file, sweep, rec, seal, harmed, faults>>
db == <<recorded, attempt>>
tree == <<dir, file>>

NoFile == [on |-> FALSE, bytes |-> <<>>, old |-> FALSE]

RecordInit ==
    /\ recorded = "none" /\ attempt = 0
    /\ node = [a \in Attempts |-> [at |-> "idle", wrote |-> 0, buf |-> <<>>, inflight |-> <<>>, done |-> FALSE]]
    /\ reqs = {} /\ dir = FALSE /\ file = [a \in Attempts |-> NoFile]
    /\ sweep = [pc |-> "idle", live |-> FALSE, doomed |-> None]
    /\ rec = [log |-> <<>>, blobs |-> [a \in Attempts |-> None], temps |-> {}, locked |-> FALSE]
    /\ seal = "none" /\ harmed = [twice |-> {}, swept |-> {}, astray |-> {}] /\ faults = 0

Fault == faults < MaxFaults /\ faults' = faults + 1

Live == recorded = "running"
Ended == recorded \in {"reported", "cancelled"}

-----------------------------------------------------------------------------
(* The uploader. It has one request out at most.                           *)

Awaited(a) == {r \in reqs : r.att = a /\ r.wait}

Halted(n) == [n EXCEPT !.done = TRUE, !.buf = <<>>, !.inflight = <<>>]

Overflows(n) == Len(n.buf) + Len(n.inflight) + 1 > BufferMax

\* Write never waits. When the buffer is full, what was buffered is not sent either.
Written(n) ==
    LET m == [n EXCEPT !.wrote = @ + 1] IN
    IF m.done THEN m
    ELSE IF Overflows(n) THEN [m EXCEPT !.done = TRUE]
    ELSE [m EXCEPT !.buf = Append(@, m.wrote)]

Write(a) ==
    /\ node[a].at = "on" /\ node[a].wrote < Writes[a]
    /\ node' = [node EXCEPT ![a] = Written(@)]
    /\ UNCHANGED <<db, reqs, tree, sweep, rec, seal, harmed, faults>>

CanTake(n) == ~n.done /\ n.buf # <<>>

\* A request is there when its handler has read the Run's state: one of a Run that is over
\* is answered at once, and changes nothing.
Request(a, kind, body) == [kind |-> kind, att |-> a, body |-> body, pc |-> "checked", wait |-> TRUE, as |-> None]

\* Slip: what could not be sent goes behind what came meanwhile.
PutBehind(n) ==
    LET m == [n EXCEPT !.inflight = <<>>] IN
    IF n.done THEN m
    ELSE IF Len(n.inflight) + Len(n.buf) > BufferMax THEN Halted(n)
    ELSE [m EXCEPT !.buf = @ \o n.inflight]

PutBack(n) ==
    LET m == [n EXCEPT !.inflight = <<>>] IN
    IF n.done THEN m
    ELSE IF Len(n.inflight) + Len(n.buf) > BufferMax THEN Halted(n)
    ELSE [m EXCEPT !.buf = n.inflight \o @]

After(at) ==
    CASE at = "last" -> "log" [] at = "logging" -> "blob" [] at = "blobbing" -> "report" [] OTHER -> at

\* What the answer to a chunk tells: a newer attempt's or a full file stops the uploader.
Heard(n, a, ack) ==
    IF ack.att > a \/ ack.capped THEN Halted(n) ELSE [n EXCEPT !.inflight = <<>>]

\* The handler is through; its answer goes to the node, if it still waits.
Told(r, n) ==
    /\ reqs' = reqs \ {r}
    /\ node' = IF r.wait THEN [node EXCEPT ![r.att] = [n EXCEPT !.at = After(@)]] ELSE node

Refuse(r) == Told(r, IF r.kind = "chunk" THEN PutBack(node[r.att]) ELSE node[r.att])
Accept(r) == Told(r, node[r.att])
Acknowledge(r, ack) == Told(r, Heard(node[r.att], r.att, ack))
Enters(r, s) == reqs' = (reqs \ {r}) \cup {[s EXCEPT !.pc = "in"]} /\ UNCHANGED node

\* take, then PutLogChunk. Close lets the flush that runs come back and makes one more.
Flush(a) ==
    /\ node[a].at \in {"on", "closing"} /\ Awaited(a) = {} /\ CanTake(node[a])
    /\ LET at == IF node[a].at = "closing" THEN "last" ELSE "on" IN
       IF Live THEN /\ node' = [node EXCEPT ![a].inflight = node[a].buf, ![a].buf = <<>>, ![a].at = at]
                    /\ reqs' = reqs \cup {Request(a, "chunk", node[a].buf)}
       ELSE node' = [node EXCEPT ![a].at = After(at)] /\ UNCHANGED reqs
    /\ UNCHANGED <<db, tree, sweep, rec, seal, harmed, faults>>

\* The node's time limit, or the answer is lost: the handler is not stopped by it.
Abandon(a) ==
    \E r \in Awaited(a) :
        /\ Fault
        /\ LET n == [node[a] EXCEPT !.at = After(@)] IN
           node' = [node EXCEPT ![a] = IF r.kind = "chunk" THEN PutBack(n) ELSE n]
        /\ reqs' = (reqs \ {r}) \cup {[r EXCEPT !.wait = FALSE]}
        /\ harmed' = CASE r.kind = "chunk" -> [harmed EXCEPT !.twice = @ \cup {a}]
                        [] r.kind = "blob" -> [harmed EXCEPT !.astray = @ \cup {a}] [] OTHER -> harmed
        /\ UNCHANGED <<db, tree, sweep, rec, seal>>

-----------------------------------------------------------------------------
(* The step, around it.                                                    *)

Submit ==
    /\ recorded = "none" /\ recorded' = "running"
    /\ IF sweep.pc = "idle" THEN UNCHANGED faults ELSE Fault
    /\ UNCHANGED <<attempt, node, reqs, tree, sweep, rec, seal, harmed>>

Begin(a) ==
    /\ Live /\ attempt = a /\ node[a].at = "idle"
    /\ node' = [node EXCEPT ![a].at = "on"]
    /\ UNCHANGED <<db, reqs, tree, sweep, rec, seal, harmed, faults>>

\* The command is over: the uploader is closed before the log is sent.
Close(a) ==
    /\ node[a].at = "on"
    /\ node' = [node EXCEPT ![a].at = "closing"]
    /\ UNCHANGED <<db, reqs, tree, sweep, rec, seal, harmed, faults>>

Closed(n) == n.at = "log" \/ (n.at = "closing" /\ ~CanTake(n))

PutFile(a, kind, at) ==
    IF Live THEN node' = [node EXCEPT ![a].at = at] /\ reqs' = reqs \cup {Request(a, kind, <<>>)}
    ELSE node' = [node EXCEPT ![a].at = After(at)] /\ UNCHANGED reqs

\* The log first, when the uploader has stopped, then the artifact, if there is one; each
\* answer is waited for.
Upload(a) ==
    /\ \/ Closed(node[a]) /\ Awaited(a) = {} /\ PutFile(a, "log", "logging")
       \/ node[a].at = "blob" /\ PutFile(a, "blob", "blobbing")
    /\ UNCHANGED <<db, tree, sweep, rec, seal, harmed, faults>>

\* The report may end the Run, or send it back over the step.
PostResult(a) ==
    /\ node[a].at \in {"blob", "report"} /\ node' = [node EXCEPT ![a].at = "over"]
    /\ \/ (~Live \/ attempt # a) /\ UNCHANGED <<db, seal>>
       \/ Live /\ attempt = a /\ a < MaxAttempt /\ attempt' = a + 1 /\ UNCHANGED <<recorded, seal>>
       \/ Live /\ attempt = a /\ recorded' = "reported" /\ seal' = "due" /\ UNCHANGED attempt
    /\ UNCHANGED <<reqs, tree, sweep, rec, harmed, faults>>

Cancel ==
    /\ Live /\ recorded' = "cancelled" /\ seal' = "due"
    /\ UNCHANGED <<attempt, node, reqs, tree, sweep, rec, harmed, faults>>

\* A heartbeat of another life fails the step while its node still runs it, and a loop
\* takes it back.
TakenOver ==
    /\ Live /\ attempt < MaxAttempt /\ node[attempt].at \notin {"idle", "over"} /\ Fault
    /\ attempt' = attempt + 1 /\ harmed' = [harmed EXCEPT !.astray = @ \cup {attempt}]
    /\ UNCHANGED <<recorded, node, reqs, tree, sweep, rec, seal>>

-----------------------------------------------------------------------------
(* The handlers.                                                           *)

Inside(kind) == {r \in reqs : r.kind = kind /\ r.pc = "in"}

Shown == IF \E a \in Attempts : file[a].on THEN CHOOSE a \in Attempts : file[a].on /\ \A b \in Attempts : file[b].on => b <= a ELSE None

Capped(f) == f # <<>> /\ f[Len(f)] = Mark

\* A chunk of an attempt older than the newest file's is dropped, and answered with that one.
TooLate(a) == a < Shown

\* AppendProgress, from the locks to the open file: the folder, the newest attempt by the
\* names, the older ones removed.
EnterProgress ==
    \E r \in reqs :
        /\ r.kind = "chunk" /\ r.pc = "checked" /\ Inside("chunk") = {}
        /\ dir' = TRUE
        /\ IF TooLate(r.att)
           THEN /\ Acknowledge(r, [att |-> Shown, capped |-> Capped(file[Shown].bytes)])
                /\ UNCHANGED file
           ELSE /\ Enters(r, r)
                /\ file' = [a \in Attempts |-> IF a < r.att THEN NoFile ELSE IF a = r.att THEN [file[a] EXCEPT !.on = TRUE] ELSE file[a]]
        /\ UNCHANGED <<db, sweep, rec, seal, harmed, faults>>

EndsLine(f) == f[Len(f)] \in Lines \cup {NewLine}

\* The last line that ends in the budget.
LastLine(c, budget) ==
    LET ends == {k \in 1..budget : c[k] \in Lines} IN
    IF ends = {} THEN 0 ELSE CHOOSE k \in ends : \A j \in ends : j <= k

Marked(f) == (IF f = <<>> \/ EndsLine(f) THEN f ELSE Append(f, NewLine)) \o <<Mark>>

\* cappedTail, appendWithinLimit.
AppendWithinLimit(f, c) ==
    IF Capped(f) THEN f
    ELSE IF Len(f) + Len(c) <= Limit /\ Len(f) < Limit THEN f \o c
    ELSE Marked(f \o SubSeq(c, 1, LastLine(c, Limit - Len(f))))

Leaves(a, bytes) == file' = [file EXCEPT ![a] = [on |-> TRUE, bytes |-> bytes, old |-> @.old /\ bytes = @.bytes]]

AppendProgress ==
    \E r \in Inside("chunk") :
        LET bytes == AppendWithinLimit(file[r.att].bytes, r.body) IN
        /\ Leaves(r.att, bytes)
        /\ Acknowledge(r, [att |-> r.att, capped |-> Capped(bytes)])
        /\ UNCHANGED <<db, dir, sweep, rec, seal, harmed, faults>>

\* What a body leaves when it breaks off before the budget is full stays in the file.
Parts(f, c) == IF Capped(f) THEN {f} ELSE {f \o SubSeq(c, 1, k) : k \in {j \in 0..(Len(c) - 1) : j = 0 \/ Len(f) + j <= Limit}}

BreakProgress ==
    \E r \in Inside("chunk") :
        /\ Fault
        /\ \E bytes \in Parts(file[r.att].bytes, r.body) : Leaves(r.att, bytes)
        /\ Refuse(r) /\ harmed' = [harmed EXCEPT !.twice = @ \cup {r.att}]
        /\ UNCHANGED <<db, dir, sweep, rec, seal>>

DirLocked == seal = "sealed"

\* AppendLog: a file that is open is written whatever its mode becomes.
EnterLog ==
    \E r \in reqs :
        /\ r.kind = "log" /\ r.pc = "checked"
        /\ IF rec.locked \/ (DirLocked /\ rec.log = <<>>) THEN Refuse(r) ELSE Enters(r, r)
        /\ UNCHANGED <<db, tree, sweep, rec, seal, harmed, faults>>

AppendLog ==
    \E r \in Inside("log") :
        /\ rec' = [rec EXCEPT !.log = Append(@, r.att)]
        /\ Accept(r)
        /\ UNCHANGED <<db, tree, sweep, seal, harmed, faults>>

\* WriteBlob: the attempt is the database's, asked for before the body is read.
EnterBlob ==
    \E r \in reqs :
        /\ r.kind = "blob" /\ r.pc = "checked"
        /\ IF DirLocked THEN Refuse(r) /\ UNCHANGED rec
           ELSE /\ Enters(r, [r EXCEPT !.as = attempt])
                /\ rec' = [rec EXCEPT !.temps = @ \cup {r.att}]
        /\ UNCHANGED <<db, tree, sweep, seal, harmed, faults>>

RenameBlob ==
    \E r \in Inside("blob") :
        /\ IF DirLocked \/ r.att \notin rec.temps THEN Refuse(r) /\ UNCHANGED rec
           ELSE /\ Accept(r)
                /\ rec' = [rec EXCEPT !.temps = @ \ {r.att}, !.blobs[r.as] = r.att]
        /\ UNCHANGED <<db, tree, sweep, seal, harmed, faults>>

-----------------------------------------------------------------------------
(* The seal.                                                               *)

Gone == dir' = FALSE /\ file' = [a \in Attempts |-> NoFile]

\* DropProgress waits for the chunks that are being read; seal or not, it comes first.
SealDrop ==
    /\ seal = "due" /\ Inside("chunk") = {} /\ Gone /\ seal' = "write"
    /\ UNCHANGED <<db, node, reqs, sweep, rec, harmed, faults>>

\* manifest, steps and verdict; the temporary files are removed.
SealWrite ==
    /\ seal = "write" /\ rec' = [rec EXCEPT !.temps = {}] /\ seal' = "locking"
    /\ UNCHANGED <<db, node, reqs, tree, sweep, harmed, faults>>

\* The files the walk found, the verdict last; then the folders.
SealFiles ==
    /\ seal = "locking" /\ rec' = [rec EXCEPT !.locked = rec.log # <<>>] /\ seal' = "files"
    /\ UNCHANGED <<db, node, reqs, tree, sweep, harmed, faults>>

SealDirs ==
    /\ seal = "files" /\ seal' = "sealed"
    /\ UNCHANGED <<db, node, reqs, tree, sweep, rec, harmed, faults>>

Sealed == seal \in {"files", "sealed", "half"}

NoSweep == [pc |-> "idle", live |-> FALSE, doomed |-> None]

\* The Mediator stops: handlers, seal and sweep with it. It seals what is not sealed when it
\* is up again; a manifest that was made read-only before the verdict cannot be written again.
Restart ==
    /\ Fault
    /\ seal' \in CASE seal = "write" -> {"due"} [] seal = "locking" -> {"due", "jammed"} [] seal = "files" -> {"half"} [] OTHER -> {seal}
    /\ rec' = [rec EXCEPT !.locked = @ \/ (seal' = "jammed" /\ rec.log # <<>>)]
    /\ reqs' = {}
    /\ node' = [a \in Attempts |-> IF Awaited(a) = {} THEN node[a]
                  ELSE [IF \E r \in Awaited(a) : r.kind = "chunk" THEN PutBack(node[a]) ELSE node[a] EXCEPT !.at = After(@)]]
    /\ harmed' = [harmed EXCEPT !.twice = @ \cup {r.att : r \in Inside("chunk")}]
    /\ IF Inside("chunk") = {} THEN UNCHANGED file
       ELSE \E r \in Inside("chunk") : \E bytes \in Parts(file[r.att].bytes, r.body) : Leaves(r.att, bytes)
    /\ sweep' = NoSweep
    /\ UNCHANGED <<db, dir>>

-----------------------------------------------------------------------------
(* The sweep of progress trees: the list of live Runs first, the folders after it. *)

\* HasProgress: this Run's folder, or, before this Run, another's.
HasProgress == dir \/ recorded = "none"

Listed == Live

SweepList ==
    /\ sweep.pc = "idle" /\ HasProgress /\ sweep' = [NoSweep EXCEPT !.pc = "listed", !.live = Listed]
    /\ UNCHANGED <<db, node, reqs, tree, rec, seal, harmed, faults>>

\* In the folder of a live Run the age of a file is read without the step's lock, for which
\* the removal then waits.
SweepLook ==
    /\ sweep.pc = "listed"
    /\ sweep' = IF ~dir THEN NoSweep
                ELSE IF ~sweep.live THEN [sweep EXCEPT !.pc = "drop"]
                ELSE IF \E a \in Attempts : file[a].old
                THEN [sweep EXCEPT !.pc = "remove", !.doomed = CHOOSE a \in Attempts : file[a].old]
                ELSE NoSweep
    /\ UNCHANGED <<db, node, reqs, tree, rec, seal, harmed, faults>>

SweepRemove ==
    /\ sweep.pc = "remove" /\ Inside("chunk") = {}
    /\ file' = [file EXCEPT ![sweep.doomed] = NoFile]
    /\ harmed' = [harmed EXCEPT !.swept = @ \cup {sweep.doomed}]
    /\ sweep' = NoSweep
    /\ UNCHANGED <<db, node, reqs, dir, rec, seal, faults>>

SweepDrop ==
    /\ sweep.pc = "drop" /\ Inside("chunk") = {} /\ Gone /\ sweep' = NoSweep
    /\ harmed' = [harmed EXCEPT !.swept = @ \cup {a \in Attempts : Live /\ file[a].on}]
    /\ UNCHANGED <<db, node, reqs, rec, seal, faults>>

\* Six hours without a byte.
Silence ==
    /\ Live /\ Fault /\ Inside("chunk") = {}
    /\ \E a \in Attempts : file[a].on /\ ~file[a].old /\ file' = [file EXCEPT ![a].old = TRUE]
    /\ UNCHANGED <<db, node, reqs, dir, sweep, rec, seal, harmed>>

-----------------------------------------------------------------------------
Handler == EnterProgress \/ AppendProgress \/ EnterLog \/ AppendLog \/ EnterBlob \/ RenameBlob
Seal == SealDrop \/ SealWrite \/ SealFiles \/ SealDirs
Sweep == SweepList \/ SweepLook \/ SweepRemove \/ SweepDrop
NodeGoesOn(a) == Flush(a) \/ Close(a) \/ Upload(a) \/ PostResult(a)

RecordNext ==
    \/ Submit \/ Cancel \/ TakenOver \/ Handler \/ Seal \/ Sweep \/ BreakProgress \/ Restart \/ Silence
    \/ \E a \in Attempts : Begin(a) \/ Write(a) \/ NodeGoesOn(a) \/ Abandon(a)

RecordSpec == RecordInit /\ [][RecordNext]_recordVars

\* What a handler, the seal, the sweep and a node have begun goes on; a body that comes in
\* ends or breaks off (the node's client gives it 30 s), and every command ends.
RecordFairSpec ==
    /\ RecordSpec /\ WF_recordVars(EnterProgress) /\ WF_recordVars(AppendProgress)
    /\ WF_recordVars(EnterLog \/ AppendLog) /\ WF_recordVars(EnterBlob \/ RenameBlob)
    /\ WF_recordVars(Seal) /\ WF_recordVars(Sweep)
    /\ \A a \in Attempts : WF_recordVars(Flush(a)) /\ WF_recordVars(Close(a)) /\ WF_recordVars(Upload(a) \/ PostResult(a))

-----------------------------------------------------------------------------
\* The shape of the state; and the node never holds more than BufferMax unsent bytes of a
\* step, those on their way included (uploadBufferMax, upload.go:31-44), nor has two
\* requests out.
RecordTypeOK ==
    /\ recorded \in {"none", "running", "reported", "cancelled"} /\ attempt \in Attempts /\ dir \in BOOLEAN
    /\ \A a \in Attempts : /\ Len(node[a].buf) + Len(node[a].inflight) <= BufferMax
                           /\ Cardinality(Awaited(a)) <= 1
    /\ \A a \in Attempts : file[a].on => dir
    /\ rec.temps \subseteq Attempts /\ Cardinality(Inside("chunk")) <= 1 /\ faults \in 0..MaxFaults

\* While the Run lives its transcript is of one attempt, and has no hole: no byte comes
\* before the bytes written before it have come, whatever was lost, sent again, cut or came
\* late. Only after a sweep removed a file under a live Run may one lack its head (upload.go:168-175).
NoHole ==
    Live => \A a \in Attempts : file[a].on =>
        /\ \A b \in Attempts \ {a} : ~file[b].on
        /\ harmed.swept = {} =>
               \A i \in 1..Len(file[a].bytes) : file[a].bytes[i] > 1 =>
                   \E j \in 1..(i - 1) : file[a].bytes[j] = file[a].bytes[i] - 1

\* The line that says the limit was met is the last, comes once, and starts a line: a chunk
\* sent again after the answer with X-Enode-Log-Capped was lost adds nothing
\* (progress.go, R14, R15, R43).
MarkIsLast ==
    \A a \in Attempts : LET f == file[a].bytes IN
        \A i \in 1..Len(f) : f[i] = Mark => i = Len(f) /\ (i = 1 \/ EndsLine(SubSeq(f, 1, i - 1)))

\* When nothing failed, all a command wrote is in the file, once and in order, before its
\* log is sent: the last flush of Close is over by then (upload.go:328-336).
AllIsUp ==
    \A a \in Attempts :
        faults = 0 /\ Live /\ attempt = a /\ ~node[a].done /\ node[a].at \in {"log", "logging", "blob", "blobbing", "report"} =>
            file[a].bytes = [i \in 1..node[a].wrote |-> i]

\* A record that was sealed after the Run's own last report never changes again, unless a
\* fault let a request outlive its step: every answer is waited for before the report
\* (record.go: I4).
SealedStays ==
    [][Sealed /\ recorded = "reported" /\ faults = 0 => rec'.log = rec.log /\ rec'.blobs = rec.blobs]_recordVars

\* An artifact is kept under the attempt that made it, though the attempt is the one the
\* database has when the request is handled; only a request the node gave up, or a step
\* taken over, can be filed under a later one.
BlobsKeepTheirAttempt ==
    \A a \in Attempts : rec.blobs[a] \in {None, a} \cup harmed.astray

\* When a Run is over, its transcript goes from the disk for good, though late chunks may
\* make the folder again (progress.go: R20-R24).
TranscriptGoes == (recorded \in {"reported", "cancelled"}) ~> [](~dir)

\* What src/internal/store/reap.go:166 says: what ended and is not sealed gets sealed.
RecordsSeal == (recorded \in {"reported", "cancelled"}) ~> Sealed
=============================================================================
