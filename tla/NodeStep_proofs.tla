--------------------------- MODULE NodeStep_proofs ---------------------------
(***************************************************************************)
(* What a node does with a step it has claimed, proved for any number of   *)
(* commands, servers, artifacts, problems and deaths of the helper: what a *)
(* session captures is whole, its Worker reads the answer to what it asked *)
(* last (StepSession), and a harness runs as it was asked and only whole   *)
(* work leaves the node (AgentStep).                                       *)
(***************************************************************************)
EXTENDS StepSession, AgentStep, TLAPS

-----------------------------------------------------------------------------
(* StepSession: the Worker reads the answer to what it asked, and what it   *)
(* keeps is whole.                                                          *)

SomeRequest == [op : {"open", "run", "cancel", "finalize", "close"}, run : Nat]
SomeAnswer == [op : {"opened", "refused", "run-done", "finalized", "closed"}, run : Nat, how : {"ok", "error", "killed", "deadline"}]
Command == [run : Nat, st : {"none", "spawned", "started", "active", "answered"}, dying : BOOLEAN]
Learned == [finErr : {"none", "error", "deadline"}, closeErr : BOOLEAN, plan : BOOLEAN, moved : {"no", "yes", "aborted"},
            closedLate : BOOLEAN, capture : {"no", "captured", "failed"}, finalize : {"none", "ok", "timeout", "error"},
            upload : {"none", "ok", "timeout", "error"}, report : {"none", "refused", "aborted", "result"}]

Done == {"exiting", "keep", "release", "closed", "upload", "report", "over"}

SessionTyped ==
    /\ pc \in {"claimed", "open", "opening", "ready", "running", "stop", "finalizing", "diff", "diffing", "decide", "closing"} \cup Done
    /\ runs \in Nat /\ ended \in BOOLEAN /\ late \in BOOLEAN
    /\ toHelper \in Seq(SomeRequest) /\ toHost \in Seq(SomeAnswer) /\ stdin \in BOOLEAN
    /\ helper \in {"none", "up", "final", "closing", "leaving", "shot", "gone"}
    /\ proc \in Command /\ mounted \in BOOLEAN
    /\ running \in BOOLEAN /\ canceled \in BOOLEAN
    /\ step \in Learned

\* A request among cancels, and cancels alone.
Cancels(q) == \A i \in 1..Len(q) : q[i].op = "cancel"
OneAsk(q, op, n) ==
    \E k \in 1..Len(q) : /\ q[k].op = op
                         /\ op = "run" => q[k].run = n
                         /\ \A i \in 1..Len(q) : i # k => q[i].op = "cancel"

LEMMA OnlyCancels ==
    ASSUME NEW q \in Seq(SomeRequest), Cancels(q), NEW r \in SomeRequest
    PROVE  /\ r.op = "cancel" => Cancels(Append(q, r))
           /\ r.op # "cancel" => OneAsk(Append(q, r), r.op, r.run)
           /\ q # <<>> => Cancels(Tail(q)) /\ Head(q).op = "cancel"
<1>1. Len(Append(q, r)) = Len(q) + 1 /\ Append(q, r)[Len(q) + 1] = r /\ \A i \in 1..Len(q) : Append(q, r)[i] = q[i]
  OBVIOUS
<1>2. Len(q) \in Nat
  OBVIOUS
<1>3. r.op = "cancel" => Cancels(Append(q, r))
  BY <1>1, <1>2 DEF Cancels
<1>4. r.op # "cancel" => OneAsk(Append(q, r), r.op, r.run)
  BY <1>1, <1>2 DEF Cancels, OneAsk
<1>5. ASSUME q # <<>>
      PROVE  Cancels(Tail(q)) /\ Head(q).op = "cancel"
  <2>1. Len(q) > 0 /\ Head(q) = q[1] /\ Len(Tail(q)) = Len(q) - 1 /\ \A i \in 1..Len(Tail(q)) : Tail(q)[i] = q[i + 1]
    BY <1>5
  <2>2. QED
    BY <1>2, <2>1 DEF Cancels
<1>6. QED
  BY <1>3, <1>4, <1>5

LEMMA AskedOnce ==
    ASSUME NEW q \in Seq(SomeRequest), NEW op \in {"open", "run", "finalize", "close"}, NEW n, OneAsk(q, op, n), NEW r \in SomeRequest
    PROVE  /\ q # <<>> /\ ~Cancels(q)
           /\ r.op = "cancel" => OneAsk(Append(q, r), op, n)
           /\ Head(q).op = "cancel" => OneAsk(Tail(q), op, n)
           /\ Head(q).op # "cancel" => Head(q).op = op /\ (op = "run" => Head(q).run = n) /\ Cancels(Tail(q))
<1>1. PICK k \in 1..Len(q) : /\ q[k].op = op
                             /\ op = "run" => q[k].run = n
                             /\ \A i \in 1..Len(q) : i # k => q[i].op = "cancel"
  BY DEF OneAsk
<1>2. Len(Append(q, r)) = Len(q) + 1 /\ Append(q, r)[Len(q) + 1] = r /\ \A i \in 1..Len(q) : Append(q, r)[i] = q[i]
  OBVIOUS
<1>3. Len(q) \in Nat /\ q # <<>>
  BY <1>1
<1>4. Len(q) > 0 /\ Head(q) = q[1] /\ Len(Tail(q)) = Len(q) - 1 /\ \A i \in 1..Len(Tail(q)) : Tail(q)[i] = q[i + 1]
  BY <1>3
<1>5. r.op = "cancel" => OneAsk(Append(q, r), op, n)
  BY <1>1, <1>2, <1>3 DEF OneAsk
<1>6. ASSUME Head(q).op = "cancel"
      PROVE  OneAsk(Tail(q), op, n)
  <2>1. k # 1 /\ k - 1 \in 1..Len(Tail(q))
    BY <1>1, <1>3, <1>4, <1>6
  <2>2. Tail(q)[k - 1] = q[k]
    BY <1>4, <2>1
  <2>3. \A i \in 1..Len(Tail(q)) : i # k - 1 => Tail(q)[i].op = "cancel"
    BY <1>1, <1>3, <1>4, <2>1
  <2>4. QED
    BY <1>1, <2>1, <2>2, <2>3 DEF OneAsk
<1>7. ASSUME Head(q).op # "cancel"
      PROVE  Head(q).op = op /\ (op = "run" => Head(q).run = n) /\ Cancels(Tail(q))
  <2>1. k = 1
    BY <1>1, <1>3, <1>4, <1>7
  <2>2. QED
    BY <1>1, <1>3, <1>4, <2>1 DEF Cancels
<1>8. ~Cancels(q)
  BY <1>1 DEF Cancels
<1>9. QED
  BY <1>3, <1>5, <1>6, <1>7, <1>8

-----------------------------------------------------------------------------
Still == proc.st \in {"none", "answered"}

\* m answers op.
Answers(op, m) ==
    CASE op = "open" -> m.op = "opened"
      [] op = "run" -> m.op = "refused" \/ (m.op = "run-done" /\ m.run = runs)
      [] op = "finalize" -> m.op = "finalized"
      [] op = "close" -> m.op = "closed"

\* What the Worker has asked is in the pipe, or the helper is at it, or has answered; or it is gone.
InPipe(op) == helper = "up" /\ OneAsk(toHelper, op, runs) /\ toHost = <<>> /\ Still
AtWork(op) ==
    /\ Cancels(toHelper) /\ toHost = <<>>
    /\ CASE op = "open" -> FALSE
         [] op = "run" -> helper = "up" /\ proc.st \in {"spawned", "started", "active"} /\ proc.run = runs
         [] op = "finalize" -> helper = "final" /\ Still
         [] op = "close" -> helper = "closing" /\ Still
Back(op) ==
    /\ Cancels(toHelper) /\ Len(toHost) = 1 /\ Answers(op, Head(toHost)) /\ Still
    /\ helper \in (IF op = "close" THEN {"leaving", "gone"} ELSE {"up", "gone"})
Lost == helper = "gone" /\ toHost = <<>> /\ Cancels(toHelper) /\ Still
Waits(op) == InPipe(op) \/ AtWork(op) \/ Back(op) \/ Lost

\* Nothing is asked.
Quiet == helper \in {"up", "gone"} /\ Cancels(toHelper) /\ toHost = <<>> /\ Still

Wires ==
    /\ pc \in {"claimed", "open"} => helper = "none" /\ toHelper = <<>> /\ toHost = <<>> /\ Still
    /\ pc = "opening" => Waits("open")
    /\ pc \in {"ready", "stop", "diff", "decide"} => Quiet
    /\ pc \in {"running", "diffing"} => Waits("run")
    /\ pc = "finalizing" => Waits("finalize")
    /\ pc = "closing" => Waits("close")
    /\ pc \in Done => helper \in {"none", "leaving", "shot", "gone"} /\ toHost = <<>> /\ Still

\* The namespace has ended before the Worker goes on to what it kept, and its pipe is open until then.
Mounts ==
    /\ pc \in {"claimed", "open"} \cup Done \/ helper \in {"leaving", "gone"} => ~mounted
    /\ stdin \/ helper = "gone" \/ pc \in Done
    /\ step.moved # "no" => pc \in Done \/ (pc = "decide" /\ helper = "gone")

\* What the helper reads, the Worker waits for.
LEMMA ReadsWhatIsAsked ==
    ASSUME SessionTyped, Wires, NEW op \in {"open", "run", "finalize", "close"}, Reads(op)
    PROVE  /\ InPipe(op) /\ Cancels(Tail(toHelper))
           /\ op = "run" => Head(toHelper).run = runs
           /\ CASE op = "open" -> pc = "opening"
                [] op = "run" -> pc \in {"running", "diffing"}
                [] op = "finalize" -> pc = "finalizing"
                [] op = "close" -> pc = "closing"
<1>1. toHelper \in Seq(SomeRequest) /\ toHelper # <<>> /\ Head(toHelper).op = op /\ op # "cancel" /\ helper = "up"
  BY DEF Reads, SessionTyped
<1>2. ~Cancels(toHelper)
  <2>1. Len(toHelper) > 0 /\ Head(toHelper) = toHelper[1]
    BY <1>1
  <2>2. QED
    BY <1>1, <2>1 DEF Cancels
<1>3. PICK ask \in {"open", "run", "finalize", "close"} :
          /\ Waits(ask)
          /\ CASE ask = "open" -> pc = "opening"
               [] ask = "run" -> pc \in {"running", "diffing"}
               [] ask = "finalize" -> pc = "finalizing"
               [] ask = "close" -> pc = "closing"
  <2>1. pc \notin {"claimed", "open"} \cup {"ready", "stop", "diff", "decide"} \cup Done
    BY <1>1, <1>2 DEF Wires, Quiet
  <2>2. pc \in {"opening", "running", "diffing", "finalizing", "closing"}
    BY <2>1 DEF SessionTyped, Done
  <2>3. CASE pc = "opening"
    BY <2>3 DEF Wires
  <2>4. CASE pc \in {"running", "diffing"}
    BY <2>4 DEF Wires
  <2>5. CASE pc = "finalizing"
    BY <2>5 DEF Wires
  <2>6. CASE pc = "closing"
    BY <2>6 DEF Wires
  <2>7. QED
    BY <2>2, <2>3, <2>4, <2>5, <2>6
<1>4. InPipe(ask)
  BY <1>1, <1>2, <1>3 DEF Waits, AtWork, Back, Lost
<1>5. OneAsk(toHelper, ask, runs)
  BY <1>4 DEF InPipe
<1>6. Head(toHelper) \in SomeRequest
  BY <1>1
<1>7. Head(toHelper).op = ask /\ (ask = "run" => Head(toHelper).run = runs) /\ Cancels(Tail(toHelper))
  BY <1>1, <1>5, <1>6, AskedOnce
<1>8. op = ask
  BY <1>1, <1>7
<1>9. QED
  BY <1>3, <1>4, <1>7, <1>8

-----------------------------------------------------------------------------
(* The folder is there as long as its lock, and what is called captured was  *)
(* moved in time.                                                           *)

Folders ==
    /\ home \in {"none", "home", "trash"} /\ upper \in {"none", "home", "kept", "trash"} /\ held \in BOOLEAN
    /\ ~held => home # "home" /\ upper # "home"
    /\ home = "trash" => upper # "home"
    /\ pc \in {"claimed", "open"} => home = "none" /\ upper = "none" /\ ~held
    /\ pc = "opening" => held /\ home = "home"

Receipt ==
    /\ step.plan => pc \in {"closing"} \cup Done /\ step.finErr # "deadline"
    /\ step.moved = "yes" => step.plan /\ upper = "kept" /\ pc \in {"release", "closed", "upload", "report", "over"}
    /\ step.closedLate => late
    /\ step.capture = "captured" =>
          step.moved = "yes" /\ step.finalize # "timeout" /\ ~step.closedLate /\ pc \in {"upload", "report", "over"}
    /\ pc \notin {"report", "over"} => step.finalize # "timeout"

SessionInv == SessionTyped /\ Wires /\ Mounts /\ Folders /\ Receipt

-----------------------------------------------------------------------------
(* Types.                                                                   *)

LEMMA WordsStay ==
    ASSUME NEW q, NEW S, q \in Seq(S)
    PROVE  (\A r \in S : Append(q, r) \in Seq(S)) /\ (q # <<>> => Tail(q) \in Seq(S) /\ Head(q) \in S)
OBVIOUS

LEMMA LearnedStays ==
    ASSUME SessionTyped, Next
    PROVE  step' \in Learned
<1>1. step \in Learned
  BY DEF SessionTyped
<1>2. CASE UNCHANGED step
  BY <1>1, <1>2
<1>3. CASE Begin
  BY <1>1, <1>3 DEF Begin, Learned, SessionTyped, Reports
<1>4. CASE Open
  BY <1>1, <1>4 DEF Open, Learned, SessionTyped, Reports
<1>5. CASE Opened
  BY <1>1, <1>5 DEF Opened, Learned, SessionTyped, Reports
<1>6. CASE Finalize
  BY <1>1, <1>6 DEF Finalize, Learned, SessionTyped, Alive
<1>7. CASE Finalized
  BY <1>1, <1>7 DEF Finalized, Learned, SessionTyped, Expired
<1>8. CASE GraceOver
  BY <1>1, <1>8 DEF GraceOver, Learned, SessionTyped, Expired
<1>9. CASE Diffed
  BY <1>1, <1>9 DEF Diffed, Learned, SessionTyped, Expired
<1>10. CASE Decide
  BY <1>1, <1>10 DEF Decide, Learned, SessionTyped
<1>11. CASE Closed
  BY <1>1, <1>11 DEF Closed, Learned, SessionTyped
<1>12. CASE Exited
  BY <1>1, <1>12 DEF Exited, Learned, SessionTyped
<1>13. CASE KeepUpper
  BY <1>1, <1>13 DEF KeepUpper, Learned, SessionTyped
<1>14. CASE LetGo
  BY <1>1, <1>14 DEF LetGo, Learned, SessionTyped
<1>15. CASE Finish
  BY <1>1, <1>15 DEF Finish, Learned, SessionTyped, Commits
<1>16. CASE Upload
  <2>1. Stage \in {"timeout", "error", "ok"}
    BY DEF Stage
  <2>2. PICK how \in {"ok", "timeout", "error"} :
            step' = IF step.finalize = "none" THEN step
                    ELSE [step EXCEPT !.finalize = Stage,
                                      !.upload = IF ended /\ how = "timeout" THEN "error" ELSE how]
    BY <1>16 DEF Upload
  <2>3. QED
    BY <1>1, <2>1, <2>2 DEF Learned
<1>17. CASE Report
  BY <1>1, <1>17 DEF Report, Learned, SessionTyped, Reports
<1>18. QED
  BY <1>2, <1>3, <1>4, <1>5, <1>6, <1>7, <1>8, <1>9, <1>10, <1>11, <1>12, <1>13, <1>14, <1>15, <1>16, <1>17, SMT DEF Next,
     Host, Helper, CommandEnds, Run, Ran, Diff, Release, Cancel, HelperOpens, HelperRuns, HelperCancels, HelperReadsFinal,
     HelperFinalizes, HelperCloses, HelperCleans, Start, Known, CommandEnds, Reset, HelperDies, LeaseEnds, BudgetEnds

LEMMA RequestsStay ==
    ASSUME SessionTyped, Next
    PROVE  toHelper' \in Seq(SomeRequest)
<1>1. toHelper \in Seq(SomeRequest) /\ runs \in Nat /\ MaxRuns \in Nat
  BY RunsAreCounted DEF SessionTyped
<1>2. /\ [op |-> "cancel", run |-> 0] \in SomeRequest /\ [op |-> "finalize", run |-> 0] \in SomeRequest
      /\ [op |-> "close", run |-> 0] \in SomeRequest /\ [op |-> "open", run |-> 0] \in SomeRequest
      /\ \A n \in Nat : [op |-> "run", run |-> n] \in SomeRequest
  BY DEF SomeRequest
<1>3. /\ <<[op |-> "open", run |-> 0]>> \in Seq(SomeRequest) /\ <<>> \in Seq(SomeRequest)
      /\ \A r \in SomeRequest : Append(toHelper, r) \in Seq(SomeRequest)
      /\ toHelper # <<>> => Tail(toHelper) \in Seq(SomeRequest)
  BY <1>1, <1>2, WordsStay
<1>4. CASE UNCHANGED <<toHelper>>
  BY <1>1, <1>2, <1>3, <1>4
<1>5. CASE Open
  BY <1>1, <1>2, <1>3, <1>5 DEF Open
<1>6. CASE Opened
  BY <1>1, <1>2, <1>3, <1>6 DEF Opened, Abort
<1>7. CASE Run
  <2>1. runs' \in Nat /\ (UNCHANGED toHelper \/ toHelper' = Append(toHelper, [op |-> "run", run |-> runs']))
    BY <1>1, <1>7 DEF Run, Request, Send
  <2>2. QED
    BY <1>1, <1>2, <1>3, <2>1
<1>8. CASE Finalize
  BY <1>1, <1>2, <1>3, <1>8 DEF Finalize, Send
<1>9. CASE GraceOver
  BY <1>1, <1>2, <1>3, <1>9 DEF GraceOver, Abort
<1>10. CASE Diff
  BY <1>1, <1>2, <1>3, <1>10 DEF Diff, Send
<1>11. CASE Decide
  BY <1>1, <1>2, <1>3, <1>11 DEF Decide, Send
<1>12. CASE Cancel
  BY <1>1, <1>2, <1>3, <1>12 DEF Cancel, Send
<1>13. CASE HelperOpens
  BY <1>1, <1>2, <1>3, <1>13 DEF HelperOpens, Reads, Consume
<1>14. CASE HelperRuns
  BY <1>1, <1>2, <1>3, <1>14 DEF HelperRuns, Reads, Consume
<1>15. CASE HelperCancels
  BY <1>1, <1>2, <1>3, <1>15 DEF HelperCancels, Reads, Consume
<1>16. CASE HelperReadsFinal
  BY <1>1, <1>2, <1>3, <1>16 DEF HelperReadsFinal, Reads, Consume
<1>17. CASE HelperCloses
  BY <1>1, <1>2, <1>3, <1>17 DEF HelperCloses, Reads, Consume
<1>18. CASE HelperDies
  BY <1>1, <1>2, <1>3, <1>18 DEF HelperDies
<1>19. CASE KeepUpper \/ Finish \/ HelperCleans
  <2>1. UNCHANGED toHelper \/ toHelper' = <<>>
    BY <1>19, Zenon DEF KeepUpper, Finish, HelperCleans, wires
  <2>2. QED
    BY <1>1, <1>2, <1>3, <2>1
<1>20. QED
  BY <1>4, <1>5, <1>6, <1>7, <1>8, <1>9, <1>10, <1>11, <1>12, <1>13, <1>14, <1>15, <1>16, <1>17, <1>18, <1>19, SMT DEF Next, Host,
     Helper, CommandEnds, Begin, Ran, Finalized, Diffed, Closed, Exited, Release, LetGo, Upload, Report,
     HelperFinalizes, Start, Known, CommandEnds, Reset, LeaseEnds, BudgetEnds, clock, wires, inside, folders,
     work

LEMMA AnswersStay ==
    ASSUME SessionTyped, Next
    PROVE  toHost' \in Seq(SomeAnswer)
<1>1. toHost \in Seq(SomeAnswer) /\ proc.run \in Nat
  BY DEF SessionTyped, Command
<1>2. \A op \in {"opened", "refused", "run-done", "finalized", "closed"}, how \in {"ok", "error", "killed", "deadline"} :
          [op |-> op, run |-> proc.run, how |-> how] \in SomeAnswer
  BY <1>1 DEF SomeAnswer
<1>3. /\ <<>> \in Seq(SomeAnswer) /\ \A m \in SomeAnswer : Append(toHost, m) \in Seq(SomeAnswer)
      /\ toHost # <<>> => Tail(toHost) \in Seq(SomeAnswer)
  BY <1>1, WordsStay
<1>4. CASE UNCHANGED <<toHost>>
  BY <1>1, <1>2, <1>3, <1>4
<1>5. CASE Opened
  BY <1>1, <1>2, <1>3, <1>5 DEF Opened, Abort, Answered, Take
<1>6. CASE Ran
  BY <1>1, <1>2, <1>3, <1>6 DEF Ran
<1>7. CASE Finalized
  BY <1>1, <1>2, <1>3, <1>7 DEF Finalized, Answered, Take
<1>8. CASE GraceOver
  BY <1>1, <1>2, <1>3, <1>8 DEF GraceOver, Abort
<1>9. CASE Diffed
  BY <1>1, <1>2, <1>3, <1>9 DEF Diffed
<1>10. CASE Closed
  BY <1>1, <1>2, <1>3, <1>10 DEF Closed, Take
<1>11. CASE HelperOpens
  BY <1>1, <1>2, <1>3, <1>11 DEF HelperOpens, Respond
<1>12. CASE HelperRuns
  BY <1>1, <1>2, <1>3, <1>12 DEF HelperRuns, Respond
<1>13. CASE HelperFinalizes
  BY <1>1, <1>2, <1>3, <1>13 DEF HelperFinalizes, Respond
<1>14. CASE HelperCleans
  BY <1>1, <1>2, <1>3, <1>14 DEF HelperCleans, Respond
<1>15. CASE Start
  BY <1>1, <1>2, <1>3, <1>15 DEF Start, Respond
<1>16. CASE CommandEnds(TRUE) \/ CommandEnds(FALSE)
  BY <1>1, <1>2, <1>3, <1>16 DEF CommandEnds, Respond
<1>17. CASE Decide
  BY <1>1, <1>17 DEF Decide, inside
<1>18. CASE Begin \/ Open \/ Run \/ Finalize \/ Diff \/ Exited \/ KeepUpper \/ Release \/ LetGo \/ Finish
  <2>1. UNCHANGED toHost
    <3>1. CASE KeepUpper \/ Finish
      BY <3>1, Zenon DEF KeepUpper, Finish, wires
    <3>2. CASE ~(KeepUpper \/ Finish)
      BY <1>18, <3>2, SMT DEF Begin, Open, Run, Finalize, Diff, Exited, Release, LetGo, Reports, Request, clock,
         wires, inside, folders, work
    <3>3. QED
      BY <3>1, <3>2
  <2>2. QED
    BY <1>1, <2>1
<1>19. CASE Upload \/ Report \/ Cancel \/ HelperCancels \/ HelperReadsFinal \/ HelperCloses \/ Known \/ Reset \/ HelperDies \/ LeaseEnds \/ BudgetEnds
  <2>1. UNCHANGED toHost
    BY <1>19, SMT DEF Upload, Report, Cancel, HelperCancels, HelperReadsFinal, HelperCloses, Known, Reset, HelperDies,
       LeaseEnds, BudgetEnds, Reports, Request, clock, wires, inside, folders, work
  <2>2. QED
    BY <1>1, <2>1
<1>20. QED
  BY <1>4, <1>5, <1>6, <1>7, <1>8, <1>9, <1>10, <1>11, <1>12, <1>13, <1>14, <1>15, <1>16, <1>17, <1>18, <1>19, Zenon
     DEF Next, Host, Helper

LEMMA CommandsStay ==
    ASSUME SessionTyped, Next
    PROVE  proc' \in Command
<1>1. proc \in Command /\ canceled \in BOOLEAN
  BY DEF SessionTyped
<1>2. toHelper # <<>> => Head(toHelper).run \in Nat
  <2>1. toHelper \in Seq(SomeRequest)
    BY DEF SessionTyped
  <2>2. toHelper # <<>> => Head(toHelper) \in SomeRequest
    BY <2>1, WordsStay
  <2>3. QED
    BY <2>2 DEF SomeRequest
<1>3. NoProc \in Command
  BY DEF NoProc, Command
<1>4. CASE UNCHANGED <<proc>>
  BY <1>1, <1>2, <1>3, <1>4
<1>5. CASE Opened
  BY <1>1, <1>2, <1>3, <1>5 DEF Opened, Abort, Dies, inside
<1>6. CASE GraceOver
  BY <1>1, <1>2, <1>3, <1>6 DEF GraceOver, Abort, Dies
<1>7. CASE HelperRuns
  <2>1. UNCHANGED proc \/ proc' = [run |-> Head(toHelper).run, st |-> "spawned", dying |-> FALSE]
    BY <1>7 DEF HelperRuns
  <2>2. toHelper # <<>>
    BY <1>7 DEF HelperRuns, Reads
  <2>3. [run |-> Head(toHelper).run, st |-> "spawned", dying |-> FALSE] \in Command
    BY <1>2, <2>2 DEF Command
  <2>4. QED
    BY <1>1, <2>1, <2>3
<1>8. CASE HelperCancels
  BY <1>1, <1>2, <1>3, <1>8 DEF HelperCancels, Struck, Command
<1>9. CASE HelperCloses
  BY <1>1, <1>2, <1>3, <1>9 DEF HelperCloses, Struck, Command
<1>10. CASE Start
  BY <1>1, <1>2, <1>3, <1>10 DEF Start, Command
<1>11. CASE Known
  BY <1>1, <1>2, <1>3, <1>11 DEF Known, Command, EarlyCancel
<1>12. CASE CommandEnds(TRUE) \/ CommandEnds(FALSE)
  BY <1>1, <1>2, <1>3, <1>12 DEF CommandEnds, Command
<1>13. CASE Reset
  BY <1>1, <1>2, <1>3, <1>13 DEF Reset
<1>14. CASE HelperDies
  BY <1>1, <1>2, <1>3, <1>14 DEF HelperDies, Dies
<1>15. CASE Decide
  BY <1>1, <1>15 DEF Decide, inside
<1>16. CASE Begin \/ Open \/ Run \/ Ran \/ Finalize \/ Finalized \/ Diff \/ Diffed \/ Closed \/ Exited \/ KeepUpper
  <2>1. UNCHANGED proc
    BY <1>16, SMT DEF Begin, Open, Run, Ran, Finalize, Finalized, Diff, Diffed, Closed, Exited, KeepUpper, Reports, Request,
       clock, wires, inside, folders, work
  <2>2. QED
    BY <1>1, <2>1
<1>17. CASE Release \/ LetGo \/ Finish \/ Upload \/ Report \/ Cancel \/ HelperOpens \/ HelperReadsFinal \/ HelperFinalizes \/ HelperCleans \/ LeaseEnds \/ BudgetEnds
  <2>1. UNCHANGED proc \/ proc' = NoProc
    <3>1. CASE Finish \/ HelperCleans
      BY <3>1, Zenon DEF Finish, HelperCleans, Dies, inside
    <3>2. CASE ~(Finish \/ HelperCleans)
      BY <1>17, <3>2, SMT DEF Release, LetGo, Upload, Report, Cancel, HelperOpens, HelperReadsFinal, HelperFinalizes,
         LeaseEnds, BudgetEnds, Reports, Request, clock, wires, inside, folders, work
    <3>3. QED
      BY <3>1, <3>2
  <2>2. QED
    BY <1>1, <1>2, <1>3, <2>1
<1>18. QED
  BY <1>4, <1>5, <1>6, <1>7, <1>8, <1>9, <1>10, <1>11, <1>12, <1>13, <1>14, <1>15, <1>16, <1>17, Zenon DEF Next, Host, Helper

Places == {"claimed", "open", "opening", "ready", "running", "stop", "finalizing", "diff", "diffing", "decide", "closing"} \cup Done
Stages == {"none", "up", "final", "closing", "leaving", "shot", "gone"}

LEMMA PlacesStay ==
    ASSUME SessionTyped, Next
    PROVE  pc' \in Places /\ runs' \in Nat /\ helper' \in Stages
<1>1. pc \in Places /\ runs \in Nat /\ helper \in Stages /\ MaxRuns \in Nat
  BY RunsAreCounted DEF SessionTyped, Places, Stages
<1>2. CASE Begin
  BY <1>1, <1>2, SMT DEF Begin, Places, Stages, Done, inside, Reports
<1>3. CASE Open
  BY <1>1, <1>3, SMT DEF Open, Places, Stages, Done, inside, Reports
<1>4. CASE Opened
  BY <1>1, <1>4, SMT DEF Opened, Places, Stages, Done, inside, Reports, Abort, Dies
<1>5. CASE Run
  BY <1>1, <1>5, SMT DEF Run, Places, Stages, Done, inside, Request
<1>6. CASE Ran
  BY <1>1, <1>6, SMT DEF Ran, Places, Stages, Done, inside
<1>7. CASE Finalize
  BY <1>1, <1>7, SMT DEF Finalize, Places, Stages, Done, inside
<1>8. CASE Finalized
  BY <1>1, <1>8, SMT DEF Finalized, Places, Stages, Done, inside
<1>9. CASE GraceOver
  BY <1>1, <1>9, SMT DEF GraceOver, Places, Stages, Done, inside, Abort, Dies
<1>10. CASE Diff
  BY <1>1, <1>10, SMT DEF Diff, Places, Stages, Done, inside
<1>11. CASE Diffed
  BY <1>1, <1>11, SMT DEF Diffed, Places, Stages, Done, inside
<1>12. CASE Decide
  BY <1>1, <1>12, SMT DEF Decide, Places, Stages, Done, inside
<1>13. CASE Closed
  BY <1>1, <1>13, SMT DEF Closed, Places, Stages, Done, inside
<1>14. CASE Exited
  BY <1>1, <1>14, SMT DEF Exited, Places, Stages, Done, inside
<1>15. CASE KeepUpper
  BY <1>1, <1>15, SMT DEF KeepUpper, Places, Stages, Done, inside
<1>16. CASE Release
  BY <1>1, <1>16, SMT DEF Release, Places, Stages, Done, inside
<1>17. CASE LetGo
  BY <1>1, <1>17, SMT DEF LetGo, Places, Stages, Done, inside
<1>18. CASE Finish
  BY <1>1, <1>18, SMT DEF Finish, Places, Stages, Done, inside
<1>19. CASE Upload
  BY <1>1, <1>19, SMT DEF Upload, Places, Stages, Done, inside
<1>20. CASE Report
  BY <1>1, <1>20, SMT DEF Report, Places, Stages, Done, inside, Reports
<1>21. CASE Cancel
  BY <1>1, <1>21, SMT DEF Cancel, Places, Stages, Done, inside
<1>22. CASE HelperOpens
  BY <1>1, <1>22, SMT DEF HelperOpens, Places, Stages, Done, inside
<1>23. CASE HelperRuns
  BY <1>1, <1>23, SMT DEF HelperRuns, Places, Stages, Done, inside
<1>24. CASE HelperCancels
  BY <1>1, <1>24, SMT DEF HelperCancels, Places, Stages, Done, inside
<1>25. CASE HelperReadsFinal
  BY <1>1, <1>25, SMT DEF HelperReadsFinal, Places, Stages, Done, inside
<1>26. CASE HelperFinalizes
  BY <1>1, <1>26, SMT DEF HelperFinalizes, Places, Stages, Done, inside
<1>27. CASE HelperCloses
  BY <1>1, <1>27, SMT DEF HelperCloses, Places, Stages, Done, inside
<1>28. CASE HelperCleans
  BY <1>1, <1>28, SMT DEF HelperCleans, Dies, Places, Stages, Done, inside
<1>29. CASE Start
  BY <1>1, <1>29, SMT DEF Start, Places, Stages, Done, inside
<1>30. CASE Known
  BY <1>1, <1>30, SMT DEF Known, Places, Stages, Done, inside
<1>31. CASE Reset
  BY <1>1, <1>31, SMT DEF Reset, Places, Stages, Done, inside
<1>32. CASE HelperDies
  BY <1>1, <1>32, SMT DEF HelperDies, Places, Stages, Done, inside, Dies
<1>33. CASE LeaseEnds
  BY <1>1, <1>33, SMT DEF LeaseEnds, Places, Stages, Done, inside
<1>34. CASE BudgetEnds
  BY <1>1, <1>34, SMT DEF BudgetEnds, Places, Stages, Done, inside
<1>35. CASE CommandEnds(TRUE) \/ CommandEnds(FALSE)
  BY <1>1, <1>35, SMT DEF CommandEnds, Places, Stages, Done, inside
<1>36. QED
  BY <1>2, <1>3, <1>4, <1>5, <1>6, <1>7, <1>8, <1>9, <1>10, <1>11, <1>12, <1>13, <1>14, <1>15, <1>16, <1>17, <1>18, <1>19,
     <1>20, <1>21, <1>22, <1>23, <1>24, <1>25, <1>26, <1>27, <1>28, <1>29, <1>30, <1>31, <1>32, <1>33, <1>34, <1>35,
     Zenon DEF Next, Host, Helper

LEMMA FlagsStay ==
    ASSUME SessionTyped, Next
    PROVE  ended' \in BOOLEAN /\ late' \in BOOLEAN /\ stdin' \in BOOLEAN /\ mounted' \in BOOLEAN /\ running' \in BOOLEAN /\ canceled' \in BOOLEAN
<1>1. ended \in BOOLEAN /\ late \in BOOLEAN /\ stdin \in BOOLEAN /\ mounted \in BOOLEAN /\ running \in BOOLEAN /\ canceled \in BOOLEAN
  BY RunsAreCounted DEF SessionTyped
<1>2. CASE Begin
  BY <1>1, <1>2, Zenon DEF Begin, clock, wires, inside, Reports
<1>3. CASE Open
  BY <1>1, <1>3, Zenon DEF Open, clock, wires, inside, Reports
<1>4. CASE Opened
  BY <1>1, <1>4, Zenon DEF Opened, clock, wires, inside, Reports, Abort, Dies
<1>5. CASE Run
  BY <1>1, <1>5, Zenon DEF Run, clock, wires, inside, Request
<1>6. CASE Ran
  BY <1>1, <1>6, Zenon DEF Ran, clock, wires, inside
<1>7. CASE Finalize
  BY <1>1, <1>7, Zenon DEF Finalize, clock, wires, inside
<1>8. CASE Finalized
  BY <1>1, <1>8, Zenon DEF Finalized, clock, wires, inside
<1>9. CASE GraceOver
  BY <1>1, <1>9, Zenon DEF GraceOver, clock, wires, inside, Abort, Dies
<1>10. CASE Diff
  BY <1>1, <1>10, Zenon DEF Diff, clock, wires, inside
<1>11. CASE Diffed
  BY <1>1, <1>11, Zenon DEF Diffed, clock, wires, inside
<1>12. CASE Decide
  BY <1>1, <1>12, Zenon DEF Decide, clock, wires, inside
<1>13. CASE Closed
  BY <1>1, <1>13, Zenon DEF Closed, clock, wires, inside
<1>14. CASE Exited
  BY <1>1, <1>14, Zenon DEF Exited, clock, wires, inside
<1>15. CASE KeepUpper
  BY <1>1, <1>15, Zenon DEF KeepUpper, clock, wires, inside
<1>16. CASE Release
  BY <1>1, <1>16, Zenon DEF Release, clock, wires, inside
<1>17. CASE LetGo
  BY <1>1, <1>17, Zenon DEF LetGo, clock, wires, inside
<1>18. CASE Finish
  BY <1>1, <1>18, Zenon DEF Finish, clock, wires, inside
<1>19. CASE Upload
  BY <1>1, <1>19, Zenon DEF Upload, clock, wires, inside
<1>20. CASE Report
  BY <1>1, <1>20, Zenon DEF Report, clock, wires, inside, Reports
<1>21. CASE Cancel
  BY <1>1, <1>21, Zenon DEF Cancel, clock, wires, inside
<1>22. CASE HelperOpens
  BY <1>1, <1>22, Zenon DEF HelperOpens, clock, wires, inside
<1>23. CASE HelperRuns
  BY <1>1, <1>23, Zenon DEF HelperRuns, clock, wires, inside
<1>24. CASE HelperCancels
  BY <1>1, <1>24, Zenon DEF HelperCancels, clock, wires, inside
<1>25. CASE HelperReadsFinal
  BY <1>1, <1>25, Zenon DEF HelperReadsFinal, clock, wires, inside
<1>26. CASE HelperFinalizes
  BY <1>1, <1>26, Zenon DEF HelperFinalizes, clock, wires, inside
<1>27. CASE HelperCloses
  BY <1>1, <1>27, Zenon DEF HelperCloses, clock, wires, inside
<1>28. CASE HelperCleans
  BY <1>1, <1>28, Zenon DEF HelperCleans, Dies, clock, wires, inside
<1>29. CASE Start
  BY <1>1, <1>29, Zenon DEF Start, clock, wires, inside
<1>30. CASE Known
  BY <1>1, <1>30, Zenon DEF Known, clock, wires, inside
<1>31. CASE Reset
  BY <1>1, <1>31, Zenon DEF Reset, clock, wires, inside
<1>32. CASE HelperDies
  BY <1>1, <1>32, Zenon DEF HelperDies, clock, wires, inside, Dies
<1>33. CASE LeaseEnds
  BY <1>1, <1>33, Zenon DEF LeaseEnds, clock, wires, inside
<1>34. CASE BudgetEnds
  BY <1>1, <1>34, Zenon DEF BudgetEnds, clock, wires, inside
<1>35. CASE CommandEnds(TRUE) \/ CommandEnds(FALSE)
  BY <1>1, <1>35, Zenon DEF CommandEnds, clock, wires, inside
<1>36. QED
  BY <1>2, <1>3, <1>4, <1>5, <1>6, <1>7, <1>8, <1>9, <1>10, <1>11, <1>12, <1>13, <1>14, <1>15, <1>16, <1>17, <1>18, <1>19,
     <1>20, <1>21, <1>22, <1>23, <1>24, <1>25, <1>26, <1>27, <1>28, <1>29, <1>30, <1>31, <1>32, <1>33, <1>34, <1>35,
     Zenon DEF Next, Host, Helper

LEMMA TypesStayInSession ==
    ASSUME SessionTyped, Next
    PROVE  SessionTyped'
BY LearnedStays, RequestsStay, AnswersStay, CommandsStay, PlacesStay, FlagsStay DEF SessionTyped, Places, Stages

-----------------------------------------------------------------------------
(* The wires.                                                               *)

\* Only while the Worker waits for a Run does a command run.
LEMMA RunsWhenAsked ==
    ASSUME SessionTyped, Wires, ~Still
    PROVE  pc \in {"running", "diffing"} /\ AtWork("run")
<1>1. ~Quiet /\ (\A op : ~InPipe(op) /\ ~Back(op) /\ ~Lost) /\ \A op \in {"open", "finalize", "close"} : ~AtWork(op)
  BY DEF Quiet, InPipe, AtWork, Back, Lost
<1>2. pc \in {"claimed", "open", "opening", "ready", "running", "stop", "finalizing", "diff", "diffing", "decide", "closing"} \cup Done
  BY DEF SessionTyped
<1>3. pc \notin {"claimed", "open", "opening", "ready", "stop", "finalizing", "diff", "decide", "closing"} \cup Done
  BY <1>1 DEF Wires, Waits
<1>4. Waits("run")
  BY <1>2, <1>3 DEF Wires
<1>5. QED
  BY <1>1, <1>2, <1>3, <1>4 DEF Waits

LEMMA WiresStay ==
    ASSUME SessionTyped, Wires, Mounts, Next
    PROVE  Wires'
<1>1. toHelper \in Seq(SomeRequest) /\ toHost \in Seq(SomeAnswer) /\ runs \in Nat /\ MaxRuns \in Nat
  BY RunsAreCounted DEF SessionTyped
<1>2. /\ pc \in {"claimed", "open", "opening", "ready", "running", "stop", "finalizing", "diff", "diffing", "decide", "closing"} \cup Done
      /\ helper \in {"none", "up", "final", "closing", "leaving", "shot", "gone"} /\ proc \in Command
  BY DEF SessionTyped
<1>3. /\ Cancels(<<>>)
      /\ Cancels(toHelper) /\ toHelper # <<>> => Cancels(Tail(toHelper)) /\ Head(toHelper).op = "cancel"
      /\ Cancels(toHelper) => Cancels(Append(toHelper, [op |-> "cancel", run |-> 0]))
  <2>1. [op |-> "cancel", run |-> 0] \in SomeRequest
    BY DEF SomeRequest
  <2>2. Cancels(<<>>)
    BY DEF Cancels
  <2>3. QED
    BY <1>1, <2>1, <2>2, OnlyCancels
<1>4. Cancels(toHelper) =>
          /\ \A n \in Nat : OneAsk(Append(toHelper, [op |-> "run", run |-> n]), "run", n)
          /\ OneAsk(Append(toHelper, [op |-> "finalize", run |-> 0]), "finalize", runs)
          /\ OneAsk(Append(toHelper, [op |-> "close", run |-> 0]), "close", runs)
  <2>1. /\ \A n \in Nat : [op |-> "run", run |-> n] \in SomeRequest
        /\ [op |-> "finalize", run |-> 0] \in SomeRequest /\ [op |-> "close", run |-> 0] \in SomeRequest
    BY DEF SomeRequest
  <2>2. ASSUME Cancels(toHelper)
        PROVE  /\ \A n \in Nat : OneAsk(Append(toHelper, [op |-> "run", run |-> n]), "run", n)
               /\ OneAsk(Append(toHelper, [op |-> "finalize", run |-> 0]), "finalize", 0)
               /\ OneAsk(Append(toHelper, [op |-> "close", run |-> 0]), "close", 0)
    BY <1>1, <2>1, <2>2, OnlyCancels
  <2>3. \A q, op : op # "run" /\ OneAsk(q, op, 0) => OneAsk(q, op, runs)
    BY DEF OneAsk
  <2>4. QED
    BY <2>2, <2>3
<1>5. \A op \in {"open", "run", "finalize", "close"} :
          OneAsk(toHelper, op, runs) =>
              /\ OneAsk(Append(toHelper, [op |-> "cancel", run |-> 0]), op, runs)
              /\ toHelper # <<>> /\ (Head(toHelper).op = "cancel" => OneAsk(Tail(toHelper), op, runs))
  <2>1. [op |-> "cancel", run |-> 0] \in SomeRequest
    BY DEF SomeRequest
  <2>2. QED
    BY <1>1, <2>1, AskedOnce
<1>6. \A n : OneAsk(<<[op |-> "open", run |-> 0]>>, "open", n)
  BY DEF OneAsk
<1>7. /\ Len(toHost) = 1 => toHost # <<>> /\ Tail(toHost) = <<>>
      /\ toHost = <<>> => \A m \in SomeAnswer : Len(Append(toHost, m)) = 1 /\ Head(Append(toHost, m)) = m
  <2>1. Len(toHost) = 1 => toHost # <<>> /\ Tail(toHost) = <<>>
    <3>1. Len(toHost) = 1 => toHost # <<>> /\ Tail(toHost) \in Seq(SomeAnswer) /\ Len(Tail(toHost)) = 0
      <4>1. Len(<<>>) # 1
        OBVIOUS
      <4>2. toHost # <<>> => Tail(toHost) \in Seq(SomeAnswer) /\ Len(Tail(toHost)) = Len(toHost) - 1
        BY <1>1
      <4>3. Len(toHost) = 1 => toHost # <<>>
        BY <4>1, Zenon
      <4>4. QED
        BY <4>2, <4>3
    <3>2. \A q \in Seq(SomeAnswer) : Len(q) = 0 => q = <<>>
      OBVIOUS
    <3>3. QED
      BY <3>1, <3>2
  <2>2. ASSUME NEW m \in SomeAnswer
        PROVE  Len(Append(<<>>, m)) = 1 /\ Head(Append(<<>>, m)) = m
    OBVIOUS
  <2>3. QED
    BY <2>1, <2>2
<1>8. \A op \in {"opened", "refused", "run-done", "finalized", "closed"}, how \in {"ok", "error", "killed", "deadline"} :
          [op |-> op, run |-> proc.run, how |-> how] \in SomeAnswer
  BY <1>2 DEF SomeAnswer, Command
<1>9. CASE Begin
  BY <1>1, <1>2, <1>3, <1>4, <1>5, <1>6, <1>7, <1>8, <1>9, SMT DEF Begin, Wires, Waits, InPipe, AtWork, Back, Lost, Quiet,
     Still, Answers, Done, clock, wires, inside, folders, work, Reports
<1>10. CASE Open
  BY <1>1, <1>2, <1>3, <1>4, <1>5, <1>6, <1>7, <1>8, <1>10, SMT DEF Open, Wires, Waits, InPipe, AtWork, Back, Lost, Quiet,
     Still, Answers, Done, clock, wires, inside, folders, work, Reports
<1>11. CASE Opened
  <2>1. Waits("open")
    BY <1>11 DEF Opened, Wires
  <2>2. CASE pc' = "ready" /\ toHost # <<>> /\ toHost' = Tail(toHost) /\ UNCHANGED <<toHelper, helper, proc>>
    <3>1. Back("open")
      BY <2>1, <2>2 DEF Waits, InPipe, AtWork, Back, Lost
    <3>2. Quiet'
      BY <1>7, <2>2, <3>1 DEF Back, Quiet, Still
    <3>3. QED
      BY <2>2, <3>2 DEF Wires, Done
  <2>3. CASE pc' = "over" /\ helper' = "gone" /\ proc' = NoProc /\ toHost' = <<>>
    BY <2>3 DEF Wires, Done, Still, NoProc
  <2>4. QED
    BY <1>11, <2>2, <2>3 DEF Opened, Abort, Dies, Reports, Answered, Take, inside
<1>12. CASE Run
  <2>1. Quiet /\ runs' \in Nat /\ UNCHANGED <<helper, proc, toHost>>
    BY <1>1, <1>12 DEF Run, Request, Wires, inside
  <2>2. CASE pc' = "running" /\ helper \notin {"none", "gone"} /\ toHelper' = Append(toHelper, [op |-> "run", run |-> runs'])
    <3>1. InPipe("run")'
      BY <1>4, <2>1, <2>2 DEF Quiet, InPipe, Still
    <3>2. QED
      BY <2>2, <3>1 DEF Wires, Waits, Done
  <2>3. CASE pc' = "stop" /\ UNCHANGED toHelper
    <3>1. Quiet'
      BY <2>1, <2>3 DEF Quiet, Still
    <3>2. QED
      BY <2>3, <3>1 DEF Wires, Done
  <2>4. QED
    BY <1>12, <2>2, <2>3 DEF Run, Request, Send, Alive
<1>13. CASE Ran
  BY <1>1, <1>2, <1>3, <1>4, <1>5, <1>6, <1>7, <1>8, <1>13, SMT DEF Ran, Wires, Waits, InPipe, AtWork, Back, Lost, Quiet,
     Still, Answers, Done, clock, wires, inside, folders, work, RunComesBack, NoAnswer, Alive
<1>14. CASE Finalize
  BY <1>1, <1>2, <1>3, <1>4, <1>5, <1>6, <1>7, <1>8, <1>14, SMT DEF Finalize, Wires, Waits, InPipe, AtWork, Back, Lost,
     Quiet, Still, Answers, Done, clock, wires, inside, folders, work, Send, Alive
<1>15. CASE Finalized
  BY <1>1, <1>2, <1>3, <1>4, <1>5, <1>6, <1>7, <1>8, <1>15, SMT DEF Finalized, Wires, Waits, InPipe, AtWork, Back, Lost,
     Quiet, Still, Answers, Done, clock, wires, inside, folders, work, Take, NoAnswer, Answered, Alive
<1>16. CASE GraceOver
  BY <1>1, <1>2, <1>3, <1>4, <1>5, <1>6, <1>7, <1>8, <1>16, SMT DEF GraceOver, Wires, Waits, InPipe, AtWork, Back, Lost,
     Quiet, Still, Answers, Done, clock, wires, inside, folders, work, Abort, Dies, NoProc
<1>17. CASE Diff
  <2>1. Quiet /\ runs' \in Nat /\ UNCHANGED <<helper, proc, toHost>>
    BY <1>1, <1>17 DEF Diff, Request, Wires, inside
  <2>2. CASE pc' = "diffing" /\ helper \notin {"none", "gone"} /\ toHelper' = Append(toHelper, [op |-> "run", run |-> runs'])
    <3>1. InPipe("run")'
      BY <1>4, <2>1, <2>2 DEF Quiet, InPipe, Still
    <3>2. QED
      BY <2>2, <3>1 DEF Wires, Waits, Done
  <2>3. CASE pc' = "decide" /\ UNCHANGED toHelper
    <3>1. Quiet'
      BY <2>1, <2>3 DEF Quiet, Still
    <3>2. QED
      BY <2>3, <3>1 DEF Wires, Done
  <2>4. QED
    BY <1>17, <2>2, <2>3 DEF Diff, Request, Send, Alive
<1>18. CASE Diffed
  BY <1>1, <1>2, <1>3, <1>4, <1>5, <1>6, <1>7, <1>8, <1>18, SMT DEF Diffed, Wires, Waits, InPipe, AtWork, Back, Lost, Quiet,
     Still, Answers, Done, clock, wires, inside, folders, work, RunComesBack, NoAnswer, Alive
<1>19. CASE Decide
  <2>1. Quiet /\ UNCHANGED <<helper, proc, toHost, runs>>
    BY <1>19 DEF Decide, Wires, inside
  <2>2. CASE pc' = "closing" /\ helper \notin {"none", "gone"} /\ toHelper' = Append(toHelper, [op |-> "close", run |-> 0])
    <3>1. InPipe("close")'
      BY <1>4, <2>1, <2>2 DEF Quiet, InPipe, Still
    <3>2. QED
      BY <2>2, <3>1 DEF Wires, Waits, Done
  <2>3. CASE pc' \in {"exiting", "closed"} /\ (step.moved = "aborted" \/ ~Alive)
    <3>1. helper = "gone"
      BY <1>19, <2>1, <2>3 DEF Quiet, Alive, Mounts, Decide, Done
    <3>2. QED
      BY <2>1, <2>3, <3>1 DEF Wires, Quiet, Still, Done
  <2>4. QED
    BY <1>19, <2>2, <2>3 DEF Decide, Send, Alive
<1>20. CASE Closed
  BY <1>1, <1>2, <1>3, <1>4, <1>5, <1>6, <1>7, <1>8, <1>20, SMT DEF Closed, Wires, Waits, InPipe, AtWork, Back, Lost, Quiet,
     Still, Answers, Done, clock, wires, inside, folders, work, Take, NoAnswer, Alive
<1>21. CASE Exited
  BY <1>1, <1>2, <1>3, <1>4, <1>5, <1>6, <1>7, <1>8, <1>21, SMT DEF Exited, Wires, Waits, InPipe, AtWork, Back, Lost, Quiet,
     Still, Answers, Done, clock, wires, inside, folders, work
<1>22. CASE KeepUpper
  BY <1>1, <1>2, <1>3, <1>4, <1>5, <1>6, <1>7, <1>8, <1>22, SMT DEF KeepUpper, Wires, Waits, InPipe, AtWork, Back, Lost,
     Quiet, Still, Answers, Done, clock, wires, inside, folders, work
<1>23. CASE Release
  BY <1>1, <1>2, <1>3, <1>4, <1>5, <1>6, <1>7, <1>8, <1>23, SMT DEF Release, Wires, Waits, InPipe, AtWork, Back, Lost,
     Quiet, Still, Answers, Done, clock, wires, inside, folders, work
<1>24. CASE LetGo
  BY <1>1, <1>2, <1>3, <1>4, <1>5, <1>6, <1>7, <1>8, <1>24, SMT DEF LetGo, Wires, Waits, InPipe, AtWork, Back, Lost, Quiet,
     Still, Answers, Done, clock, wires, inside, folders, work
<1>25. CASE Finish
  BY <1>1, <1>2, <1>3, <1>4, <1>5, <1>6, <1>7, <1>8, <1>25, SMT DEF Finish, Wires, Waits, InPipe, AtWork, Back, Lost, Quiet,
     Still, Answers, Done, clock, wires, inside, folders, work
<1>26. CASE Upload
  BY <1>1, <1>2, <1>3, <1>4, <1>5, <1>6, <1>7, <1>8, <1>26, SMT DEF Upload, Wires, Waits, InPipe, AtWork, Back, Lost, Quiet,
     Still, Answers, Done, clock, wires, inside, folders, work
<1>27. CASE Report
  BY <1>1, <1>2, <1>3, <1>4, <1>5, <1>6, <1>7, <1>8, <1>27, SMT DEF Report, Wires, Waits, InPipe, AtWork, Back, Lost, Quiet,
     Still, Answers, Done, clock, wires, inside, folders, work, Reports
<1>28. CASE Cancel
  <2>1. /\ UNCHANGED <<pc, runs, toHost, helper, proc>>
        /\ UNCHANGED toHelper \/ (Alive /\ toHelper' = Append(toHelper, [op |-> "cancel", run |-> 0]))
    BY <1>28 DEF Cancel, Send, inside
  <2>2. CASE UNCHANGED toHelper
    BY <2>1, <2>2 DEF Wires, Waits, InPipe, AtWork, Back, Lost, Quiet, Still, Answers, Done
  <2>3. CASE Alive /\ toHelper' = Append(toHelper, [op |-> "cancel", run |-> 0])
    <3>1. (Cancels(toHelper) => Cancels(toHelper')) /\ \A op \in {"open", "run", "finalize", "close"} : OneAsk(toHelper, op, runs) => OneAsk(toHelper', op, runs')
      BY <1>3, <1>5, <2>1, <2>3
    <3>2. Quiet => Quiet'
      BY <2>1, <3>1 DEF Quiet, Still
    <3>3. \A op \in {"open", "run", "finalize", "close"} : Waits(op) => Waits(op)'
      BY <2>1, <3>1 DEF Waits, InPipe, AtWork, Back, Lost, Still, Answers
    <3>4. helper # "none"
      BY <2>3 DEF Alive
    <3>5. QED
      BY <2>1, <3>2, <3>3, <3>4 DEF Wires, Still
  <2>4. QED
    BY <2>1, <2>2, <2>3
<1>29. CASE HelperOpens
  BY <1>1, <1>2, <1>3, <1>4, <1>5, <1>6, <1>7, <1>8, <1>29, ReadsWhatIsAsked, SMT DEF HelperOpens, Wires, Waits, InPipe,
     AtWork, Back, Lost, Quiet, Still, Answers, Done, clock, wires, inside, folders, work, Consume, Respond
<1>30. CASE HelperRuns
  <2>1. /\ InPipe("run") /\ Cancels(Tail(toHelper)) /\ Head(toHelper).run = runs /\ pc \in {"running", "diffing"}
    BY <1>30, ReadsWhatIsAsked DEF HelperRuns
  <2>2. UNCHANGED <<pc, runs, helper>> /\ toHelper' = Tail(toHelper)
    BY <1>30 DEF HelperRuns, Consume
  <2>3. CASE UNCHANGED proc /\ toHost' = Append(toHost, [op |-> "refused", run |-> proc.run, how |-> "error"])
    <3>1. Back("run")'
      BY <1>7, <1>8, <2>1, <2>2, <2>3 DEF InPipe, Back, Answers, Still
    <3>2. QED
      BY <2>1, <2>2, <3>1 DEF Wires, Waits, Done
  <2>4. CASE proc' = [run |-> runs, st |-> "spawned", dying |-> FALSE] /\ UNCHANGED toHost
    <3>1. AtWork("run")'
      BY <2>1, <2>2, <2>4 DEF InPipe, AtWork
    <3>2. QED
      BY <2>1, <2>2, <3>1 DEF Wires, Waits, Done
  <2>5. QED
    BY <1>30, <2>1, <2>3, <2>4 DEF HelperRuns, Respond
<1>31. CASE HelperCancels
  BY <1>1, <1>2, <1>3, <1>4, <1>5, <1>6, <1>7, <1>8, <1>31, SMT DEF HelperCancels, Wires, Waits, InPipe, AtWork, Back, Lost,
     Quiet, Still, Answers, Done, clock, wires, inside, folders, work, Reads, Consume, Struck
<1>32. CASE HelperReadsFinal
  BY <1>1, <1>2, <1>3, <1>4, <1>5, <1>6, <1>7, <1>8, <1>32, ReadsWhatIsAsked, SMT DEF HelperReadsFinal, Wires, Waits,
     InPipe, AtWork, Back, Lost, Quiet, Still, Answers, Done, clock, wires, inside, folders, work, Consume
<1>33. CASE HelperFinalizes
  BY <1>1, <1>2, <1>3, <1>4, <1>5, <1>6, <1>7, <1>8, <1>33, SMT DEF HelperFinalizes, Wires, Waits, InPipe, AtWork, Back,
     Lost, Quiet, Still, Answers, Done, clock, wires, inside, folders, work, Respond, NoProc
<1>34. CASE HelperCloses
  <2>1. UNCHANGED <<pc, runs, toHost>> /\ proc' = Struck
    BY <1>34 DEF HelperCloses
  <2>2. CASE Reads("close") /\ toHelper' = Tail(toHelper) /\ helper' = "closing"
    <3>1. InPipe("close") /\ Cancels(Tail(toHelper)) /\ pc = "closing"
      BY <2>2, ReadsWhatIsAsked
    <3>2. proc'.st = proc.st
      BY <1>2, <2>1 DEF Struck, Command
    <3>3. AtWork("close")'
      BY <2>1, <2>2, <3>1, <3>2 DEF InPipe, AtWork, Still
    <3>4. QED
      BY <2>1, <3>1, <3>3 DEF Wires, Waits, Done
  <2>3. CASE helper = "up" /\ ~stdin
    BY <2>3 DEF Mounts, Wires
  <2>4. QED
    BY <1>34, <2>2, <2>3 DEF HelperCloses, Consume
<1>35. CASE HelperCleans
  <2>1. UNCHANGED <<pc, runs>> /\ proc = NoProc /\ proc' = NoProc
    BY <1>35 DEF HelperCleans, Dies
  <2>2. ASSUME NEW how \in {"ok", "error"}, helper = "closing", helper' = "leaving", UNCHANGED toHelper,
               toHost' = Append(toHost, [op |-> "closed", run |-> proc.run, how |-> how])
        PROVE  Wires'
    <3>1. pc = "closing" /\ AtWork("close")
      BY <1>2, <2>2 DEF Wires, Waits, InPipe, AtWork, Back, Lost, Quiet, Done
    <3>2. Back("close")'
      BY <1>7, <1>8, <2>1, <2>2, <3>1 DEF AtWork, Back, Answers, Still
    <3>3. QED
      BY <2>1, <3>1, <3>2 DEF Wires, Waits, Done
  <2>3. CASE helper = "leaving" /\ helper' = "gone" /\ toHelper' = <<>> /\ UNCHANGED toHost
    <3>1. pc \in Done \/ (pc = "closing" /\ Back("close"))
      BY <1>2, <2>3 DEF Wires, Waits, InPipe, AtWork, Back, Lost, Quiet
    <3>2. CASE pc \in Done
      BY <2>1, <2>3, <3>2 DEF Wires, Done, Still
    <3>3. CASE pc = "closing" /\ Back("close")
      <4>1. Cancels(toHelper')
        BY <2>3 DEF Cancels
      <4>2. Back("close")'
        BY <2>1, <2>3, <3>3, <4>1 DEF Back, Answers, Still
      <4>3. QED
        BY <2>1, <3>3, <4>2 DEF Wires, Waits, Done
    <3>4. QED
      BY <3>1, <3>2, <3>3
  <2>4. QED
    BY <1>35, <2>2, <2>3 DEF HelperCleans, Respond, Dies
<1>36. CASE Start
  <2>1. UNCHANGED <<pc, runs, toHelper, helper>> /\ proc.st = "spawned"
    BY <1>36 DEF Start, Runs
  <2>2. pc \in {"running", "diffing"} /\ AtWork("run")
    BY <2>1, RunsWhenAsked DEF Still
  <2>3. CASE proc' = [proc EXCEPT !.st = "started"] /\ UNCHANGED toHost
    <3>1. AtWork("run")'
      BY <1>2, <2>1, <2>2, <2>3 DEF AtWork, Command
    <3>2. QED
      BY <2>1, <2>2, <3>1 DEF Wires, Waits, Done
  <2>4. ASSUME NEW how \in {"ok", "error", "killed"}, proc' = [proc EXCEPT !.st = "answered"],
                toHost' = Append(toHost, [op |-> "run-done", run |-> proc.run, how |-> how])
        PROVE  Wires'
    <3>1. Back("run")'
      BY <1>2, <1>7, <1>8, <2>1, <2>2, <2>4 DEF AtWork, Back, Answers, Still, Command
    <3>2. QED
      BY <2>1, <2>2, <3>1 DEF Wires, Waits, Done
  <2>5. QED
    BY <1>36, <2>3, <2>4 DEF Start, Respond
<1>37. CASE Known
  BY <1>1, <1>2, <1>3, <1>4, <1>5, <1>6, <1>7, <1>8, <1>37, SMT DEF Known, Wires, Waits, InPipe, AtWork, Back, Lost, Quiet,
     Still, Answers, Done, clock, wires, inside, folders, work, EarlyCancel, Runs
<1>38. CASE Reset
  BY <1>1, <1>2, <1>3, <1>4, <1>5, <1>6, <1>7, <1>8, <1>38, SMT DEF Reset, Wires, Waits, InPipe, AtWork, Back, Lost, Quiet,
     Still, Answers, Done, clock, wires, inside, folders, work, NoProc, Runs
<1>39. CASE HelperDies
  BY <1>1, <1>2, <1>3, <1>4, <1>5, <1>6, <1>7, <1>8, <1>39, SMT DEF HelperDies, Wires, Waits, InPipe, AtWork, Back, Lost,
     Quiet, Still, Answers, Done, clock, wires, inside, folders, work, Dies, NoProc, Alive
<1>40. CASE LeaseEnds
  BY <1>1, <1>2, <1>3, <1>4, <1>5, <1>6, <1>7, <1>8, <1>40, SMT DEF LeaseEnds, Wires, Waits, InPipe, AtWork, Back, Lost,
     Quiet, Still, Answers, Done, clock, wires, inside, folders, work
<1>41. CASE BudgetEnds
  BY <1>1, <1>2, <1>3, <1>4, <1>5, <1>6, <1>7, <1>8, <1>41, SMT DEF BudgetEnds, Wires, Waits, InPipe, AtWork, Back, Lost,
     Quiet, Still, Answers, Done, clock, wires, inside, folders, work
<1>42. CASE CommandEnds(TRUE) \/ CommandEnds(FALSE)
  <2>1. UNCHANGED <<pc, runs, toHelper, helper>> /\ proc.st = "active"
    BY <1>42 DEF CommandEnds, Runs
  <2>2. pc \in {"running", "diffing"} /\ AtWork("run")
    BY <2>1, RunsWhenAsked DEF Still
  <2>3. ASSUME NEW how \in {"ok", "error", "killed"}, proc' = [proc EXCEPT !.st = "answered"],
                toHost' = Append(toHost, [op |-> "run-done", run |-> proc.run, how |-> how])
        PROVE  Wires'
    <3>1. Back("run")'
      BY <1>2, <1>7, <1>8, <2>1, <2>2, <2>3 DEF AtWork, Back, Answers, Still, Command
    <3>2. QED
      BY <2>1, <2>2, <3>1 DEF Wires, Waits, Done
  <2>4. QED
    BY <1>42, <2>3 DEF CommandEnds, Respond
<1>43. QED
  BY <1>9, <1>10, <1>11, <1>12, <1>13, <1>14, <1>15, <1>16, <1>17, <1>18, <1>19, <1>20, <1>21, <1>22, <1>23, <1>24, <1>25,
     <1>26, <1>27, <1>28, <1>29, <1>30, <1>31, <1>32, <1>33, <1>34, <1>35, <1>36, <1>37, <1>38, <1>39, <1>40, <1>41, <1>42,
     Zenon DEF Next, Host, Helper

-----------------------------------------------------------------------------
(* The namespace, the folder and the receipt.                               *)

LEMMA MountsStay ==
    ASSUME SessionTyped, Wires, Mounts, Next
    PROVE  Mounts'
<1>1. pc \in Places /\ helper \in Stages /\ step \in Learned
  BY DEF SessionTyped, Places, Stages
<1>2. CASE Begin
  BY <1>1, <1>2 DEF Begin, Mounts, Places, Done, Learned, clock, wires, inside, folders, work, Reports
<1>3. CASE Open
  <2>1. ~mounted /\ ~mounted' /\ step'.moved = "no"
    BY <1>1, <1>3 DEF Open, Mounts, Reports, Learned, Done
  <2>2. pc' = "over" \/ (pc' = "opening" /\ helper' = "up" /\ stdin')
    <3>1. (stdin' = stdin) /\ (helper = "gone" \/ stdin)
      BY <1>3 DEF Open, Mounts, Done
    <3>2. helper # "gone"
      BY <1>3 DEF Open, Wires
    <3>3. stdin'
      BY <3>1, <3>2, Zenon
    <3>4. pc' = "over" \/ (pc' = "opening" /\ helper' = "up")
      BY <1>3 DEF Open, Reports
    <3>5. QED
      BY <3>3, <3>4
  <2>3. QED
    BY <2>1, <2>2 DEF Mounts, Done
<1>4. CASE Opened
  BY <1>1, <1>4 DEF Opened, Mounts, Places, Done, Learned, clock, wires, inside, folders, work, Reports, Abort, Dies
<1>5. CASE Run
  BY <1>1, <1>5 DEF Run, Mounts, Places, Done, Learned, clock, wires, inside, folders, work, Request
<1>6. CASE Ran
  BY <1>1, <1>6 DEF Ran, Mounts, Places, Done, Learned, clock, wires, inside, folders, work
<1>7. CASE Finalize
  BY <1>1, <1>7 DEF Finalize, Mounts, Places, Done, Learned, clock, wires, inside, folders, work
<1>8. CASE Finalized
  BY <1>1, <1>8 DEF Finalized, Mounts, Places, Done, Learned, clock, wires, inside, folders, work
<1>9. CASE GraceOver
  BY <1>1, <1>9 DEF GraceOver, Mounts, Places, Done, Learned, clock, wires, inside, folders, work, Abort, Dies
<1>10. CASE Diff
  BY <1>1, <1>10 DEF Diff, Mounts, Places, Done, Learned, clock, wires, inside, folders, work
<1>11. CASE Diffed
  BY <1>1, <1>11 DEF Diffed, Mounts, Places, Done, Learned, clock, wires, inside, folders, work
<1>12. CASE Decide
  <2>1. Quiet /\ UNCHANGED <<mounted, stdin, helper>> /\ step'.moved = step.moved
    BY <1>1, <1>12 DEF Decide, Wires, inside, Learned
  <2>2. (pc' = "closing" /\ helper # "gone") \/ (pc' \in {"exiting", "closed"} /\ helper = "gone")
    BY <1>12, <2>1 DEF Decide, Alive, Quiet, Mounts, Done
  <2>3. step.moved = "no" \/ helper = "gone"
    BY <1>12 DEF Mounts, Decide, Done
  <2>4. QED
    BY <1>1, <1>12, <2>1, <2>2, <2>3 DEF Mounts, Done, Decide
<1>13. CASE Closed
  <2>1. Waits("close") /\ pc' = "exiting" /\ UNCHANGED <<helper, mounted>> /\ (toHost # <<>> \/ NoAnswer)
    BY <1>13 DEF Closed, Wires, inside
  <2>2. helper \in {"leaving", "gone"}
    BY <2>1 DEF Waits, InPipe, AtWork, Back, Lost, NoAnswer, Alive
  <2>3. QED
    BY <2>1, <2>2 DEF Mounts, Done
<1>14. CASE Exited
  BY <1>1, <1>14 DEF Exited, Mounts, Places, Done, Learned, clock, wires, inside, folders, work
<1>15. CASE KeepUpper
  BY <1>1, <1>15 DEF KeepUpper, Mounts, Places, Done, Learned, clock, wires, inside, folders, work
<1>16. CASE Release
  BY <1>1, <1>16 DEF Release, Mounts, Places, Done, Learned, clock, wires, inside, folders, work
<1>17. CASE LetGo
  BY <1>1, <1>17 DEF LetGo, Mounts, Places, Done, Learned, clock, wires, inside, folders, work
<1>18. CASE Finish
  BY <1>1, <1>18 DEF Finish, Mounts, Places, Done, Learned, clock, wires, inside, folders, work
<1>19. CASE Upload
  BY <1>1, <1>19 DEF Upload, Mounts, Places, Done, Learned, clock, wires, inside, folders, work
<1>20. CASE Report
  BY <1>1, <1>20 DEF Report, Mounts, Places, Done, Learned, clock, wires, inside, folders, work, Reports
<1>21. CASE Cancel
  BY <1>1, <1>21 DEF Cancel, Mounts, Places, Done, Learned, clock, wires, inside, folders, work
<1>22. CASE HelperOpens
  <2>1. pc = "opening" /\ helper = "up" /\ UNCHANGED <<pc, helper, stdin, step>>
    BY <1>22, ReadsWhatIsAsked DEF HelperOpens, InPipe
  <2>2. QED
    BY <2>1 DEF Mounts, Done
<1>23. CASE HelperRuns
  BY <1>1, <1>23 DEF HelperRuns, Mounts, Places, Done, Learned, clock, wires, inside, folders, work
<1>24. CASE HelperCancels
  BY <1>1, <1>24 DEF HelperCancels, Mounts, Places, Done, Learned, clock, wires, inside, folders, work
<1>25. CASE HelperReadsFinal
  BY <1>1, <1>25 DEF HelperReadsFinal, Mounts, Places, Done, Learned, clock, wires, inside, folders, work, Reads
<1>26. CASE HelperFinalizes
  BY <1>1, <1>26 DEF HelperFinalizes, Mounts, Places, Done, Learned, clock, wires, inside, folders, work
<1>27. CASE HelperCloses
  BY <1>1, <1>27 DEF HelperCloses, Mounts, Places, Done, Learned, clock, wires, inside, folders, work, Reads
<1>28. CASE HelperCleans
  BY <1>1, <1>28 DEF HelperCleans, Dies, Mounts, Places, Done, Learned, clock, wires, inside, folders, work
<1>29. CASE Start
  BY <1>1, <1>29 DEF Start, Mounts, Places, Done, Learned, clock, wires, inside, folders, work
<1>30. CASE Known
  BY <1>1, <1>30 DEF Known, Mounts, Places, Done, Learned, clock, wires, inside, folders, work
<1>31. CASE Reset
  BY <1>1, <1>31 DEF Reset, Mounts, Places, Done, Learned, clock, wires, inside, folders, work
<1>32. CASE HelperDies
  BY <1>1, <1>32 DEF HelperDies, Mounts, Places, Done, Learned, clock, wires, inside, folders, work, Dies
<1>33. CASE LeaseEnds
  BY <1>1, <1>33 DEF LeaseEnds, Mounts, Places, Done, Learned, clock, wires, inside, folders, work
<1>34. CASE BudgetEnds
  BY <1>1, <1>34 DEF BudgetEnds, Mounts, Places, Done, Learned, clock, wires, inside, folders, work
<1>35. CASE CommandEnds(TRUE) \/ CommandEnds(FALSE)
  BY <1>1, <1>35 DEF CommandEnds, Mounts, Places, Done, Learned, clock, wires, inside, folders, work
<1>36. QED
  BY <1>2, <1>3, <1>4, <1>5, <1>6, <1>7, <1>8, <1>9, <1>10, <1>11, <1>12, <1>13, <1>14, <1>15, <1>16, <1>17, <1>18, <1>19,
     <1>20, <1>21, <1>22, <1>23, <1>24, <1>25, <1>26, <1>27, <1>28, <1>29, <1>30, <1>31, <1>32, <1>33, <1>34, <1>35,
     Zenon DEF Next, Host, Helper

LEMMA FoldersStay ==
    ASSUME SessionTyped, Wires, Folders, Next
    PROVE  Folders'
<1>1. pc \in Places
  BY DEF SessionTyped, Places
<1>2. CASE Begin
  BY <1>1, <1>2 DEF Begin, Folders, Places, Done, folders, work, Reports
<1>3. CASE Open
  BY <1>1, <1>3 DEF Open, Folders, Places, Done, folders, work, Reports
<1>4. CASE Opened
  BY <1>1, <1>4 DEF Opened, Folders, Places, Done, folders, work, Reports, Abort, Released
<1>5. CASE Run
  BY <1>1, <1>5 DEF Run, Folders, Places, Done, folders, work, Request
<1>6. CASE Ran
  BY <1>1, <1>6 DEF Ran, Folders, Places, Done, folders, work
<1>7. CASE Finalize
  BY <1>1, <1>7 DEF Finalize, Folders, Places, Done, folders, work
<1>8. CASE Finalized
  BY <1>1, <1>8 DEF Finalized, Folders, Places, Done, folders, work
<1>9. CASE GraceOver
  BY <1>1, <1>9 DEF GraceOver, Folders, Places, Done, folders, work, Abort, Released
<1>10. CASE Diff
  BY <1>1, <1>10 DEF Diff, Folders, Places, Done, folders, work
<1>11. CASE Diffed
  BY <1>1, <1>11 DEF Diffed, Folders, Places, Done, folders, work
<1>12. CASE Decide
  BY <1>1, <1>12 DEF Decide, Folders, Places, Done, folders, work
<1>13. CASE Closed
  BY <1>1, <1>13 DEF Closed, Folders, Places, Done, folders, work
<1>14. CASE Exited
  BY <1>1, <1>14 DEF Exited, Folders, Places, Done, folders, work
<1>15. CASE KeepUpper
  BY <1>1, <1>15 DEF KeepUpper, Folders, Places, Done, folders, work
<1>16. CASE Release
  BY <1>1, <1>16 DEF Release, Folders, Places, Done, folders, work
<1>17. CASE LetGo
  BY <1>1, <1>17 DEF LetGo, Folders, Places, Done, folders, work
<1>18. CASE Finish
  BY <1>1, <1>18 DEF Finish, Folders, Places, Done, folders, work
<1>19. CASE Upload
  BY <1>1, <1>19 DEF Upload, Folders, Places, Done, folders, work
<1>20. CASE Report
  BY <1>1, <1>20 DEF Report, Folders, Places, Done, folders, work, Reports
<1>21. CASE Cancel
  BY <1>1, <1>21 DEF Cancel, Folders, Places, Done, folders, work
<1>22. CASE HelperOpens
  <2>1. pc = "opening" /\ UNCHANGED <<pc, home, held>> /\ upper' \in {"home", upper}
    BY <1>22, ReadsWhatIsAsked DEF HelperOpens
  <2>2. QED
    BY <2>1 DEF Folders
<1>23. CASE HelperRuns
  BY <1>1, <1>23 DEF HelperRuns, Folders, Places, Done, folders, work
<1>24. CASE HelperCancels
  BY <1>1, <1>24 DEF HelperCancels, Folders, Places, Done, folders, work
<1>25. CASE HelperReadsFinal
  BY <1>1, <1>25 DEF HelperReadsFinal, Folders, Places, Done, folders, work
<1>26. CASE HelperFinalizes
  BY <1>1, <1>26 DEF HelperFinalizes, Folders, Places, Done, folders, work
<1>27. CASE HelperCloses
  BY <1>1, <1>27 DEF HelperCloses, Folders, Places, Done, folders, work
<1>28. CASE HelperCleans
  BY <1>1, <1>28 DEF HelperCleans, Dies, Folders, Places, Done, folders, work
<1>29. CASE Start
  BY <1>1, <1>29 DEF Start, Folders, Places, Done, folders, work
<1>30. CASE Known
  BY <1>1, <1>30 DEF Known, Folders, Places, Done, folders, work
<1>31. CASE Reset
  BY <1>1, <1>31 DEF Reset, Folders, Places, Done, folders, work
<1>32. CASE HelperDies
  BY <1>1, <1>32 DEF HelperDies, Folders, Places, Done, folders, work, Dies
<1>33. CASE LeaseEnds
  BY <1>1, <1>33 DEF LeaseEnds, Folders, Places, Done, folders, work
<1>34. CASE BudgetEnds
  BY <1>1, <1>34 DEF BudgetEnds, Folders, Places, Done, folders, work
<1>35. CASE CommandEnds(TRUE) \/ CommandEnds(FALSE)
  BY <1>1, <1>35 DEF CommandEnds, Folders, Places, Done, folders, work
<1>36. QED
  BY <1>2, <1>3, <1>4, <1>5, <1>6, <1>7, <1>8, <1>9, <1>10, <1>11, <1>12, <1>13, <1>14, <1>15, <1>16, <1>17, <1>18, <1>19,
     <1>20, <1>21, <1>22, <1>23, <1>24, <1>25, <1>26, <1>27, <1>28, <1>29, <1>30, <1>31, <1>32, <1>33, <1>34, <1>35,
     Zenon DEF Next, Host, Helper

LEMMA ReceiptStays ==
    ASSUME SessionTyped, Wires, Folders, Receipt, Next
    PROVE  Receipt'
<1>1. pc \in Places /\ step \in Learned /\ late \in BOOLEAN
  BY DEF SessionTyped, Places
<1>2. CASE Begin
  BY <1>1, <1>2 DEF Begin, Receipt, Places, Done, Learned, clock, folders, work, Reports
<1>3. CASE Open
  BY <1>1, <1>3 DEF Open, Receipt, Places, Done, Learned, clock, folders, work, Reports
<1>4. CASE Opened
  BY <1>1, <1>4 DEF Opened, Receipt, Places, Done, Learned, clock, folders, work, Reports, Abort, Released
<1>5. CASE Run
  BY <1>1, <1>5 DEF Run, Receipt, Places, Done, Learned, clock, folders, work, Request
<1>6. CASE Ran
  BY <1>1, <1>6 DEF Ran, Receipt, Places, Done, Learned, clock, folders, work
<1>7. CASE Finalize
  BY <1>1, <1>7 DEF Finalize, Receipt, Places, Done, Learned, clock, folders, work
<1>8. CASE Finalized
  BY <1>1, <1>8 DEF Finalized, Receipt, Places, Done, Learned, clock, folders, work, Expired
<1>9. CASE GraceOver
  BY <1>1, <1>9 DEF GraceOver, Receipt, Places, Done, Learned, clock, folders, work, Abort, Released, Expired
<1>10. CASE Diff
  BY <1>1, <1>10 DEF Diff, Receipt, Places, Done, Learned, clock, folders, work
<1>11. CASE Diffed
  BY <1>1, <1>11 DEF Diffed, Receipt, Places, Done, Learned, clock, folders, work, Expired
<1>12. CASE Decide
  BY <1>1, <1>12 DEF Decide, Receipt, Places, Done, Learned, clock, folders, work, InBudget
<1>13. CASE Closed
  BY <1>1, <1>13 DEF Closed, Receipt, Places, Done, Learned, clock, folders, work
<1>14. CASE Exited
  BY <1>1, <1>14 DEF Exited, Receipt, Places, Done, Learned, clock, folders, work
<1>15. CASE KeepUpper
  BY <1>1, <1>15 DEF KeepUpper, Receipt, Places, Done, Learned, clock, folders, work
<1>16. CASE Release
  BY <1>1, <1>16 DEF Release, Receipt, Places, Done, Learned, clock, folders, work
<1>17. CASE LetGo
  BY <1>1, <1>17 DEF LetGo, Receipt, Places, Done, Learned, clock, folders, work
<1>18. CASE Finish
  BY <1>1, <1>18 DEF Finish, Receipt, Places, Done, Learned, clock, folders, work, Commits
<1>19. CASE Upload
  BY <1>1, <1>19 DEF Upload, Receipt, Places, Done, Learned, clock, folders, work, Stage
<1>20. CASE Report
  BY <1>1, <1>20 DEF Report, Receipt, Places, Done, Learned, clock, folders, work, Reports
<1>21. CASE Cancel
  BY <1>1, <1>21 DEF Cancel, Receipt, Places, Done, Learned, clock, folders, work
<1>22. CASE HelperOpens
  <2>1. UNCHANGED <<pc, step, late>> /\ upper' \in {"home", upper}
    BY <1>22 DEF HelperOpens, clock
  <2>2. pc \notin {"release", "closed", "upload", "report", "over"}
    BY <1>22, <1>1, ReadsWhatIsAsked DEF HelperOpens
  <2>3. QED
    BY <2>1, <2>2 DEF Receipt, Done
<1>23. CASE HelperRuns
  BY <1>1, <1>23 DEF HelperRuns, Receipt, Places, Done, Learned, clock, folders, work
<1>24. CASE HelperCancels
  BY <1>1, <1>24 DEF HelperCancels, Receipt, Places, Done, Learned, clock, folders, work
<1>25. CASE HelperReadsFinal
  BY <1>1, <1>25 DEF HelperReadsFinal, Receipt, Places, Done, Learned, clock, folders, work
<1>26. CASE HelperFinalizes
  BY <1>1, <1>26 DEF HelperFinalizes, Receipt, Places, Done, Learned, clock, folders, work
<1>27. CASE HelperCloses
  BY <1>1, <1>27 DEF HelperCloses, Receipt, Places, Done, Learned, clock, folders, work
<1>28. CASE HelperCleans
  BY <1>1, <1>28 DEF HelperCleans, Dies, Receipt, Places, Done, Learned, clock, folders, work
<1>29. CASE Start
  BY <1>1, <1>29 DEF Start, Receipt, Places, Done, Learned, clock, folders, work
<1>30. CASE Known
  BY <1>1, <1>30 DEF Known, Receipt, Places, Done, Learned, clock, folders, work
<1>31. CASE Reset
  BY <1>1, <1>31 DEF Reset, Receipt, Places, Done, Learned, clock, folders, work
<1>32. CASE HelperDies
  BY <1>1, <1>32 DEF HelperDies, Receipt, Places, Done, Learned, clock, folders, work, Dies
<1>33. CASE LeaseEnds
  BY <1>1, <1>33 DEF LeaseEnds, Receipt, Places, Done, Learned, clock, folders, work
<1>34. CASE BudgetEnds
  BY <1>1, <1>34 DEF BudgetEnds, Receipt, Places, Done, Learned, clock, folders, work
<1>35. CASE CommandEnds(TRUE) \/ CommandEnds(FALSE)
  BY <1>1, <1>35 DEF CommandEnds, Receipt, Places, Done, Learned, clock, folders, work
<1>36. QED
  BY <1>2, <1>3, <1>4, <1>5, <1>6, <1>7, <1>8, <1>9, <1>10, <1>11, <1>12, <1>13, <1>14, <1>15, <1>16, <1>17, <1>18, <1>19,
     <1>20, <1>21, <1>22, <1>23, <1>24, <1>25, <1>26, <1>27, <1>28, <1>29, <1>30, <1>31, <1>32, <1>33, <1>34, <1>35,
     Zenon DEF Next, Host, Helper

LEMMA SessionBegins == Init => SessionInv
<1>. SUFFICES ASSUME Init
              PROVE  SessionInv
  OBVIOUS
<1>. USE DEF Init, Fresh, NoProc
<1>1. SessionTyped
  <2>1. step \in Learned
    BY DEF Learned
  <2>2. proc \in Command
    BY DEF Command
  <2>3. toHelper \in Seq(SomeRequest) /\ toHost \in Seq(SomeAnswer)
    OBVIOUS
  <2>4. ended \in BOOLEAN /\ late \in BOOLEAN /\ stdin \in BOOLEAN /\ mounted \in BOOLEAN /\ running \in BOOLEAN /\ canceled \in BOOLEAN
    BY Zenon
  <2>5. pc = "claimed" /\ runs \in Nat /\ helper = "none"
    OBVIOUS
  <2>6. QED
    BY <2>1, <2>2, <2>3, <2>4, <2>5 DEF SessionTyped
<1>2. Cancels(<<>>)
  BY DEF Cancels
<1>3. Wires /\ Mounts
  BY <1>2 DEF Wires, Mounts, Still, Done
<1>4. Folders /\ Receipt
  BY DEF Folders, Receipt, Done
<1>5. QED
  BY <1>1, <1>3, <1>4 DEF SessionInv

LEMMA SessionGoesOn == SessionInv /\ [Next]_vars => SessionInv'
<1>1. ASSUME SessionInv, Next
      PROVE  SessionInv'
  BY <1>1, TypesStayInSession, WiresStay, MountsStay, FoldersStay, ReceiptStays DEF SessionInv
<1>2. ASSUME SessionInv, UNCHANGED vars
      PROVE  SessionInv'
  BY <1>2 DEF SessionInv, SessionTyped, Wires, Mounts, Folders, Receipt, Waits, InPipe, AtWork, Back, Lost, Quiet, Still,
     Answers,
              vars, clock, wires, inside, folders, work
<1>3. QED
  BY <1>1, <1>2

THEOREM SessionIsSound == Spec => []SessionInv
<1>1. Init => SessionInv
  BY SessionBegins
<1>2. SessionInv /\ [Next]_vars => SessionInv'
  BY SessionGoesOn
<1>3. QED
  BY <1>1, <1>2, PTL DEF Spec

\* A receipt that says captured tells the truth (claim.go, finalize.go): the upper was moved in time and out of a
\* namespace that had ended, and the step did not run out of the budget of its Finalize.
THEOREM CapturesAreWhole == Spec => []CapturedIsWhole
<1>1. SessionInv => CapturedIsWhole
  BY DEF SessionInv, CapturedIsWhole, Folders, Receipt, Mounts
<1>2. QED
  BY <1>1, SessionIsSound, PTL

\* What the Worker reads from the pipe answers what it asked last (runc_overlay_linux.go), although cancels
\* are sent by other goroutines in between.
THEOREM AnswersAreMatched == Spec => []AnswersMatch
<1>1. ASSUME SessionInv
      PROVE  AnswersMatch
  <2>1. pc \in Places
    BY <1>1 DEF SessionInv, SessionTyped, Places
  <2>2. QED
    BY <1>1, <2>1 DEF SessionInv, Wires, Waits, InPipe, AtWork, Back, Lost, Quiet, Answers, AnswersMatch, Places
<1>2. QED
  BY <1>1, SessionIsSound, PTL

-----------------------------------------------------------------------------
(* AgentStep: a harness runs as it was asked, and whole work leaves.        *)

AgentResult == [reason : {"none", "ok", "cannot", "max_turns", "max_tokens", "timeout", "harness_error"},
                mcp : SUBSET Names, pack : BOOLEAN, shipped : SUBSET (Outs \cup {Cannot}),
                error : {"none", "refused", "lease", "harness", "finalize", "upload"}, sent : BOOLEAN]

AgentTyped ==
    /\ job \in Job
    /\ phase \in {"claimed", "prepared", "resolved", "ready", "running", "exited", "ran", "over"}
    /\ expired \in BOOLEAN /\ note \in {"none", "sending", "stopped"}
    /\ box \in [flags : SUBSET {"no-settings", "strict", "hook", "pack", "home", "allowlist", "credentials"},
                allow : UNION {[S -> {"pack", "node", "ws"}] : S \in SUBSET Names}]
    /\ harness \in [st : {"none", "unborn", "working", "ended", "crashed"},
                    done : {"none", "success", "max_turns", "max_tokens", "error"}]
    /\ res \in AgentResult
    /\ out \in [have : SUBSET (Outs \cup {Cannot}), problem : Problems \cup {"none"}, memory : BOOLEAN]

\* The servers were resolved for a job nothing refuses.
Granted == ~Refused(job) /\ box.allow = Allowed(job)

\* All that isolates the harness was written.
Isolated ==
    /\ {"no-settings", "strict", "home", "allowlist", "credentials"} \subseteq box.flags
    /\ job.pack.is = "good" => "pack" \in box.flags

\* Nothing has been learned of the harness.
Untold == res.mcp = {} /\ ~res.pack

\* Where a step is, tells what it has done.
Progress ==
    /\ phase \in {"claimed", "prepared", "resolved", "ready"} => harness.st = "none"
    /\ phase \in {"resolved", "ready", "running", "exited"} \/ harness.st # "none" => Granted
    /\ phase \in {"ready", "running", "exited"} \/ harness.st # "none" => Isolated
    /\ phase = "exited" => harness.st \notin {"none", "working"}
    /\ harness.done # "none" => harness.st = "ended"
    /\ phase \notin {"ran", "over"} => res.reason = "none"
    /\ phase # "over" => ~res.sent /\ res.shipped = {}
    /\ harness.st = "none" => Untold

\* What came to its own end under a live lease is being told at once.
Accounted ==
    /\ phase = "exited" /\ ~expired /\ harness.st # "unborn" => note = "sending"
    /\ phase = "ran" /\ Completed(res.reason) => harness.st = "ended" /\ harness.done \notin {"none", "error"} /\ note = "sending"
    /\ phase = "ran" /\ res.reason = "ok" => Cannot \notin out.have

AgentInv == AgentTyped /\ Progress /\ Accounted /\ OnlyWholeWork

LEMMA AgentStarts == AgentInit => AgentInv
<1>1. SUFFICES ASSUME AgentInit
               PROVE  AgentInv
  OBVIOUS
<1>2. << >> \in UNION {[S -> {"pack", "node", "ws"}] : S \in SUBSET Names}
  <2>1. << >> \in [{} -> {"pack", "node", "ws"}]
    OBVIOUS
  <2>2. QED
    BY <2>1
<1>3. AgentTyped
  BY <1>1, <1>2, JobsAreJobs DEF AgentInit, AgentFresh, AgentTyped, AgentResult, NoResult
<1>4. QED
  BY <1>1, <1>3 DEF AgentInit, AgentFresh, AgentInv, Progress, Accounted, OnlyWholeWork, Untold, NoResult

LEMMA AgentGoesOn ==
    ASSUME AgentInv, AgentNext
    PROVE  AgentInv'
<1>0. AgentTyped /\ Progress /\ Accounted /\ OnlyWholeWork
  BY DEF AgentInv
<1>1. CASE Prepare
  <2>1. UNCHANGED <<job, expired, box, harness, out, seen, note>> /\ phase = "claimed"
    BY <1>1 DEF Prepare
  <2>2. CASE Refuse("refused")
    <3>1. res' = [res EXCEPT !.error = "refused", !.sent = TRUE] /\ phase' = "over"
      BY <2>2 DEF Refuse
    <3>2. AgentTyped'
      BY <1>0, <2>1, <3>1 DEF AgentTyped, AgentResult
    <3>3. res'.reason = "none" /\ res'.error = "refused" /\ res'.mcp = {} /\ ~res'.pack /\ res'.shipped = {}
      BY <1>0, <2>1, <3>1 DEF AgentTyped, AgentResult, Progress, Untold
    <3>4. QED
      BY <1>0, <2>1, <3>1, <3>2, <3>3 DEF AgentInv, Progress, Accounted, OnlyWholeWork, Untold, Granted, Isolated
  <2>3. CASE phase' = "prepared" /\ UNCHANGED res
    BY <1>0, <2>1, <2>3 DEF AgentInv, AgentTyped, AgentResult, Progress, Accounted, OnlyWholeWork, Untold, Granted, Isolated
  <2>4. QED
    BY <1>1, <2>2, <2>3 DEF Prepare
\* The harness did not run.
<1>n. ASSUME NotRun, UNCHANGED <<job, expired, box, harness, out, seen, note>>, phase \in {"prepared", "resolved"}
      PROVE  AgentInv'
  <2>1. res' = [res EXCEPT !.reason = "harness_error"] /\ phase' = "ran"
    BY <1>n DEF NotRun
  <2>2. AgentTyped'
    BY <1>0, <1>n, <2>1 DEF AgentTyped, AgentResult
  <2>3. res'.reason = "harness_error" /\ res'.mcp = {} /\ ~res'.pack /\ res'.shipped = {} /\ ~res'.sent
    BY <1>0, <1>n, <2>1 DEF AgentTyped, AgentResult, Progress, Untold
  <2>4. QED
    BY <1>0, <1>n, <2>1, <2>2, <2>3 DEF AgentInv, Progress, Accounted, OnlyWholeWork, Untold, Granted, Isolated, Completed
<1>2. CASE Resolve
  <2>1. UNCHANGED <<job, expired, harness, out, seen, note>> /\ phase = "prepared"
    BY <1>2 DEF Resolve
  <2>2. CASE ~Refused(job) /\ box' = [box EXCEPT !.allow = Allowed(job)] /\ phase' = "resolved" /\ UNCHANGED res
    <3>1. Allowed(job) \in UNION {[S -> {"pack", "node", "ws"}] : S \in SUBSET Names}
      <4>1. job.want \in SUBSET Names /\ Allowed(job) \in [job.want -> {"pack", "node", "ws"}]
        BY <1>0 DEF AgentTyped, Job, Allowed, Source
      <4>2. QED
        BY <4>1
    <3> DEFINE allow == Allowed(job)
    <3> HIDE DEF allow
    <3>2. box' = [box EXCEPT !.allow = allow] /\ allow \in UNION {[S -> {"pack", "node", "ws"}] : S \in SUBSET Names}
      BY <2>2, <3>1 DEF allow
    <3>3. AgentTyped' /\ box'.allow = allow
      BY <1>0, <2>1, <2>2, <3>2 DEF AgentTyped, AgentResult
    <3>4. QED
      BY <1>0, <2>1, <2>2, <3>3 DEF AgentInv, Progress, Accounted, OnlyWholeWork, Untold, Granted, allow
  <2>3. QED
    BY <1>2, <1>n, <2>1, <2>2 DEF Resolve
<1>3. CASE Instrument
  <2>1. UNCHANGED <<job, expired, harness, out, seen, note>> /\ phase = "resolved"
    BY <1>3 DEF Instrument
  <2>2. ASSUME NEW failed \in {{}} \cup {{p} : p \in Parts}, ~Fatal(failed), box' = [box EXCEPT !.flags = Flags(failed)],
               phase' = "ready", UNCHANGED res
        PROVE  AgentInv'
    <3>1. failed \subseteq {"settings"}
      BY <2>2 DEF Fatal
    <3> DEFINE flags == Flags(failed)
    <3>2. /\ flags \in SUBSET {"no-settings", "strict", "hook", "pack", "home", "allowlist", "credentials"}
          /\ {"no-settings", "strict", "home", "allowlist", "credentials"} \subseteq flags
          /\ job.pack.is = "good" => "pack" \in flags
      BY <3>1 DEF Flags
    <3> HIDE DEF flags
    <3>3. box' = [box EXCEPT !.flags = flags]
      BY <2>2 DEF flags
    <3>4. AgentTyped' /\ box'.flags = flags /\ box'.allow = box.allow
      BY <1>0, <2>1, <2>2, <3>2, <3>3 DEF AgentTyped, AgentResult
    <3>5. Granted' /\ Isolated'
      BY <1>0, <2>1, <3>2, <3>4 DEF Progress, Granted, Isolated
    <3>6. QED
      BY <1>0, <2>1, <2>2, <3>4, <3>5 DEF AgentInv, Progress, Accounted, OnlyWholeWork, Untold
  <2>3. QED
    BY <1>3, <1>n, <2>1, <2>2 DEF Instrument
<1>4. CASE StartHarness
  <2>1. PICK st \in {"working", "unborn"} : harness' = [harness EXCEPT !.st = st]
    BY <1>4 DEF StartHarness
  <2>2. phase = "ready" /\ phase' = "running" /\ UNCHANGED <<job, expired, box, out, seen, note, res>>
    BY <1>4 DEF StartHarness
  <2>3. AgentTyped' /\ harness'.st = st /\ harness'.done = harness.done
    BY <1>0, <2>1, <2>2 DEF AgentTyped, AgentResult
  <2>4. QED
    BY <1>0, <2>2, <2>3 DEF AgentInv, Progress, Accounted, OnlyWholeWork, Untold, Granted, Isolated
\* The harness works, and the lease may end.
<1>5. CASE Write
  <2>1. UNCHANGED <<phase, job, expired, box, harness, seen, note, res>> /\ phase = "running"
    BY <1>5 DEF Write, Working
  <2>2. out' \in [have : SUBSET (Outs \cup {Cannot}), problem : Problems \cup {"none"}, memory : BOOLEAN]
    <3>1. job.expect \subseteq Outs /\ out \in [have : SUBSET (Outs \cup {Cannot}), problem : Problems \cup {"none"}, memory : BOOLEAN]
      BY <1>0 DEF AgentTyped, Job
    <3>2. ASSUME NEW o \in job.expect \cup {Cannot},
                 out' = [out EXCEPT !.have = @ \cup {o}, !.problem = IF o = Plan THEN "none" ELSE @]
          PROVE  out' \in [have : SUBSET (Outs \cup {Cannot}), problem : Problems \cup {"none"}, memory : BOOLEAN]
      <4> DEFINE have == out.have \cup {o}
                 problem == IF o = Plan THEN "none" ELSE out.problem
      <4>1. have \in SUBSET (Outs \cup {Cannot}) /\ problem \in Problems \cup {"none"}
        BY <3>1
      <4>2. out' = [out EXCEPT !.have = have, !.problem = problem]
        BY <3>2
      <4> HIDE DEF have, problem
      <4>3. QED
        BY <3>1, <4>1, <4>2
    <3>3. ASSUME NEW p \in Problems, Plan \in job.expect, out' = [out EXCEPT !.have = @ \cup {Plan}, !.problem = p]
          PROVE  out' \in [have : SUBSET (Outs \cup {Cannot}), problem : Problems \cup {"none"}, memory : BOOLEAN]
      <4> DEFINE have == out.have \cup {Plan}
      <4>1. have \in SUBSET (Outs \cup {Cannot})
        BY <3>1, <3>3
      <4>2. out' = [out EXCEPT !.have = have, !.problem = p]
        BY <3>3
      <4> HIDE DEF have
      <4>3. QED
        BY <3>1, <4>1, <4>2
    <3>4. CASE out' = [out EXCEPT !.memory = FALSE]
      BY <3>1, <3>4
    <3>5. QED
      BY <1>5, <3>2, <3>3, <3>4 DEF Write
  <2>3. QED
    BY <1>0, <2>1, <2>2 DEF AgentInv, AgentTyped, AgentResult, Progress, Accounted, OnlyWholeWork, Untold, Granted, Isolated
<1>6. CASE Stop \/ HookUnreadable \/ HarnessEnds \/ Killed
  <2>1. UNCHANGED <<phase, job, expired, box, out, note, res>> /\ phase = "running" /\ harness.st = "working"
    BY <1>6 DEF Stop, HookUnreadable, HarnessEnds, Killed, Working
  <2>2. /\ harness' \in [st : {"none", "unborn", "working", "ended", "crashed"}, done : {"none", "success", "max_turns", "max_tokens", "error"}]
        /\ harness'.st # "none" /\ (harness'.done # "none" => harness'.st = "ended")
    BY <1>0, <1>6, <2>1 DEF Stop, HookUnreadable, HarnessEnds, Killed, Ends, AgentTyped, Progress
  <2>3. QED
    BY <1>0, <2>1, <2>2 DEF AgentInv, AgentTyped, AgentResult, Progress, Accounted, OnlyWholeWork, Untold, Granted, Isolated
<1>7. CASE AgentLeaseEnds
  BY <1>0, <1>7 DEF AgentLeaseEnds, AgentInv, AgentTyped, AgentResult, Progress, Accounted, OnlyWholeWork, Untold, Granted,
     Isolated
<1>8. CASE HarnessExited
  <2>1. UNCHANGED <<job, expired, box, harness, out, seen, res>> /\ phase = "running" /\ phase' = "exited"
        /\ harness.st \notin {"none", "working"} /\ note' = (IF harness.st # "unborn" /\ ~expired THEN "sending" ELSE note)
    BY <1>8 DEF HarnessExited
  <2>2. AgentTyped'
    BY <1>0, <2>1 DEF AgentTyped, AgentResult
  <2>3. QED
    BY <1>0, <2>1, <2>2 DEF AgentInv, Progress, Accounted, OnlyWholeWork, Untold, Granted, Isolated
<1>9. CASE Decode
  <2> DEFINE said == Parsed(harness.done)
             reason == IF said = "ok" /\ Cannot \in out.have THEN "cannot" ELSE said
             told == IF expired THEN "timeout" ELSE reason
  <2>1. UNCHANGED <<job, expired, box, harness, out, seen, note>> /\ phase = "exited" /\ phase' = "ran"
        /\ res' = [res EXCEPT !.reason = told, !.mcp = DOMAIN box.allow, !.pack = job.pack.is = "good"]
    BY <1>9 DEF Decode
  <2>2. said \in {"ok", "max_turns", "max_tokens", "harness_error"} /\ (said # "harness_error" => harness.done \notin {"none", "error"})
    BY DEF Parsed
  <2>3. told \in {"ok", "cannot", "max_turns", "max_tokens", "timeout", "harness_error"}
    BY <2>2
  <2>4. Completed(told) => ~expired /\ harness.done \notin {"none", "error"}
    BY <2>2 DEF Completed
  <2>5. told = "ok" => Cannot \notin out.have
    BY <2>2
  <2> HIDE DEF said, reason, told
  <2>6. DOMAIN box.allow \in SUBSET Names
    <3>1. PICK S \in SUBSET Names : box.allow \in [S -> {"pack", "node", "ws"}]
      BY <1>0 DEF AgentTyped, AgentResult
    <3>2. QED
      BY <3>1
  <2>7. AgentTyped'
    <3> DEFINE mcp == DOMAIN box.allow
               pack == job.pack.is = "good"
    <3>1. mcp \in SUBSET Names /\ pack \in BOOLEAN
      BY <2>6
    <3>2. res' = [res EXCEPT !.reason = told, !.mcp = mcp, !.pack = pack]
      BY <2>1
    <3> HIDE DEF mcp, pack
    <3>3. res \in AgentResult
      BY <1>0 DEF AgentTyped, AgentResult
    <3>4. res' \in AgentResult
      BY <2>3, <3>1, <3>2, <3>3 DEF AgentResult
    <3>5. QED
      BY <1>0, <2>1, <3>4 DEF AgentTyped, AgentResult
  <2>8. res'.reason = told /\ res'.sent = res.sent /\ res'.shipped = res.shipped
    BY <1>0, <2>1 DEF AgentTyped, AgentResult
  <2>9. QED
    BY <1>0, <2>1, <2>4, <2>5, <2>7, <2>8 DEF AgentInv, Progress, Accounted, OnlyWholeWork, Untold, Granted, Isolated
<1>10. CASE LeaseOver
  <2> DEFINE error == IF Completed(res.reason) THEN "lease" ELSE "harness"
  <2>1. UNCHANGED <<job, expired, box, harness, out, seen>> /\ phase = "ran" /\ phase' = "over" /\ note' = Stopped
        /\ res' = [res EXCEPT !.error = error, !.sent = TRUE]
    BY <1>10 DEF LeaseOver
  <2>2. error \in {"lease", "harness"}
    OBVIOUS
  <2> HIDE DEF error
  <2>3. AgentTyped'
    BY <1>0, <2>1, <2>2 DEF AgentTyped, AgentResult, Stopped
  <2>4. res'.error = error /\ res'.reason = res.reason /\ res'.mcp = res.mcp /\ res'.pack = res.pack /\ res'.shipped = {}
    BY <1>0, <2>1 DEF AgentTyped, AgentResult, Progress
  <2>5. QED
    BY <1>0, <2>1, <2>2, <2>3, <2>4 DEF AgentInv, Progress, Accounted, OnlyWholeWork, Untold, Granted, Isolated, Completed
<1>11. CASE CloseOut
  <2>1. PICK lost \in BOOLEAN, how \in {"none", "finalize", "upload"}, shipped \in IF Ships(res.reason) THEN SUBSET out.have ELSE {{}} :
            /\ expired' = lost
            /\ res' = [res EXCEPT !.shipped = shipped, !.sent = TRUE,
                          !.error = IF ~Completed(res.reason) THEN "harness" ELSE IF lost THEN "lease" ELSE how]
    BY <1>11 DEF CloseOut
  <2> DEFINE error == IF ~Completed(res.reason) THEN "harness" ELSE IF lost THEN "lease" ELSE how
  <2>2. UNCHANGED <<job, box, harness, out, seen>> /\ phase = "ran" /\ phase' = "over" /\ note' = Stopped /\ ~expired
        /\ res' = [res EXCEPT !.shipped = shipped, !.sent = TRUE, !.error = error]
    BY <1>11, <2>1 DEF CloseOut
  <2>3. error \in {"harness", "lease", "none", "finalize", "upload"} /\ (error = "none" => Completed(res.reason) /\ ~lost)
    OBVIOUS
  <2>4. shipped \subseteq out.have /\ (shipped # {} => Completed(res.reason))
    BY DEF Ships
  <2> HIDE DEF error
  <2>t. shipped \in SUBSET (Outs \cup {Cannot}) /\ expired' \in BOOLEAN /\ note' \in {"none", "sending", "stopped"}
    BY <1>0, <2>1, <2>2, <2>4 DEF AgentTyped, AgentResult, Stopped
  <2>5. AgentTyped'
    BY <1>0, <2>2, <2>3, <2>t DEF AgentTyped, AgentResult
  <2>6. res'.error = error /\ res'.reason = res.reason /\ res'.mcp = res.mcp /\ res'.pack = res.pack /\ res'.shipped = shipped
    BY <1>0, <2>2 DEF AgentTyped, AgentResult
  <2>7. OnlyWholeWork'
    BY <1>0, <2>1, <2>2, <2>3, <2>4, <2>6 DEF OnlyWholeWork, Accounted, Progress, Untold, Stopped, Completed
  <2>8. QED
    BY <1>0, <2>1, <2>2, <2>5, <2>6, <2>7 DEF AgentInv, Progress, Accounted, Untold, Granted, Isolated
<1>12. QED
  BY <1>1, <1>2, <1>3, <1>4, <1>5, <1>6, <1>7, <1>8, <1>9, <1>10, <1>11 DEF AgentNext, Node

LEMMA AgentHolds == AgentSpec => []AgentInv
<1>1. AgentInv /\ [AgentNext]_agentVars => AgentInv'
  <2>1. SUFFICES ASSUME AgentInv, UNCHANGED agentVars
                 PROVE  AgentInv'
    BY AgentGoesOn
  <2>2. QED
    BY <2>1 DEF agentVars, AgentInv, AgentTyped, AgentResult, Progress, Accounted, OnlyWholeWork, Untold, Granted, Isolated
<1>2. QED
  BY <1>1, AgentStarts, PTL DEF AgentSpec

\* runHarness, resolveComponents, Instrument: a harness that runs is isolated and reaches the servers of the
\* contract, those the owner declares by the owner's word, whoever declares what and whatever fails before.
THEOREM HarnessRunsAsAsked == AgentSpec => []RunsAsAsked
<1>1. AgentInv => RunsAsAsked
  <2>1. SUFFICES ASSUME AgentInv, harness.st # "none"
                 PROVE  RunsAsAsked
    BY DEF RunsAsAsked
  <2>2. Granted /\ Isolated /\ job \in Job
    BY <2>1 DEF AgentInv, Progress, AgentTyped
  <2>3. DOMAIN box.allow = job.want /\ \A n \in job.want : n \in job.node => box.allow[n] = "node"
    BY <2>2 DEF Granted, Refused, Allowed, Source, Overrides
  <2>4. job.pack.is # "none" => job.pack.is = "good"
    BY <2>2 DEF Granted, Refused, Job
  <2>5. QED
    BY <2>2, <2>3, <2>4 DEF RunsAsAsked, Isolated
<1>2. QED
  BY <1>1, AgentHolds, PTL

\* runAgentStep, ParseClaude, Decode: artifacts and a result without an error come of a harness that came to
\* its own end under a live lease, whatever crashed or raced.
THEOREM WholeWorkOnly == AgentSpec => []OnlyWholeWork
<1>1. AgentInv => OnlyWholeWork
  BY DEF AgentInv
<1>2. QED
  BY <1>1, AgentHolds, PTL
=============================================================================
