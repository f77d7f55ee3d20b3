------------------------ MODULE ClaimProtocol_proofs ------------------------
(***************************************************************************)
(* Proofs about ClaimProtocol: one attempt of a step is started by one     *)
(* life of its node only, an attempt is started again only after its       *)
(* Worker gave it up, and a row says "finalizing" only of the attempt and  *)
(* the life it names.                                                      *)
(*                                                                         *)
(* The heart is Tied: whatever names an attempt -- its row, the answer to  *)
(* a claim, the Worker, the history -- ties it to a life, and OneLife says *)
(* that all of them agree.                                                 *)
(***************************************************************************)
EXTENDS ClaimProtocol, TLAPS

-----------------------------------------------------------------------------
(* The inductive invariant.                                                *)

Beginning == {"NONE", "PENDING"}

\* Attempt a of step s is tied to life l.
TiedByRow(s, a, l) == row[s].attempt = a /\ row[s].inst = l /\ row[s].state \notin Beginning
TiedByAsk(s, a, l) == \E c \in asks : c.at # "sent" /\ c.step = s /\ c.attempt = a /\ c.life = l
TiedByWorker(s, a, l) ==
    worker.pc \notin {"idle", "asking"} /\ worker.step = s /\ worker.attempt = a /\ life = l
TiedByHistory(s, a, l) == <<<<s, a>>, l>> \in began
Tied(s, a, l) == TiedByRow(s, a, l) \/ TiedByAsk(s, a, l) \/ TiedByWorker(s, a, l) \/ TiedByHistory(s, a, l)

LivesAndNone == 0..MaxLives

\* An attempt is tied to one life.
OneLife == \A s \in Steps, a \in Attempts : \A l, m \in LivesAndNone : Tied(s, a, l) /\ Tied(s, a, m) => l = m

\* An attempt that is tied to a life has been claimed: it is behind the row's, or the row's.
TiedIsClaimed ==
    \A s \in Steps, a \in Attempts, l \in LivesAndNone :
        Tied(s, a, l) => a < row[s].attempt \/ (a = row[s].attempt /\ row[s].state \notin Beginning)

\* No row is claimed by a life to come, and a Run that has not had the node has no rows yet.
RowsInTime ==
    \A s \in Steps : row[s].inst <= life /\ (row[s].state = "NONE" \/ RunOf[s] \in over \cup {lease})

\* The Worker waits for one claim at most, of its own life.
AsksOfWorker ==
    /\ \A c \in asks : /\ c.life <= life
                       /\ c.at # "sent" => c.step \in Steps
                       /\ c.live => c.life = life /\ worker.pc = "asking"
    /\ \A c, d \in asks : c.live /\ d.live => c = d

\* It waits for one report at most, of the attempt it is at.
ReportsOfWorker ==
    /\ \A c \in reports : c.live => worker.pc = "reporting" /\ worker.step = c.step /\ worker.attempt = c.attempt
    /\ \A c, d \in reports : c.live /\ d.live => c = d

Begun(s, a) == \E l \in Lives : <<<<s, a>>, l>> \in began
GivenUp(s, a) == <<s, a>> \in gaveUp
AtIt(s, a) == worker.pc \in {"running", "exited", "reporting"} /\ worker.step = s /\ worker.attempt = a

\* What the Mediator may give again and has been started, the Worker is at or has given up.
BegunIsAtWork ==
    \A s \in Steps : row[s].state = "CLAIMED" /\ row[s].inst = life /\ Begun(s, row[s].attempt)
        => AtIt(s, row[s].attempt) \/ GivenUp(s, row[s].attempt)

\* What the Worker is given, or is about to start, has not been started unless it was given up.
GivenIsFresh ==
    /\ \A c \in asks : c.live /\ c.at # "sent" /\ Begun(c.step, c.attempt) => GivenUp(c.step, c.attempt)
    /\ worker.pc = "starting" /\ Begun(worker.step, worker.attempt) => GivenUp(worker.step, worker.attempt)

\* What has been answered the Mediator will not give again.
AnsweredIsOver ==
    \A c \in reports : c.live /\ c.at = "answered" =>
        \/ GivenUp(c.step, c.attempt)
        \/ c.attempt < row[c.step].attempt
        \/ row[c.step].state \in {"DONE", "FAILED"}

\* An exit report tells of an exit.
ExitsHappened == \A e \in exits : <<<<e.step, e.attempt>>, e.life>> \in exited

Ties == OneLife /\ TiedIsClaimed
Calls == RowsInTime /\ AsksOfWorker /\ ReportsOfWorker
Restarts == BegunIsAtWork /\ GivenIsFresh /\ AnsweredIsOver /\ RerunOnlyAfterGivingUp
Exiting == ExitsHappened /\ ExitIsCurrent


-----------------------------------------------------------------------------
(* Types.                                                                  *)

\* TypeOK by owner; a claim that has been looked at has a step.
ServerType == lease \in Runs \cup {NoRun} /\ late \in BOOLEAN /\ over \subseteq Runs /\ row \in [Steps -> Row]
NodeType == life \in Lives /\ worker \in Worker /\ held \subseteq Runs
AsksType == asks \subseteq Ask /\ \A c \in asks : c.at # "sent" => c.step \in Steps
ReportsType == reports \subseteq Report
BeatsType == beats \subseteq Beat
ExitsType == exits \subseteq Exit
HistType ==
    /\ began \subseteq Execution \X Lives /\ exited \subseteq Execution \X Lives
    /\ rerun \subseteq Execution /\ gaveUp \subseteq Execution
FaultsType == faults \in 0..MaxFaults

Typed ==
    ServerType /\ NodeType /\ AsksType /\ ReportsType /\ BeatsType /\ ExitsType /\ HistType /\ FaultsType

IInv == Typed /\ Calls /\ Ties /\ Restarts /\ Exiting

LEMMA TypeParts == Typed => TypeOK
BY DEF Typed, TypeOK, ServerType, NodeType, AsksType, ReportsType, BeatsType, ExitsType, HistType, FaultsType

\* Who is at a step has an attempt of it.
LEMMA WorkerFields ==
    ASSUME worker \in Worker
    PROVE  /\ worker.pc \in {"idle", "asking", "starting", "running", "exited", "reporting"}
           /\ worker.pc \notin {"idle", "asking"} =>
                /\ worker \in [pc : {"starting", "running", "exited", "reporting"}, step : Steps, attempt : Attempts, ok : BOOLEAN]
                /\ worker.step \in Steps /\ worker.attempt \in Attempts /\ worker.ok \in BOOLEAN
BY DEF Worker, Idle, WithoutStep

\* The types hold from the beginning of any life.
LEMMA StartsTyped ==
    ASSUME NEW l \in Lives, NEW gone \in SUBSET Runs, Starts(l, gone)
    PROVE  Typed
<1>1. [state |-> "NONE", inst |-> 0, attempt |-> 0, phase |-> "none"] \in Row
  BY Bounds DEF Row, Attempts
<1>2. ServerType
  BY <1>1 DEF Starts, ServerType
<1>3. NodeType
  BY DEF Starts, NodeType, Worker
<1>4. AsksType /\ ReportsType /\ BeatsType /\ ExitsType /\ HistType /\ FaultsType
  BY Bounds DEF Starts, AsksType, ReportsType, BeatsType, ExitsType, HistType, FaultsType
<1>5. QED
  BY <1>2, <1>3, <1>4 DEF Typed

LEMMA TypedStill ==
    ASSUME Typed
    PROVE  /\ UNCHANGED server => ServerType'
           /\ UNCHANGED node => NodeType'
           /\ UNCHANGED asks => AsksType'
           /\ UNCHANGED reports => ReportsType'
           /\ UNCHANGED beats => BeatsType'
           /\ UNCHANGED exits => ExitsType'
           /\ UNCHANGED hist => HistType'
           /\ UNCHANGED faults => FaultsType'
           /\ Fault => FaultsType'
BY Bounds DEF Typed, server, node, hist, Fault, ServerType, NodeType, AsksType, ReportsType, BeatsType, ExitsType, HistType, FaultsType

\* The Worker's and the Advertiser's steps keep the types.
LEMMA NodeTyped ==
    ASSUME Typed, Work \/ Exits \/ Advertise
    PROVE  Typed'
<1>0. /\ life \in Lives /\ worker \in Worker /\ held \subseteq Runs
      /\ asks \subseteq Ask /\ (\A c \in asks : c.at # "sent" => c.step \in Steps)
      /\ reports \subseteq Report /\ beats \subseteq Beat /\ exits \subseteq Exit
  BY DEF Typed, NodeType, AsksType, ReportsType, BeatsType, ExitsType
<1>1. CASE AskClaim
  <2> DEFINE new == [life |-> life, live |-> TRUE, at |-> "sent", step |-> NoStep, attempt |-> 0, lease |-> {}]
  <2>1. new \in Ask /\ new.at = "sent"
    <3>1. 0 \in Attempts
      BY Bounds DEF Attempts
    <3>2. QED
      BY <1>0, <3>1 DEF Ask
  <2>2. worker' \in Worker
    BY <1>1 DEF AskClaim, Worker
  <2>3. NodeType'
    BY <1>0, <1>1, <2>2 DEF AskClaim, NodeType
  <2>4. AsksType'
    <3>1. asks' = asks \cup {new}
      BY <1>1 DEF AskClaim
    <3> HIDE DEF new
    <3>2. QED
      BY <1>0, <2>1, <3>1 DEF AsksType
  <2>5. QED
    BY <1>1, <2>3, <2>4, TypedStill DEF AskClaim, Typed
<1>2. CASE Begin
  <2>1. worker' \in Worker
    BY <1>0, <1>2, WorkerFields DEF Begin, Worker
  <2>2. <<worker.step, worker.attempt>> \in Execution
    BY <1>0, <1>2, WorkerFields DEF Begin, Execution
  <2>3. NodeType'
    BY <1>0, <1>2, <2>1 DEF Begin, NodeType
  <2>4. /\ began' = began \cup {<<<<worker.step, worker.attempt>>, life>>} \/ began' = began
        /\ rerun' = rerun \cup {<<worker.step, worker.attempt>>} \/ rerun' = rerun
        /\ exited' = exited /\ gaveUp' = gaveUp
    BY <1>2 DEF Begin
  <2>5. HistType'
    BY <1>0, <2>2, <2>4 DEF HistType, Typed
  <2>6. QED
    BY <1>2, <2>3, <2>5, TypedStill DEF Begin, net, Typed
<1>3. CASE Refuse \/ Abort \/ Finalize
  <2>1. worker' \in Worker
    BY <1>0, <1>3, WorkerFields DEF Refuse, Abort, Finalize, Worker
  <2>2. NodeType'
    BY <1>0, <1>3, <2>1 DEF Refuse, Abort, Finalize, NodeType
  <2>3. QED
    BY <1>3, <2>2, TypedStill DEF Refuse, Abort, Finalize, net, Typed
<1>4. CASE SendReport
  <2>1. [live |-> TRUE, at |-> "sent", step |-> worker.step, attempt |-> worker.attempt, ok |-> worker.ok] \in Report
    BY <1>0, <1>4, WorkerFields DEF SendReport, Report
  <2>2. ReportsType'
    BY <1>0, <1>4, <2>1 DEF SendReport, ReportsType
  <2>3. QED
    BY <1>4, <2>2, TypedStill DEF SendReport, Typed
<1>5. ASSUME NEW c \in asks, GetStep(c)
      PROVE  Typed'
  <2>1. c.lease \in SUBSET Runs /\ c.step \in Steps /\ c.attempt \in Attempts
    BY <1>0, <1>5 DEF Ask, GetStep
  <2>2. worker' \in Worker
    BY <1>5, <2>1 DEF GetStep, Worker
  <2>3. NodeType' /\ AsksType'
    BY <1>0, <1>5, <2>1, <2>2 DEF GetStep, NodeType, AsksType
  <2>4. QED
    BY <1>5, <2>3, TypedStill DEF GetStep, Typed
<1>6. ASSUME NEW c \in reports, Reported(c)
      PROVE  Typed'
  <2>1. NodeType' /\ ReportsType'
    BY <1>0, <1>6 DEF Reported, Worker, NodeType, ReportsType
  <2>2. QED
    BY <1>6, <2>1, TypedStill DEF Reported, Typed
<1>7. CASE Exits
  <2>1. worker' \in Worker
    BY <1>0, <1>7, WorkerFields DEF Exits, Worker
  <2>2. /\ <<worker.step, worker.attempt>> \in Execution
        /\ [life |-> life, step |-> worker.step, attempt |-> worker.attempt] \in Exit
    BY <1>0, <1>7, WorkerFields DEF Exits, Execution, Exit
  <2>3. NodeType' /\ ExitsType' /\ HistType'
    BY <1>0, <1>7, <2>1, <2>2 DEF Exits, NodeType, ExitsType, HistType, Typed
  <2>4. QED
    BY <1>7, <2>3, TypedStill DEF Exits, Typed
<1>8. CASE SendBeat
  <2>1. [life |-> life, live |-> TRUE, at |-> "sent", list |-> {}] \in Beat
    BY <1>0 DEF Beat
  <2>2. BeatsType'
    BY <1>0, <1>8, <2>1 DEF SendBeat, BeatsType
  <2>3. QED
    BY <1>8, <2>2, TypedStill DEF SendBeat, Typed
<1>9. ASSUME NEW c \in beats, GetBeat(c)
       PROVE  Typed'
  <2>1. c.list \in SUBSET Runs
    BY <1>0 DEF Beat
  <2>2. NodeType' /\ BeatsType'
    BY <1>0, <1>9, <2>1 DEF GetBeat, HeldSet, NodeType, BeatsType
  <2>3. QED
    BY <1>9, <2>2, TypedStill DEF GetBeat, Typed
<1>10. QED
  BY <1>1, <1>2, <1>3, <1>4, <1>5, <1>6, <1>7, <1>8, <1>9 DEF Work, Advertise

\* A row that is rewritten in some of its columns is a row.
LEMMA RowTyped ==
    ASSUME row \in [Steps -> Row], NEW s \in Steps
    PROVE  /\ row[s] \in Row
           /\ row[s].state \in {"NONE", "PENDING", "CLAIMED", "DONE", "FAILED"}
           /\ row[s].inst \in 0..MaxLives /\ row[s].attempt \in Attempts
           /\ \A p \in {"none", "running", "finalizing"} : [row[s] EXCEPT !.phase = p] \in Row
           /\ \A st \in {"PENDING", "DONE", "FAILED"} : [row[s] EXCEPT !.state = st] \in Row
BY DEF Row

\* The Mediator's steps keep the types.
LEMMA MediatorTyped ==
    ASSUME Typed, Serve \/ Hear \/ Sweep \/ (\E e \in exits : MarkExited(e)) \/ (\E r \in Runs : Grant(r) \/ EndRun(r))
    PROVE  Typed'
<1>0. /\ life \in Lives /\ worker \in Worker /\ held \subseteq Runs
      /\ lease \in Runs \cup {NoRun} /\ late \in BOOLEAN /\ over \subseteq Runs /\ row \in [Steps -> Row]
      /\ asks \subseteq Ask /\ (\A c \in asks : c.at # "sent" => c.step \in Steps)
      /\ reports \subseteq Report /\ beats \subseteq Beat /\ exits \subseteq Exit
  BY DEF Typed, ServerType, NodeType, AsksType, ReportsType, BeatsType, ExitsType
<1>1. ASSUME NEW c \in Ask, NEW s \in Steps, NEW at \in {"found", "given"}
      PROVE  Answer(c, at, s) \in Ask /\ Answer(c, at, s).step = s
  <2>1. Alive \subseteq Runs
    BY <1>0 DEF Alive
  <2>2. row[s].attempt \in Attempts
    BY <1>0, RowTyped
  <2>3. QED
    BY <2>1, <2>2 DEF Answer, Ask
<1>2. ASSUME NEW c \in asks, Look(c)
      PROVE  Typed'
  <2>1. AsksType'
    BY <1>0, <1>1, <1>2 DEF Look, ToRedeliver, AsksType
  <2>2. QED
    BY <1>2, <2>1, TypedStill DEF Look, Typed
<1>3. ASSUME NEW c \in asks, Redeliver(c)
      PROVE  Typed'
  <2>1. c.step \in Steps /\ [row[c.step] EXCEPT !.phase = "running"] \in Row
    BY <1>0, <1>3, RowTyped DEF Redeliver
  <2>2. ServerType'
    BY <1>0, <1>3, <2>1 DEF Redeliver, ServerType
  <2>3. \A l \in Reread(c) : LET g == [c EXCEPT !.at = "given", !.lease = l] IN g \in Ask /\ g.step \in Steps
    BY <1>0, <2>1 DEF Ask, Reread, Alive
  <2>4. AsksType'
    BY <1>0, <1>3, <2>3 DEF Redeliver, Given, AsksType
  <2>5. QED
    BY <1>3, <2>2, <2>4, TypedStill DEF Redeliver, Typed
<1>4. ASSUME NEW c \in asks, Take(c)
      PROVE  Typed'
  <2>1. PICK s \in ToTake :
           /\ row' = [row EXCEPT ![s] = Claimed(@, c.life)]
           /\ asks' = Given(c, Answer(c, "given", s))
    BY <1>4 DEF Take
  <2>2. s \in Steps /\ c \in Ask /\ c.life \in Lives
    BY <1>0, <2>1 DEF ToTake, Ask
  <2>3. Claimed(row[s], c.life) \in Row
    <3>1. row[s] \in Row /\ c.life \in 0..MaxLives
      BY <1>0, <2>2, RowTyped, Bounds DEF Lives
    <3>2. QED
      BY <3>1 DEF Claimed, Row
  <2>4. ServerType'
    BY <1>0, <1>4, <2>1, <2>2, <2>3 DEF Take, ServerType
  <2>5. AsksType'
    BY <1>0, <1>1, <2>1, <2>2 DEF Given, AsksType
  <2>6. QED
    BY <1>4, <2>4, <2>5, TypedStill DEF Take, Typed
<1>5. ASSUME NEW c \in asks, LeaseWent(c)
      PROVE  Typed'
  <2>1. NodeType' /\ AsksType'
    BY <1>0, <1>5 DEF LeaseWent, NodeType, AsksType, Worker
  <2>2. QED
    BY <1>5, <2>1, TypedStill DEF LeaseWent, Typed
<1>6. ASSUME NEW c \in reports, ReportStep(c)
      PROVE  Typed'
  <2>1. c \in Report /\ c.step \in Steps /\ [c EXCEPT !.at = "answered"] \in Report
    BY <1>0 DEF Report
  <2>2. ReportsType'
    BY <1>0, <1>6, <2>1 DEF ReportStep, Answered, ReportsType
  <2>3. MayLoop(c) => Again(row[c.step]) \in Row
    <3>1. row[c.step] \in Row /\ row[c.step].attempt \in Attempts
      BY <1>0, <2>1, RowTyped
    <3>2. MayLoop(c) => row[c.step].attempt + 1 \in Attempts
      BY <3>1, Bounds DEF MayLoop, Attempts
    <3>3. QED
      BY <3>1, <3>2 DEF Again, Row
  <2>4. \A ok \in BOOLEAN : [row[c.step] EXCEPT !.state = IF ok THEN "DONE" ELSE "FAILED"] \in Row
    BY <1>0, <2>1, RowTyped
  <2>5. c.ok \in BOOLEAN
    BY <2>1 DEF Report
  <2>6. row' \in [Steps -> Row]
    BY <1>0, <1>6, <2>1, <2>3, <2>4, <2>5 DEF ReportStep
  <2>7. ServerType'
    BY <1>0, <1>6, <2>6 DEF ReportStep, ServerType
  <2>8. QED
    BY <1>6, <2>2, <2>7, TypedStill DEF ReportStep, Typed
<1>7. ASSUME NEW c \in beats, FailRestarted(c)
      PROVE  Typed'
  <2>1. \A s \in Steps : [row[s] EXCEPT !.state = "FAILED"] \in Row
    BY <1>0, RowTyped
  <2>2. ServerType'
    BY <1>0, <1>7, <2>1 DEF FailRestarted, ServerType
  <2>3. [c EXCEPT !.at = "failed"] \in Beat
    BY <1>0 DEF Beat
  <2>4. BeatsType'
    BY <1>0, <1>7, <2>3 DEF FailRestarted, BeatsType
  <2>5. QED
    BY <1>7, <2>2, <2>4, TypedStill DEF FailRestarted, Typed
<1>8. ASSUME NEW c \in beats, RenewLeases(c)
      PROVE  Typed'
  <2>1. [c EXCEPT !.at = "given", !.list = {lease} \ {NoRun}] \in Beat
    BY <1>0 DEF Beat
  <2>2. BeatsType' /\ ServerType'
    BY <1>0, <1>8, <2>1 DEF RenewLeases, BeatsType, ServerType
  <2>3. QED
    BY <1>8, <2>2, TypedStill DEF RenewLeases, Typed
<1>9. CASE Sweep
  <2>1. \A s \in Steps : [row[s] EXCEPT !.state = "FAILED"] \in Row
    BY <1>0, RowTyped
  <2>2. ServerType'
    BY <1>0, <1>9, <2>1 DEF Sweep, ServerType
  <2>3. QED
    BY <1>9, <2>2, TypedStill DEF Sweep, net, Typed
<1>10. ASSUME NEW e \in exits, MarkExited(e)
       PROVE  Typed'
  <2>1. e.step \in Steps /\ [row[e.step] EXCEPT !.phase = "finalizing"] \in Row
    BY <1>0, RowTyped DEF Exit
  <2>2. ServerType' /\ ExitsType'
    BY <1>0, <1>10, <2>1 DEF MarkExited, ServerType, ExitsType
  <2>3. QED
    BY <1>10, <2>2, TypedStill DEF MarkExited, Typed
<1>11. ASSUME NEW r \in Runs, Grant(r) \/ EndRun(r)
       PROVE  Typed'
  <2>1. \A s \in Steps : \A st \in {"PENDING", "FAILED"} : [row[s] EXCEPT !.state = st] \in Row
    BY <1>0, RowTyped
  <2>2. row' \in [Steps -> Row]
    BY <1>0, <1>11, <2>1 DEF Grant, EndRun, Closed
  <2>3. ServerType'
    BY <1>0, <1>11, <2>2 DEF Grant, EndRun, ServerType
  <2>4. QED
    BY <1>11, <2>3, TypedStill DEF Grant, EndRun, net, Typed
<1>12. QED
  BY <1>2, <1>3, <1>4, <1>5, <1>6, <1>7, <1>8, <1>9, <1>10, <1>11 DEF Serve, Hear

\* Losses, expiry and restarts keep the types.
LEMMA LossTyped ==
    ASSUME Typed, ReportsOfWorker, Lose
    PROVE  Typed'
<1>0. /\ life \in Lives /\ worker \in Worker /\ held \subseteq Runs
      /\ lease \in Runs \cup {NoRun} /\ late \in BOOLEAN /\ over \subseteq Runs
      /\ asks \subseteq Ask /\ (\A c \in asks : c.at # "sent" => c.step \in Steps)
      /\ reports \subseteq Report /\ beats \subseteq Beat
  BY DEF Typed, ServerType, NodeType, AsksType, ReportsType, BeatsType
<1>1. /\ \A c \in asks : Orphan(c) \in Ask /\ Orphan(c).at = c.at /\ Orphan(c).step = c.step
      /\ \A c \in reports : Orphan(c) \in Report
      /\ \A c \in beats : Orphan(c) \in Beat
  <2>1. \A c \in Ask : Orphan(c) \in Ask /\ Orphan(c).at = c.at /\ Orphan(c).step = c.step
    BY DEF Orphan, Ask
  <2>2. \A c \in Report : Orphan(c) \in Report
    BY DEF Orphan, Report
  <2>3. \A c \in Beat : Orphan(c) \in Beat
    BY DEF Orphan, Beat
  <2>4. QED
    BY <1>0, <2>1, <2>2, <2>3
<1>2. ASSUME NEW c \in asks, EndAsk(c)
      PROVE  Typed'
  <2>1. NodeType' /\ AsksType'
    BY <1>0, <1>1, <1>2 DEF EndAsk, Abandon, NodeType, AsksType, Worker
  <2>2. QED
    BY <1>2, <2>1, TypedStill DEF EndAsk, Typed
<1>3. ASSUME NEW c \in reports, LoseReport(c) \/ ReportErrs(c)
      PROVE  Typed'
  <2>1. <<worker.step, worker.attempt>> \in Execution
    BY <1>0, <1>3, WorkerFields DEF LoseReport, ReportErrs, ReportsOfWorker, Execution
  <2>2. [c EXCEPT !.at = "answered"] \in Report
    BY <1>0 DEF Report
  <2>3. NodeType'
    BY <1>0, <1>3 DEF LoseReport, ReportErrs, node, NodeType, Worker
  <2>4. ReportsType'
    BY <1>0, <1>1, <1>3, <2>2 DEF LoseReport, ReportErrs, Abandon, Answered, ReportsType
  <2>5. HistType'
    BY <1>3, <2>1 DEF LoseReport, ReportErrs, Dropped, HistType, Typed
  <2>6. QED
    BY <1>3, <2>3, <2>4, <2>5, TypedStill DEF LoseReport, ReportErrs, Typed
<1>4. ASSUME NEW c \in beats, LoseBeat(c)
      PROVE  Typed'
  <2>1. BeatsType'
    BY <1>0, <1>1, <1>4 DEF LoseBeat, Abandon, BeatsType
  <2>2. QED
    BY <1>4, <2>1, TypedStill DEF LoseBeat, Typed
<1>5. CASE LeaseExpires
  <2>1. /\ \A c \in Ask : [c EXCEPT !.lease = @ \ {lease}] \in Ask
        /\ \A c \in Ask : [c EXCEPT !.lease = @ \ {lease}].at = c.at /\ [c EXCEPT !.lease = @ \ {lease}].step = c.step
    BY DEF Ask
  <2>2. AsksType'
    BY <1>0, <1>5, <2>1 DEF LeaseExpires, AsksType
  <2>3. \A c \in Beat : [c EXCEPT !.list = @ \ {lease}] \in Beat
    BY DEF Beat
  <2>4. BeatsType'
    BY <1>0, <1>5, <2>3 DEF LeaseExpires, BeatsType
  <2>5. NodeType'
    BY <1>0, <1>5 DEF LeaseExpires, NodeType
  <2>6. ServerType'
    BY <1>5 DEF LeaseExpires, ServerType, Typed
  <2>7. QED
    BY <1>5, <2>2, <2>4, <2>5, <2>6, TypedStill DEF LeaseExpires, Typed
<1>6. CASE Forget
  <2>1. NodeType'
    BY <1>0, <1>6 DEF Forget, NodeType
  <2>2. QED
    BY <1>6, <2>1, TypedStill DEF Forget, net, Typed
<1>7. CASE Vanish
  <2>1. AsksType' /\ ReportsType' /\ BeatsType'
    BY <1>0, <1>7 DEF Vanish, AsksType, ReportsType, BeatsType
  <2>2. QED
    BY <1>7, <2>1, TypedStill DEF Vanish, Typed
<1>8. CASE RestartNode
  <2>1. AsksType'
    BY <1>0, <1>1, <1>8 DEF RestartNode, AsksType
  <2>2. ReportsType' /\ BeatsType'
    BY <1>0, <1>1, <1>8 DEF RestartNode, ReportsType, BeatsType
  <2>3. NodeType'
    BY <1>0, <1>8, Bounds DEF RestartNode, NodeType, Worker, Lives
  <2>4. QED
    BY <1>8, <2>1, <2>2, <2>3, TypedStill DEF RestartNode, Typed
<1>9. QED
  BY <1>2, <1>3, <1>4, <1>5, <1>6, <1>7, <1>8 DEF Lose

-----------------------------------------------------------------------------
(* How the rows move.                                                      *)

\* What a step may do to row s, short of claiming it.
RowStays(s) == row'[s].state = row[s].state /\ row'[s].attempt = row[s].attempt /\ row'[s].inst = row[s].inst
RowCloses(s) ==
    /\ row[s].state \in Open /\ row'[s].state \in {"DONE", "FAILED"}
    /\ row'[s].attempt = row[s].attempt /\ row'[s].inst = row[s].inst
RowOpens(s) ==
    /\ row[s].state = "NONE" /\ row'[s].state = "PENDING" /\ RunOf[s] = lease'
    /\ row'[s].attempt = row[s].attempt /\ row'[s].inst = row[s].inst
RowLoops(s) ==
    /\ row[s].state = "CLAIMED" /\ row'[s].state = "PENDING"
    /\ row'[s].attempt = row[s].attempt + 1 /\ row'[s].inst = row[s].inst

RowsMove == \A s \in Steps : RowStays(s) \/ RowCloses(s) \/ RowOpens(s) \/ RowLoops(s)
\* No row is said to finalize that was not.
NoneFinalizes ==
    \A s \in Steps : row'[s].phase = "finalizing" =>
        row[s].phase = "finalizing" /\ row'[s].attempt = row[s].attempt /\ row'[s].inst = row[s].inst

LEMMA RowsStill == row' = row => RowsMove /\ NoneFinalizes
BY DEF RowsMove, RowStays, NoneFinalizes

\* Giving a step again moves no row.
LEMMA RedeliverMoves ==
    ASSUME Typed, NEW c \in asks, Redeliver(c)
    PROVE  RowsMove /\ NoneFinalizes
<1>1. row \in [Steps -> Row] /\ c.step \in Steps
  BY DEF Typed, ServerType, AsksType, Redeliver
<1>2. \A s \in Steps : /\ row'[s].state = row[s].state /\ row'[s].attempt = row[s].attempt /\ row'[s].inst = row[s].inst
                       /\ row'[s].phase = row[s].phase \/ row'[s].phase = "running"
  BY <1>1 DEF Redeliver, Row
<1>3. QED
  BY <1>2 DEF RowsMove, RowStays, NoneFinalizes

LEMMA ReportMoves ==
    ASSUME Typed, NEW c \in reports, ReportStep(c)
    PROVE  RowsMove /\ NoneFinalizes
<1>1. row \in [Steps -> Row] /\ c.step \in Steps
  BY DEF Typed, ServerType, ReportsType, Report
<1>2. CASE row[c.step].state = "CLAIMED" /\ \E done \in BOOLEAN : row' = [row EXCEPT ![c.step].state = IF done THEN "DONE" ELSE "FAILED"]
  <2>1. \A s \in Steps : /\ row'[s].attempt = row[s].attempt /\ row'[s].inst = row[s].inst /\ row'[s].phase = row[s].phase
                         /\ row'[s].state = row[s].state \/ (s = c.step /\ row'[s].state \in {"DONE", "FAILED"})
    BY <1>1, <1>2 DEF Row
  <2>2. QED
    BY <1>2, <2>1 DEF RowsMove, RowStays, RowCloses, NoneFinalizes, Open
<1>3. CASE row[c.step].state = "CLAIMED" /\ row' = [row EXCEPT ![c.step] = Again(@)]
  <2>1. \A s \in Steps : s # c.step => row'[s] = row[s]
    BY <1>1, <1>3
  <2>2. row'[c.step] = Again(row[c.step]) /\ row[c.step] \in Row
    BY <1>1, <1>3
  <2>3. /\ row'[c.step].state = "PENDING" /\ row'[c.step].attempt = row[c.step].attempt + 1
        /\ row'[c.step].inst = row[c.step].inst /\ row'[c.step].phase = "none"
    BY <2>2 DEF Again, Row
  <2>4. QED
    BY <1>3, <2>1, <2>3 DEF RowsMove, RowStays, RowLoops, NoneFinalizes
<1>4. QED
  BY <1>1, <1>2, <1>3, RowsStill DEF ReportStep

LEMMA MarkMoves ==
    ASSUME Typed, NEW e \in exits, MarkExited(e)
    PROVE  RowsMove
<1>1. row \in [Steps -> Row] /\ e.step \in Steps
  BY DEF Typed, ServerType, ExitsType, Exit
<1>2. \A s \in Steps : row'[s].state = row[s].state /\ row'[s].attempt = row[s].attempt /\ row'[s].inst = row[s].inst
  BY <1>1 DEF MarkExited, Row
<1>3. QED
  BY <1>2 DEF RowsMove, RowStays

\* Rows that some step marks as failed, and no others, are closed.
LEMMA FailingMoves ==
    ASSUME Typed, NEW F \in SUBSET Steps, \A s \in F : row[s].state \in Open,
           row' = [s \in Steps |-> IF s \in F THEN [row[s] EXCEPT !.state = "FAILED"] ELSE row[s]]
    PROVE  RowsMove /\ NoneFinalizes
<1>1. \A s \in Steps : row[s] \in Row
  BY DEF Typed, ServerType
<1>2. \A s \in Steps : /\ row'[s].attempt = row[s].attempt /\ row'[s].inst = row[s].inst /\ row'[s].phase = row[s].phase
                       /\ row'[s].state = IF s \in F THEN "FAILED" ELSE row[s].state
  BY <1>1 DEF Row
<1>3. QED
  BY <1>2 DEF RowsMove, RowStays, RowCloses, NoneFinalizes

LEMMA ClosingMoves ==
    ASSUME Typed
    PROVE  /\ \A c \in beats : FailRestarted(c) => RowsMove /\ NoneFinalizes
           /\ \A r \in Runs : EndRun(r) => RowsMove /\ NoneFinalizes
           /\ Sweep => RowsMove /\ NoneFinalizes
<1>1. ASSUME NEW c \in beats, FailRestarted(c)
      PROVE  RowsMove /\ NoneFinalizes
  <2>1. \A s \in Strangers(c.life) : s \in Steps /\ row[s].state \in Open
    BY DEF Strangers, Open
  <2>2. QED
    BY <1>1, <2>1, FailingMoves DEF FailRestarted
<1>2. ASSUME NEW r \in Runs, EndRun(r)
      PROVE  RowsMove /\ NoneFinalizes
  <2> DEFINE F == {s \in Steps : RunOf[s] = r /\ row[s].state \in Open}
  <2>1. Closed(r) = [s \in Steps |-> IF s \in F THEN [row[s] EXCEPT !.state = "FAILED"] ELSE row[s]]
    BY DEF Closed
  <2>2. F \in SUBSET Steps /\ \A s \in F : row[s].state \in Open
    OBVIOUS
  <2>3. CASE row' = Closed(r)
    <3> HIDE DEF F
    <3>1. QED
      BY <2>1, <2>2, <2>3, FailingMoves
  <2>4. QED
    BY <1>2, <2>3, RowsStill DEF EndRun
<1>3. ASSUME Sweep
      PROVE  RowsMove /\ NoneFinalizes
  <2> DEFINE F == {s \in Steps : RunOf[s] \in over /\ row[s].state \in Open}
  <2>1. row' = [s \in Steps |-> IF s \in F THEN [row[s] EXCEPT !.state = "FAILED"] ELSE row[s]]
    BY <1>3 DEF Sweep
  <2>2. F \in SUBSET Steps /\ \A s \in F : row[s].state \in Open
    OBVIOUS
  <2> HIDE DEF F
  <2>3. QED
    BY <2>1, <2>2, FailingMoves
<1>4. QED
  BY <1>1, <1>2, <1>3

\* A Run that gets the node has no rows yet.
LEMMA GrantMoves ==
    ASSUME Typed, RowsInTime, NEW r \in Runs, Grant(r)
    PROVE  RowsMove /\ NoneFinalizes
<1>1. \A s \in Steps : row[s] \in Row
  BY DEF Typed, ServerType
<1>2. \A s \in Steps : RunOf[s] = r => row[s].state = "NONE"
  BY Sentinels DEF RowsInTime, Grant
<1>3. \A s \in Steps : /\ row'[s].attempt = row[s].attempt /\ row'[s].inst = row[s].inst /\ row'[s].phase = row[s].phase
                       /\ row'[s].state = IF RunOf[s] = r THEN "PENDING" ELSE row[s].state
  BY <1>1 DEF Grant, Row
<1>4. lease' = r
  BY DEF Grant
<1>5. QED
  BY <1>2, <1>3, <1>4 DEF RowsMove, RowStays, RowOpens, NoneFinalizes

\* A claim takes a pending row as it is, for the life that asks.
LEMMA TakeMoves ==
    ASSUME Typed, NEW c \in asks, Take(c)
    PROVE  \E s \in Steps :
             /\ row[s].state = "PENDING" /\ RunOf[s] = lease
             /\ row'[s].state = "CLAIMED" /\ row'[s].inst = c.life /\ row'[s].attempt = row[s].attempt /\ row'[s].phase = "running"
             /\ \A t \in Steps \ {s} : row'[t] = row[t]
             /\ asks' = Given(c, Answer(c, "given", s))
<1>1. PICK s \in ToTake :
           /\ row' = [row EXCEPT ![s] = Claimed(@, c.life)]
           /\ asks' = Given(c, Answer(c, "given", s))
  BY DEF Take
<1>2. s \in Steps /\ row[s].state = "PENDING" /\ RunOf[s] = lease /\ row[s] \in Row
  BY <1>1 DEF ToTake, Typed, ServerType
<1>3. row'[s] = Claimed(row[s], c.life) /\ \A t \in Steps \ {s} : row'[t] = row[t]
  BY <1>1, <1>2 DEF Typed, ServerType
<1>4. row'[s].state = "CLAIMED" /\ row'[s].inst = c.life /\ row'[s].attempt = row[s].attempt /\ row'[s].phase = "running"
  BY <1>2, <1>3 DEF Claimed, Row
<1>5. QED
  BY <1>1, <1>2, <1>3, <1>4

-----------------------------------------------------------------------------
(* How ties move.                                                          *)

\* Whoever names an attempt after the step, it was tied to that life before.
TiesMove ==
    \A s \in Steps, a \in Attempts, l \in LivesAndNone :
        (TiedByAsk(s, a, l) \/ TiedByWorker(s, a, l) \/ TiedByHistory(s, a, l))' => Tied(s, a, l)

LEMMA TiesKept ==
    ASSUME Typed, Ties, RowsMove, TiesMove
    PROVE  Ties'
<1>0. \A s \in Steps : row[s].attempt \in Nat
  BY DEF Typed, ServerType, Row, Attempts
<1>1. ASSUME NEW s \in Steps, NEW a \in Attempts, NEW l \in LivesAndNone, Tied(s, a, l)'
      PROVE  \/ Tied(s, a, l)
             \/ row[s].attempt = a /\ row[s].state \in Beginning /\ row'[s].inst = l
  <2>1. CASE TiedByRow(s, a, l)'
    BY <2>1, <1>0 DEF TiedByRow, Tied, RowsMove, RowStays, RowCloses, RowOpens, RowLoops, Beginning
  <2>2. QED
    BY <1>1, <2>1 DEF Tied, TiesMove
<1>2. ASSUME NEW s \in Steps, NEW a \in Attempts, a < row[s].attempt \/ (a = row[s].attempt /\ row[s].state \notin Beginning)
      PROVE  a < row'[s].attempt \/ (a = row'[s].attempt /\ row'[s].state \notin Beginning)
  BY <1>0, <1>2 DEF RowsMove, RowStays, RowCloses, RowOpens, RowLoops, Beginning, Attempts
<1>3. ASSUME NEW s \in Steps, NEW a \in Attempts, NEW l \in LivesAndNone, Tied(s, a, l)
      PROVE  ~(row[s].attempt = a /\ row[s].state \in Beginning)
  BY <1>0, <1>3 DEF Ties, TiedIsClaimed
<1>4. OneLife'
  <2> SUFFICES ASSUME NEW s \in Steps, NEW a \in Attempts, NEW l \in LivesAndNone, NEW m \in LivesAndNone,
                      Tied(s, a, l)', Tied(s, a, m)'
               PROVE  l = m
    BY DEF OneLife
  <2>1. CASE Tied(s, a, l) /\ Tied(s, a, m)
    BY <2>1 DEF Ties, OneLife
  <2>2. CASE ~(Tied(s, a, l) /\ Tied(s, a, m))
    BY <2>2, <1>1, <1>3
  <2>3. QED
    BY <2>1, <2>2
<1>5. TiedIsClaimed'
  <2> SUFFICES ASSUME NEW s \in Steps, NEW a \in Attempts, NEW l \in LivesAndNone, Tied(s, a, l)'
               PROVE  a < row'[s].attempt \/ (a = row'[s].attempt /\ row'[s].state \notin Beginning)
    BY DEF TiedIsClaimed
  <2>1. CASE Tied(s, a, l)
    BY <2>1, <1>2 DEF Ties, TiedIsClaimed
  <2>2. CASE ~Tied(s, a, l)
    <3>1. TiedByRow(s, a, l)'
      BY <2>2 DEF TiesMove, Tied
    <3>2. QED
      BY <3>1 DEF TiedByRow
  <2>3. QED
    BY <2>1, <2>2
<1>6. QED
  BY <1>4, <1>5 DEF Ties

\* Ties by the calls and the Worker follow from where these come from.
LEMMA TiesByAsk ==
    ASSUME \A d \in asks' : d.at # "sent" =>
                \E c \in asks : c.at # "sent" /\ c.step = d.step /\ c.attempt = d.attempt /\ c.life = d.life,
           NEW s, NEW a, NEW l, TiedByAsk(s, a, l)'
    PROVE  Tied(s, a, l)
BY DEF TiedByAsk, Tied

\* The Worker's and the Advertiser's steps tie nothing new.
LEMMA NodeTies ==
    ASSUME Typed, AsksOfWorker, Work \/ Exits \/ Advertise
    PROVE  TiesMove
<1>0. worker \in Worker
  BY DEF Typed, NodeType
<1> SUFFICES ASSUME NEW s \in Steps, NEW a \in Attempts, NEW l \in LivesAndNone
             PROVE  (TiedByAsk(s, a, l) \/ TiedByWorker(s, a, l) \/ TiedByHistory(s, a, l))' => Tied(s, a, l)
  BY DEF TiesMove
<1>1. CASE AskClaim
  <2> DEFINE new == [life |-> life, live |-> TRUE, at |-> "sent", step |-> NoStep, attempt |-> 0, lease |-> {}]
  <2>1. asks' = asks \cup {new} /\ new.at = "sent" /\ worker'.pc = "asking" /\ UNCHANGED <<life, began>>
    BY <1>1 DEF AskClaim, WithoutStep, hist
  <2> HIDE DEF new
  <2>2. QED
    BY <2>1 DEF TiedByAsk, TiedByWorker, TiedByHistory, Tied
<1>2. CASE Begin
  BY <1>0, <1>2 DEF Begin, net, Idle, WithoutStep, Worker, TiedByAsk, TiedByWorker, TiedByHistory, Tied
<1>3. CASE Refuse \/ Abort \/ Finalize
  BY <1>0, <1>3 DEF Refuse, Abort, Finalize, net, hist, Idle, WithoutStep, Worker, TiedByAsk, TiedByWorker, TiedByHistory, Tied
<1>4. CASE SendReport
  BY <1>4 DEF SendReport, node, hist, TiedByAsk, TiedByWorker, TiedByHistory, Tied
<1>5. ASSUME NEW c \in asks, GetStep(c)
      PROVE  (TiedByAsk(s, a, l) \/ TiedByWorker(s, a, l) \/ TiedByHistory(s, a, l))' => Tied(s, a, l)
  <2>1. c.life = life
    BY <1>5 DEF GetStep, AsksOfWorker
  <2>2. QED
    BY <1>5, <2>1 DEF GetStep, hist, TiedByAsk, TiedByWorker, TiedByHistory, Tied
<1>6. ASSUME NEW c \in reports, Reported(c)
      PROVE  (TiedByAsk(s, a, l) \/ TiedByWorker(s, a, l) \/ TiedByHistory(s, a, l))' => Tied(s, a, l)
  BY <1>6 DEF Reported, hist, Idle, WithoutStep, TiedByAsk, TiedByWorker, TiedByHistory, Tied
<1>7. CASE Exits
  BY <1>0, <1>7 DEF Exits, Idle, WithoutStep, Worker, TiedByAsk, TiedByWorker, TiedByHistory, Tied
<1>8. CASE Advertise
  BY <1>8 DEF Advertise, SendBeat, GetBeat, node, hist, TiedByAsk, TiedByWorker, TiedByHistory, Tied
<1>9. QED
  BY <1>1, <1>2, <1>3, <1>4, <1>5, <1>6, <1>7, <1>8 DEF Work

LEMMA LossTies ==
    ASSUME Typed, Lose
    PROVE  TiesMove
<1>0. worker \in Worker /\ asks \subseteq Ask
  BY DEF Typed, NodeType, AsksType
<1>1. \A c \in asks : Orphan(c).at = c.at /\ Orphan(c).step = c.step /\ Orphan(c).attempt = c.attempt /\ Orphan(c).life = c.life
  BY <1>0 DEF Orphan, Ask
<1>2. \A d \in asks' : d.at # "sent" =>
                \E c \in asks : c.at # "sent" /\ c.step = d.step /\ c.attempt = d.attempt /\ c.life = d.life
  <2>1. ASSUME NEW c \in asks, EndAsk(c)
        PROVE  asks' \subseteq asks \cup {Orphan(d) : d \in asks}
    BY <2>1 DEF EndAsk, Abandon
  <2>2. ASSUME RestartNode
        PROVE  asks' \subseteq asks \cup {Orphan(d) : d \in asks}
    BY <2>2 DEF RestartNode
  <2>3. ASSUME Vanish \/ Forget \/ (\E c \in reports : LoseReport(c) \/ ReportErrs(c)) \/ (\E c \in beats : LoseBeat(c))
        PROVE  asks' \subseteq asks \cup {Orphan(d) : d \in asks}
    BY <2>3 DEF Vanish, Forget, net, LoseReport, ReportErrs, LoseBeat
  <2>4. ASSUME asks' \subseteq asks \cup {Orphan(d) : d \in asks}
        PROVE  \A d \in asks' : d.at # "sent" =>
                  \E c \in asks : c.at # "sent" /\ c.step = d.step /\ c.attempt = d.attempt /\ c.life = d.life
    BY <1>1, <2>4
  <2>5. CASE LeaseExpires
    <3>1. asks' = asks \/ asks' = {[c EXCEPT !.lease = @ \ {lease}] : c \in asks}
      BY <2>5 DEF LeaseExpires
    <3>2. ASSUME NEW c \in asks, NEW d, d = [c EXCEPT !.lease = @ \ {lease}]
          PROVE  d.at = c.at /\ d.step = c.step /\ d.attempt = c.attempt /\ d.life = c.life
      BY <1>0, <3>2 DEF Ask
    <3>3. QED
      BY <3>1, <3>2
  <2>6. QED
    BY <2>1, <2>2, <2>3, <2>4, <2>5 DEF Lose
<1>3. began' = began
  BY DEF Lose, EndAsk, LoseReport, ReportErrs, LoseBeat, LeaseExpires, Forget, Vanish, RestartNode, hist
<1>4. worker'.pc \in {"idle", "asking"} \/ (worker' = worker /\ life' = life)
  BY DEF Lose, EndAsk, LoseReport, ReportErrs, LoseBeat, LeaseExpires, Forget, Vanish, RestartNode, node, Idle, WithoutStep
<1>5. QED
  BY <1>2, <1>3, <1>4, TiesByAsk DEF TiesMove, TiedByWorker, TiedByHistory, Tied

\* The Mediator's steps tie nothing new either, but for a claim.
LEMMA MediatorTies ==
    ASSUME Typed, Hear \/ Sweep \/ (\E e \in exits : MarkExited(e)) \/ (\E r \in Runs : Grant(r) \/ EndRun(r))
                  \/ (\E c \in asks : Redeliver(c) \/ LeaseWent(c) \/ Look(c)) \/ (\E c \in reports : ReportStep(c))
    PROVE  TiesMove
<1>0. asks \subseteq Ask /\ row \in [Steps -> Row]
  BY DEF Typed, AsksType, ServerType
<1>1. CASE Hear \/ Sweep \/ (\E e \in exits : MarkExited(e)) \/ (\E r \in Runs : Grant(r) \/ EndRun(r)) \/ (\E c \in reports : ReportStep(c))
  <2>1. UNCHANGED <<asks, worker, life, began>>
    BY <1>1 DEF Hear, FailRestarted, RenewLeases, Sweep, MarkExited, Grant, EndRun, ReportStep, node, net, hist
  <2>2. QED
    BY <2>1 DEF TiesMove, TiedByAsk, TiedByWorker, TiedByHistory, Tied
<1>2. ASSUME NEW c \in asks, Redeliver(c)
      PROVE  TiesMove
  <2>0. PICK l \in Reread(c) : asks' = Given(c, [c EXCEPT !.at = "given", !.lease = l])
    BY <1>2 DEF Redeliver
  <2> DEFINE g == [c EXCEPT !.at = "given", !.lease = l]
  <2>1. g.step = c.step /\ g.attempt = c.attempt /\ g.life = c.life /\ c.at # "sent"
    BY <1>0, <1>2 DEF Redeliver, Ask
  <2>2. asks' \subseteq asks \cup {g} /\ UNCHANGED <<worker, life, began>>
    BY <1>2, <2>0 DEF Redeliver, Given, node, hist
  <2> HIDE DEF g
  <2>3. \A d \in asks' : d.at # "sent" =>
                \E e \in asks : e.at # "sent" /\ e.step = d.step /\ e.attempt = d.attempt /\ e.life = d.life
    BY <2>1, <2>2
  <2>4. QED
    BY <2>2, <2>3, TiesByAsk DEF TiesMove, TiedByWorker, TiedByHistory, Tied
<1>3. ASSUME NEW c \in asks, LeaseWent(c)
      PROVE  TiesMove
  <2>1. /\ asks' \subseteq asks /\ UNCHANGED <<life, began>>
        /\ worker' = worker \/ worker'.pc = "idle"
    BY <1>3 DEF LeaseWent, hist, Idle, WithoutStep
  <2>2. QED
    BY <2>1 DEF TiesMove, TiedByAsk, TiedByWorker, TiedByHistory, Tied
<1>4. ASSUME NEW c \in asks, Look(c)
      PROVE  TiesMove
  <2>1. PICK s \in ToRedeliver(c) : asks' = (asks \ {c}) \cup {Answer(c, "found", s)}
    BY <1>4 DEF Look
  <2>2. s \in Steps /\ row[s].state = "CLAIMED" /\ row[s].inst = c.life
    BY <2>1 DEF ToRedeliver
  <2> DEFINE g == Answer(c, "found", s)
  <2>3. g.step = s /\ g.attempt = row[s].attempt /\ g.life = c.life
    BY <1>0 DEF Answer, Ask
  <2>4. asks' \subseteq asks \cup {g} /\ UNCHANGED <<worker, life, began>>
    BY <1>4, <2>1 DEF Look, node, hist
  <2> HIDE DEF g
  <2>5. \A t, a, l : TiedByAsk(t, a, l)' => TiedByAsk(t, a, l) \/ TiedByRow(t, a, l)
    BY <2>2, <2>3, <2>4 DEF TiedByAsk, TiedByRow, Beginning
  <2>6. QED
    BY <2>4, <2>5 DEF TiesMove, TiedByWorker, TiedByHistory, Tied
<1>5. QED
  BY <1>1, <1>2, <1>3, <1>4

\* A claim ties the row's attempt, which nothing was tied to, to the life that asks.
LEMMA TakeTies ==
    ASSUME Typed, Ties, NEW c \in asks, Take(c)
    PROVE  Ties'
<1>0. asks \subseteq Ask /\ row \in [Steps -> Row] /\ c \in Ask /\ UNCHANGED <<worker, life, began>>
  BY DEF Typed, AsksType, ServerType, Take, node, hist
<1>1. PICK s \in Steps :
             /\ row[s].state = "PENDING" /\ RunOf[s] = lease
             /\ row'[s].state = "CLAIMED" /\ row'[s].inst = c.life /\ row'[s].attempt = row[s].attempt /\ row'[s].phase = "running"
             /\ \A t \in Steps \ {s} : row'[t] = row[t]
             /\ asks' = Given(c, Answer(c, "given", s))
  BY TakeMoves
<1>2. row[s].attempt \in Attempts /\ \A t \in Steps : row[t].attempt \in Nat
  BY <1>0 DEF Row, Attempts
<1>3. Answer(c, "given", s).step = s /\ Answer(c, "given", s).attempt = row[s].attempt /\ Answer(c, "given", s).life = c.life
  BY <1>0 DEF Answer, Ask
<1>4. asks' \subseteq asks \cup {Answer(c, "given", s)}
  BY <1>1 DEF Given
<1>5. ASSUME NEW t \in Steps, NEW a \in Attempts, NEW l \in LivesAndNone, Tied(t, a, l)'
      PROVE  Tied(t, a, l) \/ (t = s /\ a = row[s].attempt /\ l = c.life)
  <2>1. TiedByAsk(t, a, l)' => TiedByAsk(t, a, l) \/ (t = s /\ a = row[s].attempt /\ l = c.life)
    BY <1>3, <1>4 DEF TiedByAsk
  <2>2. TiedByRow(t, a, l)' => TiedByRow(t, a, l) \/ (t = s /\ a = row[s].attempt /\ l = c.life)
    BY <1>1 DEF TiedByRow
  <2>3. QED
    BY <1>0, <1>5, <2>1, <2>2 DEF TiedByWorker, TiedByHistory, Tied
<1>6. ASSUME NEW t \in Steps, NEW a \in Attempts, NEW l \in LivesAndNone, Tied(t, a, l)
      PROVE  /\ ~(t = s /\ a = row[s].attempt)
             /\ a < row'[t].attempt \/ (a = row'[t].attempt /\ row'[t].state \notin Beginning)
  BY <1>1, <1>2, <1>6 DEF Ties, TiedIsClaimed, Beginning
<1>7. OneLife'
  BY <1>5, <1>6 DEF Ties, OneLife
<1>8. TiedIsClaimed'
  BY <1>1, <1>5, <1>6 DEF TiedIsClaimed, Beginning
<1>9. QED
  BY <1>7, <1>8 DEF Ties

-----------------------------------------------------------------------------
(* The Worker's calls.                                                     *)

LEMMA RowsInTimeKept ==
    ASSUME Typed, RowsInTime, RowsMove, life' \in Lives, life' >= life, over \cup {lease} \subseteq over' \cup {lease', NoRun}
    PROVE  RowsInTime'
<1>1. /\ life \in Nat /\ life' \in Nat /\ \A s \in Steps : row[s].inst \in Nat /\ RunOf[s] # NoRun
  BY Sentinels, StepsType DEF Typed, NodeType, ServerType, Row, Lives
<1>2. QED
  BY <1>1 DEF RowsInTime, RowsMove, RowStays, RowCloses, RowOpens, RowLoops, Open

\* The Worker's claim and report are dealt with as follows by its own steps.
LEMMA NodeCalls ==
    ASSUME Typed, Calls, Work \/ Exits \/ Advertise
    PROVE  Calls'
<1>0. /\ worker \in Worker /\ life \in Lives /\ life >= life
      /\ AsksOfWorker /\ ReportsOfWorker
  BY DEF Typed, NodeType, Calls, Lives
<1>1. RowsInTime'
  <2>1. UNCHANGED <<lease, over, row, life>>
    BY DEF Work, Advertise, AskClaim, Begin, Refuse, Abort, Exits, Finalize, SendReport, GetStep, Reported, SendBeat, GetBeat, server, node
  <2>2. QED
    BY <1>0, <2>1, RowsStill, RowsInTimeKept DEF Calls
<1>2. CASE AskClaim
  <2> DEFINE new == [life |-> life, live |-> TRUE, at |-> "sent", step |-> NoStep, attempt |-> 0, lease |-> {}]
  <2>1. new.life = life /\ new.at = "sent"
    OBVIOUS
  <2>2. asks' = asks \cup {new} /\ worker.pc = "idle" /\ worker'.pc = "asking" /\ UNCHANGED <<life, reports>>
    BY <1>2 DEF AskClaim, Idle, WithoutStep
  <2> HIDE DEF new
  <2>3. AsksOfWorker'
    BY <1>0, <2>1, <2>2 DEF AsksOfWorker, Lives
  <2>4. ReportsOfWorker'
    BY <1>0, <2>2 DEF ReportsOfWorker
  <2>5. QED
    BY <1>1, <2>3, <2>4 DEF Calls
<1>3. CASE Begin \/ Refuse \/ Abort \/ Exits \/ Finalize
  <2>1. worker.pc \in {"starting", "running", "exited"} /\ UNCHANGED <<life, asks, reports>>
    BY <1>3 DEF Begin, Refuse, Abort, Exits, Finalize, net
  <2>2. AsksOfWorker'
    BY <1>0, <2>1 DEF AsksOfWorker
  <2>3. ReportsOfWorker'
    BY <1>0, <2>1 DEF ReportsOfWorker
  <2>4. QED
    BY <1>1, <2>2, <2>3 DEF Calls
<1>4. CASE SendReport
  <2> DEFINE new == [live |-> TRUE, at |-> "sent", step |-> worker.step, attempt |-> worker.attempt, ok |-> worker.ok]
  <2>1. new.step = worker.step /\ new.attempt = worker.attempt
    OBVIOUS
  <2>2. /\ reports' = reports \cup {new} /\ worker.pc = "reporting" /\ (\A c \in reports : ~c.live)
        /\ UNCHANGED <<life, asks, worker>>
    BY <1>4 DEF SendReport, node
  <2> HIDE DEF new
  <2>3. AsksOfWorker'
    BY <1>0, <2>2 DEF AsksOfWorker
  <2>4. ReportsOfWorker'
    BY <2>1, <2>2 DEF ReportsOfWorker
  <2>5. QED
    BY <1>1, <2>3, <2>4 DEF Calls
<1>5. ASSUME NEW c \in asks, GetStep(c)
      PROVE  Calls'
  <2>1. /\ asks' = asks \ {c} /\ (\A d \in asks' : ~d.live) /\ worker.pc = "asking"
        /\ UNCHANGED <<life, reports>>
    BY <1>0, <1>5 DEF GetStep, AsksOfWorker
  <2>2. AsksOfWorker'
    BY <1>0, <2>1 DEF AsksOfWorker
  <2>3. ReportsOfWorker'
    BY <1>0, <2>1 DEF ReportsOfWorker
  <2>4. QED
    BY <1>1, <2>2, <2>3 DEF Calls
<1>6. ASSUME NEW c \in reports, Reported(c)
      PROVE  Calls'
  <2>1. /\ reports' = reports \ {c} /\ (\A d \in reports' : ~d.live) /\ worker.pc = "reporting"
        /\ UNCHANGED <<life, asks>>
    BY <1>0, <1>6 DEF Reported, ReportsOfWorker
  <2>2. AsksOfWorker'
    BY <1>0, <2>1 DEF AsksOfWorker
  <2>3. ReportsOfWorker'
    BY <2>1 DEF ReportsOfWorker
  <2>4. QED
    BY <1>1, <2>2, <2>3 DEF Calls
<1>7. CASE Advertise
  <2>1. UNCHANGED <<life, worker, asks, reports>>
    BY <1>7 DEF Advertise, SendBeat, GetBeat, node
  <2>2. QED
    BY <1>0, <1>1, <2>1 DEF Calls, AsksOfWorker, ReportsOfWorker
<1>8. QED
  BY <1>2, <1>3, <1>4, <1>5, <1>6, <1>7 DEF Work

LEMMA MediatorCalls ==
    ASSUME Typed, Calls, Serve \/ Hear \/ Sweep \/ (\E e \in exits : MarkExited(e)) \/ (\E r \in Runs : Grant(r) \/ EndRun(r))
    PROVE  Calls'
<1>0. /\ asks \subseteq Ask /\ reports \subseteq Report /\ row \in [Steps -> Row] /\ life \in Lives /\ life >= life
      /\ RowsInTime /\ AsksOfWorker /\ ReportsOfWorker
  BY DEF Typed, AsksType, ReportsType, ServerType, NodeType, Calls, Lives
<1>1. \A c \in asks : c \in Ask /\ c.life \in Nat /\ life \in Nat
  BY <1>0 DEF Ask, Lives
<1>2. CASE Hear \/ Sweep \/ (\E e \in exits : MarkExited(e)) \/ (\E r \in Runs : Grant(r) \/ EndRun(r))
  <2>1. UNCHANGED <<life, worker, asks, reports>>
    BY <1>2 DEF Hear, FailRestarted, RenewLeases, Sweep, MarkExited, Grant, EndRun, node, net
  <2>2. RowsMove
    <3>1. ASSUME NEW c \in beats, RenewLeases(c)
          PROVE  RowsMove
      BY <3>1, RowsStill DEF RenewLeases
    <3>2. QED
      BY <1>0, <1>2, <3>1, ClosingMoves, MarkMoves, GrantMoves DEF Hear
  <2>3. over \cup {lease} \subseteq over' \cup {lease', NoRun}
    BY <1>2 DEF Hear, FailRestarted, RenewLeases, Sweep, MarkExited, Grant, EndRun
  <2>4. RowsInTime'
    BY <1>0, <2>1, <2>2, <2>3, RowsInTimeKept
  <2>5. QED
    BY <1>0, <2>1, <2>4 DEF Calls, AsksOfWorker, ReportsOfWorker
<1>3. ASSUME NEW c \in asks, Look(c)
      PROVE  Calls'
  <2>1. PICK s \in ToRedeliver(c) : asks' = (asks \ {c}) \cup {Answer(c, "found", s)}
    BY <1>3 DEF Look
  <2> DEFINE g == Answer(c, "found", s)
  <2>2. g.life = c.life /\ g.live = c.live /\ g.step = s /\ s \in Steps
    BY <1>1, <2>1 DEF Answer, Ask, ToRedeliver
  <2>3. asks' = (asks \ {c}) \cup {g} /\ UNCHANGED <<life, worker, reports, row, lease, over>>
    BY <1>3, <2>1 DEF Look, node, server
  <2> HIDE DEF g
  <2>4. AsksOfWorker'
    BY <1>0, <2>2, <2>3 DEF AsksOfWorker
  <2>5. QED
    BY <1>0, <2>3, <2>4 DEF Calls, ReportsOfWorker, RowsInTime
<1>4. ASSUME NEW c \in asks, Redeliver(c)
      PROVE  Calls'
  <2>0. PICK l \in Reread(c) : asks' = Given(c, [c EXCEPT !.at = "given", !.lease = l])
    BY <1>4 DEF Redeliver
  <2> DEFINE g == [c EXCEPT !.at = "given", !.lease = l]
  <2>1. g.life = c.life /\ g.live = c.live /\ g.step = c.step /\ c.step \in Steps
    BY <1>0, <1>1, <1>4 DEF Ask, AsksOfWorker, Redeliver
  <2>2. asks' \subseteq (asks \ {c}) \cup {g} /\ UNCHANGED <<life, worker, reports, lease, over>>
    BY <1>4, <2>0 DEF Redeliver, Given, node
  <2> HIDE DEF g
  <2>3. AsksOfWorker'
    BY <1>0, <2>1, <2>2 DEF AsksOfWorker
  <2>4. RowsInTime'
    BY <1>0, <1>4, <2>2, RedeliverMoves, RowsInTimeKept
  <2>5. QED
    BY <1>0, <2>2, <2>3, <2>4 DEF Calls, ReportsOfWorker
<1>5. ASSUME NEW c \in asks, Take(c)
      PROVE  Calls'
  <2>1. PICK s \in Steps :
             /\ row[s].state = "PENDING" /\ RunOf[s] = lease
             /\ row'[s].state = "CLAIMED" /\ row'[s].inst = c.life /\ row'[s].attempt = row[s].attempt /\ row'[s].phase = "running"
             /\ \A t \in Steps \ {s} : row'[t] = row[t]
             /\ asks' = Given(c, Answer(c, "given", s))
    BY <1>5, TakeMoves
  <2> DEFINE g == Answer(c, "given", s)
  <2>2. g.life = c.life /\ g.live = c.live /\ g.step = s
    BY <1>1 DEF Answer, Ask
  <2>3. asks' \subseteq (asks \ {c}) \cup {g} /\ UNCHANGED <<life, worker, reports, lease, over>>
    BY <1>5, <2>1 DEF Take, Given, node
  <2> HIDE DEF g
  <2>4. AsksOfWorker'
    BY <1>0, <2>2, <2>3 DEF AsksOfWorker
  <2>5. c.life <= life
    BY <1>0 DEF AsksOfWorker
  <2>6. RowsInTime'
    BY <1>0, <2>1, <2>3, <2>5 DEF RowsInTime
  <2>7. QED
    BY <1>0, <2>3, <2>4, <2>6 DEF Calls, ReportsOfWorker
<1>6. ASSUME NEW c \in asks, LeaseWent(c)
      PROVE  Calls'
  <2>1. /\ asks' = asks \ {c} /\ UNCHANGED <<life, reports, row, lease, over>>
        /\ c.live => worker.pc = "asking" /\ \A d \in asks' : ~d.live
        /\ ~c.live => worker' = worker
    BY <1>0, <1>6 DEF LeaseWent, server, AsksOfWorker
  <2>2. AsksOfWorker'
    BY <1>0, <2>1 DEF AsksOfWorker
  <2>3. ReportsOfWorker'
    BY <1>0, <2>1 DEF ReportsOfWorker
  <2>4. QED
    BY <1>0, <2>1, <2>2, <2>3 DEF Calls, RowsInTime
<1>7. ASSUME NEW c \in reports, ReportStep(c)
      PROVE  Calls'
  <2> DEFINE g == [c EXCEPT !.at = "answered"]
  <2>1. g.live = c.live /\ g.step = c.step /\ g.attempt = c.attempt
    BY <1>0 DEF Report
  <2>2. reports' \subseteq (reports \ {c}) \cup {g} /\ UNCHANGED <<life, worker, asks, lease, over>>
    BY <1>7 DEF ReportStep, Answered, node
  <2> HIDE DEF g
  <2>3. ReportsOfWorker'
    BY <1>0, <2>1, <2>2 DEF ReportsOfWorker
  <2>4. RowsInTime'
    BY <1>0, <1>7, <2>2, ReportMoves, RowsInTimeKept
  <2>5. QED
    BY <1>0, <2>2, <2>3, <2>4 DEF Calls, AsksOfWorker
<1>8. QED
  BY <1>2, <1>3, <1>4, <1>5, <1>6, <1>7 DEF Serve

LEMMA LossCalls ==
    ASSUME Typed, Calls, Lose
    PROVE  Calls'
<1>0. /\ asks \subseteq Ask /\ reports \subseteq Report /\ life \in Lives /\ life \in Nat
      /\ RowsInTime /\ AsksOfWorker /\ ReportsOfWorker
  BY DEF Typed, AsksType, ReportsType, NodeType, Calls, Lives
<1>1. /\ \A c \in asks : ~Orphan(c).live /\ Orphan(c).at = c.at /\ Orphan(c).step = c.step /\ Orphan(c).life = c.life
      /\ \A c \in reports : ~Orphan(c).live
  <2>1. \A c \in Ask : ~Orphan(c).live /\ Orphan(c).at = c.at /\ Orphan(c).step = c.step /\ Orphan(c).life = c.life
    BY DEF Orphan, Ask
  <2>2. \A c \in Report : ~Orphan(c).live
    BY DEF Orphan, Report
  <2>3. QED
    BY <1>0, <2>1, <2>2
<1>2. RowsInTime'
  <2>1. /\ UNCHANGED <<lease, over, row>>
        /\ life' = life \/ (RestartNode /\ life' = life + 1)
    BY DEF Lose, EndAsk, LoseReport, ReportErrs, LoseBeat, LeaseExpires, Forget, Vanish, RestartNode, server, node
  <2>2. life' \in Lives /\ life' >= life
    BY <1>0, <2>1, Bounds DEF RestartNode, Lives
  <2>3. QED
    BY <1>0, <2>1, <2>2, RowsStill, RowsInTimeKept
<1>3. ASSUME NEW c \in asks, EndAsk(c)
      PROVE  Calls'
  <2>1. /\ asks' \subseteq (asks \ {c}) \cup {Orphan(c)} /\ c.live /\ UNCHANGED <<life, reports>>
    BY <1>3 DEF EndAsk, Abandon
  <2>2. (\A d \in asks' : ~d.live) /\ worker.pc = "asking"
    BY <1>0, <1>1, <2>1 DEF AsksOfWorker
  <2>3. AsksOfWorker'
    BY <1>0, <1>1, <2>1, <2>2 DEF AsksOfWorker
  <2>4. ReportsOfWorker'
    BY <1>0, <2>1, <2>2 DEF ReportsOfWorker
  <2>5. QED
    BY <1>2, <2>3, <2>4 DEF Calls
<1>4. ASSUME NEW c \in reports, LoseReport(c)
      PROVE  Calls'
  <2>1. reports' \subseteq (reports \ {c}) \cup {Orphan(c)} /\ c.live /\ UNCHANGED <<life, asks>>
    BY <1>4 DEF LoseReport, Abandon
  <2>2. (\A d \in reports' : ~d.live) /\ worker.pc = "reporting"
    BY <1>0, <1>1, <2>1 DEF ReportsOfWorker
  <2>3. AsksOfWorker'
    BY <1>0, <2>1, <2>2 DEF AsksOfWorker
  <2>4. ReportsOfWorker'
    BY <2>2 DEF ReportsOfWorker
  <2>5. QED
    BY <1>2, <2>3, <2>4 DEF Calls
<1>5. ASSUME NEW c \in reports, ReportErrs(c)
      PROVE  Calls'
  <2> DEFINE g == [c EXCEPT !.at = "answered"]
  <2>1. g.live = c.live /\ g.step = c.step /\ g.attempt = c.attempt
    BY <1>0 DEF Report
  <2>2. reports' \subseteq (reports \ {c}) \cup {g} /\ UNCHANGED <<life, worker, asks>>
    BY <1>5 DEF ReportErrs, Answered, node
  <2> HIDE DEF g
  <2>3. ReportsOfWorker'
    BY <1>0, <2>1, <2>2 DEF ReportsOfWorker
  <2>4. QED
    BY <1>0, <1>2, <2>2, <2>3 DEF Calls, AsksOfWorker
<1>6. CASE LeaseExpires
  <2>1. UNCHANGED <<life, worker, reports>>
    BY <1>6 DEF LeaseExpires
  <2>2. asks' = asks \/ asks' = {[c EXCEPT !.lease = @ \ {lease}] : c \in asks}
    BY <1>6 DEF LeaseExpires
  <2>3. ASSUME NEW c \in asks, NEW d, d = [c EXCEPT !.lease = @ \ {lease}]
        PROVE  d.at = c.at /\ d.step = c.step /\ d.live = c.live /\ d.life = c.life
    BY <1>0, <2>3 DEF Ask
  <2> DEFINE Cut(c) == [c EXCEPT !.lease = @ \ {lease}]
  <2>4. \A c \in asks : Cut(c).at = c.at /\ Cut(c).step = c.step /\ Cut(c).live = c.live /\ Cut(c).life = c.life
    BY <2>3
  <2>5. asks' = asks \/ asks' = {Cut(c) : c \in asks}
    BY <2>2
  <2> HIDE DEF Cut
  <2>6. AsksOfWorker'
    <3>1. CASE asks' = asks
      BY <1>0, <2>1, <3>1 DEF AsksOfWorker
    <3>2. CASE asks' = {Cut(c) : c \in asks}
      BY <1>0, <2>1, <2>4, <3>2 DEF AsksOfWorker
    <3>3. QED
      BY <2>5, <3>1, <3>2
  <2>7. QED
    BY <1>0, <1>2, <2>1, <2>6 DEF Calls, ReportsOfWorker
<1>7. CASE Forget \/ Vanish \/ (\E c \in beats : LoseBeat(c))
  <2>1. asks' \subseteq asks /\ reports' \subseteq reports /\ UNCHANGED <<life, worker>>
    BY <1>7 DEF Forget, Vanish, LoseBeat, node, net
  <2>2. QED
    BY <1>0, <1>2, <2>1 DEF Calls, AsksOfWorker, ReportsOfWorker
<1>8. CASE RestartNode
  <2>1. /\ \A d \in asks' : \E c \in asks : d = Orphan(c)
        /\ \A d \in reports' : \E c \in reports : d = Orphan(c)
        /\ life' = life + 1
    BY <1>8 DEF RestartNode
  <2>2. AsksOfWorker'
    <3>1. \A d \in asks' : d.life <= life + 1 /\ ~d.live /\ (d.at # "sent" => d.step \in Steps)
      <4>1. ASSUME NEW d \in asks'
            PROVE  d.life <= life + 1 /\ ~d.live /\ (d.at # "sent" => d.step \in Steps)
        <5>1. PICK c \in asks : d = Orphan(c)
          BY <2>1
        <5>2. c.life \in Nat /\ c.life <= life
          BY <1>0 DEF AsksOfWorker, Ask, Lives
        <5>3. QED
          BY <1>0, <1>1, <5>1, <5>2 DEF AsksOfWorker
      <4>2. QED
        BY <4>1
    <3>2. QED
      BY <2>1, <3>1 DEF AsksOfWorker
  <2>3. ReportsOfWorker'
    BY <1>1, <2>1 DEF ReportsOfWorker
  <2>4. QED
    BY <1>2, <2>2, <2>3 DEF Calls
<1>9. QED
  BY <1>3, <1>4, <1>5, <1>6, <1>7, <1>8 DEF Lose

-----------------------------------------------------------------------------
(* What is given again.                                                    *)

LEMMA WorkKept ==
    ASSUME Typed, BegunIsAtWork, RowsMove, life' = life, began' = began, gaveUp \subseteq gaveUp',
           \A s \in Steps, a \in Attempts : AtIt(s, a) => AtIt(s, a)' \/ GivenUp(s, a)'
    PROVE  BegunIsAtWork'
<1>1. \A s \in Steps : row[s].attempt \in Attempts
  BY DEF Typed, ServerType, Row
<1>2. \A s \in Steps : row'[s].state = "CLAIMED" =>
            row[s].state = "CLAIMED" /\ row'[s].attempt = row[s].attempt /\ row'[s].inst = row[s].inst
  BY DEF RowsMove, RowStays, RowCloses, RowOpens, RowLoops
<1>3. \A s \in Steps, a \in Attempts : Begun(s, a)' = Begun(s, a)
  BY DEF Begun
<1>4. \A s \in Steps, a \in Attempts : GivenUp(s, a) => GivenUp(s, a)'
  BY DEF GivenUp
<1>5. QED
  BY <1>1, <1>2, <1>3, <1>4 DEF BegunIsAtWork

LEMMA FreshKept ==
    ASSUME GivenIsFresh, began' = began, gaveUp \subseteq gaveUp',
           \A d \in asks' : d.live /\ d.at # "sent" =>
                \E c \in asks : c.live /\ c.at # "sent" /\ c.step = d.step /\ c.attempt = d.attempt,
           worker'.pc = "starting" => worker' = worker
    PROVE  GivenIsFresh'
BY DEF GivenIsFresh, Begun, GivenUp

LEMMA AnswersKept ==
    ASSUME Typed, AnsweredIsOver, RowsMove, gaveUp \subseteq gaveUp',
           \A d \in reports' : d.live /\ d.at = "answered" =>
                \E c \in reports : c.live /\ c.at = "answered" /\ c.step = d.step /\ c.attempt = d.attempt
    PROVE  AnsweredIsOver'
<1>1. /\ \A c \in reports : c.step \in Steps /\ c.attempt \in Nat
      /\ \A s \in Steps : row[s].attempt \in Nat
  BY DEF Typed, ServerType, ReportsType, Row, Report, Attempts
<1>2. \A s \in Steps : /\ row[s].attempt <= row'[s].attempt /\ row'[s].attempt \in Nat
                       /\ row[s].state \in {"DONE", "FAILED"} => row'[s].state \in {"DONE", "FAILED"}
  BY <1>1 DEF RowsMove, RowStays, RowCloses, RowOpens, RowLoops
<1>3. SUFFICES ASSUME NEW d \in reports', d.live, d.at = "answered"
               PROVE  \/ GivenUp(d.step, d.attempt)'
                      \/ d.attempt < row'[d.step].attempt
                      \/ row'[d.step].state \in {"DONE", "FAILED"}
  BY DEF AnsweredIsOver
<1>4. PICK c \in reports : c.live /\ c.at = "answered" /\ c.step = d.step /\ c.attempt = d.attempt
  BY <1>3
<1>5. \/ GivenUp(c.step, c.attempt)
      \/ c.attempt < row[c.step].attempt
      \/ row[c.step].state \in {"DONE", "FAILED"}
  BY <1>4 DEF AnsweredIsOver
<1>6. GivenUp(c.step, c.attempt) => GivenUp(c.step, c.attempt)'
  BY DEF GivenUp
<1>7. QED
  BY <1>1, <1>2, <1>4, <1>5, <1>6

LEMMA NodeRestarts ==
    ASSUME Typed, Calls, Ties, Restarts, Work \/ Exits \/ Advertise
    PROVE  Restarts'
<1>0. /\ worker \in Worker /\ AsksOfWorker /\ ReportsOfWorker
      /\ BegunIsAtWork /\ GivenIsFresh /\ AnsweredIsOver /\ RerunOnlyAfterGivingUp
      /\ gaveUp \subseteq gaveUp
  BY DEF Typed, NodeType, Calls, Restarts
<1>1. UNCHANGED <<row, gaveUp, life>>
  BY DEF Work, Advertise, AskClaim, Begin, Refuse, Abort, Exits, Finalize, SendReport, GetStep, Reported, SendBeat, GetBeat,
         server, hist, node
<1>2. RowsMove
  BY <1>1, RowsStill
<1>3. CASE Refuse \/ Abort \/ Exits \/ Finalize
  <2>1. /\ worker.pc \in {"starting", "running", "exited"} /\ worker'.pc \in {"exited", "reporting"}
        /\ worker'.step = worker.step /\ worker'.attempt = worker.attempt
        /\ UNCHANGED <<began, rerun, asks, reports>>
    BY <1>0, <1>3 DEF Refuse, Abort, Exits, Finalize, net, hist, Worker, Idle, WithoutStep
  <2>2. BegunIsAtWork'
    BY <1>0, <1>1, <1>2, <2>1, WorkKept DEF AtIt
  <2>3. GivenIsFresh'
    BY <1>0, <1>1, <2>1, FreshKept
  <2>4. AnsweredIsOver'
    BY <1>0, <1>1, <1>2, <2>1, AnswersKept
  <2>5. QED
    BY <1>0, <1>1, <2>1, <2>2, <2>3, <2>4 DEF Restarts, RerunOnlyAfterGivingUp
<1>4. CASE Advertise
  <2>1. UNCHANGED <<worker, asks, reports, began, rerun>>
    BY <1>4 DEF Advertise, SendBeat, GetBeat, node, hist
  <2>2. BegunIsAtWork'
    BY <1>0, <1>1, <1>2, <2>1, WorkKept DEF AtIt
  <2>3. GivenIsFresh'
    BY <1>0, <1>1, <2>1, FreshKept
  <2>4. AnsweredIsOver'
    BY <1>0, <1>1, <1>2, <2>1, AnswersKept
  <2>5. QED
    BY <1>0, <1>1, <2>1, <2>2, <2>3, <2>4 DEF Restarts, RerunOnlyAfterGivingUp
<1>5. CASE AskClaim
  <2> DEFINE new == [life |-> life, live |-> TRUE, at |-> "sent", step |-> NoStep, attempt |-> 0, lease |-> {}]
  <2>1. /\ asks' = asks \cup {new} /\ new.at = "sent" /\ worker.pc = "idle" /\ worker'.pc = "asking"
        /\ UNCHANGED <<reports, began, rerun>>
    BY <1>5 DEF AskClaim, Idle, WithoutStep, hist
  <2> HIDE DEF new
  <2>2. BegunIsAtWork'
    BY <1>0, <1>1, <1>2, <2>1, WorkKept DEF AtIt
  <2>3. GivenIsFresh'
    BY <1>0, <1>1, <2>1, FreshKept
  <2>4. AnsweredIsOver'
    BY <1>0, <1>1, <1>2, <2>1, AnswersKept
  <2>5. QED
    BY <1>0, <1>1, <2>1, <2>2, <2>3, <2>4 DEF Restarts, RerunOnlyAfterGivingUp
<1>6. CASE SendReport
  <2> DEFINE new == [live |-> TRUE, at |-> "sent", step |-> worker.step, attempt |-> worker.attempt, ok |-> worker.ok]
  <2>1. /\ reports' = reports \cup {new} /\ new.at = "sent"
        /\ UNCHANGED <<worker, asks, began, rerun>>
    BY <1>6 DEF SendReport, node, hist
  <2> HIDE DEF new
  <2>2. BegunIsAtWork'
    BY <1>0, <1>1, <1>2, <2>1, WorkKept DEF AtIt
  <2>3. GivenIsFresh'
    BY <1>0, <1>1, <2>1, FreshKept
  <2>4. AnsweredIsOver'
    BY <1>0, <1>1, <1>2, <2>1, AnswersKept
  <2>5. QED
    BY <1>0, <1>1, <2>1, <2>2, <2>3, <2>4 DEF Restarts, RerunOnlyAfterGivingUp
<1>7. CASE Begin
  <2>1. worker.pc = "starting" /\ worker.step \in Steps /\ worker.attempt \in Attempts /\ life \in Lives
    BY <1>0, <1>7, WorkerFields DEF Begin, Typed, NodeType
  <2>2. UNCHANGED <<asks, reports>>
    BY <1>7 DEF Begin, net
  <2>3. \A c \in asks : ~c.live
    BY <1>0, <2>1 DEF AsksOfWorker
  <2>4. worker'.pc # "starting"
    BY <1>0, <1>7 DEF Begin, Idle, WithoutStep, Worker
  <2>5. GivenIsFresh'
    BY <2>2, <2>3, <2>4 DEF GivenIsFresh
  <2>6. AnsweredIsOver'
    BY <1>0, <1>1, <1>2, <2>2, AnswersKept
  <2>7. CASE Valid(Mine)
    <3>1. /\ worker'.pc = "running" /\ worker'.step = worker.step /\ worker'.attempt = worker.attempt
          /\ began' = began \cup {<<<<worker.step, worker.attempt>>, life>>}
      BY <1>0, <1>7, <2>7 DEF Begin, Idle, WithoutStep, Worker
    <3>2. rerun' \subseteq rerun \cup {<<worker.step, worker.attempt>>}
      BY <1>7, <2>7 DEF Begin
    <3>3. rerun' # rerun => Begun(worker.step, worker.attempt)
      BY <1>7, <2>7 DEF Begin, Begun
    <3>4. RerunOnlyAfterGivingUp'
      BY <1>0, <1>1, <2>1, <3>2, <3>3 DEF GivenIsFresh, GivenUp, RerunOnlyAfterGivingUp
    <3>5. \A s \in Steps, a \in Attempts : Begun(s, a)' => Begun(s, a) \/ AtIt(s, a)'
      BY <3>1 DEF Begun, AtIt
    <3>6. \A s \in Steps, a \in Attempts : ~AtIt(s, a)
      BY <2>1 DEF AtIt
    <3>7. \A s \in Steps : row[s].attempt \in Attempts
      BY DEF Typed, ServerType, Row
    <3>8. BegunIsAtWork'
      BY <1>0, <1>1, <3>5, <3>6, <3>7 DEF BegunIsAtWork, GivenUp
    <3>9. QED
      BY <2>5, <2>6, <3>4, <3>8 DEF Restarts
  <2>8. CASE ~Valid(Mine)
    <3>1. began' = began /\ rerun' = rerun
      BY <1>7, <2>8 DEF Begin
    <3>2. BegunIsAtWork'
      BY <1>0, <1>1, <1>2, <2>1, <3>1, WorkKept DEF AtIt
    <3>3. QED
      BY <1>0, <1>1, <2>5, <2>6, <3>1, <3>2 DEF Restarts, RerunOnlyAfterGivingUp
  <2>9. QED
    BY <2>7, <2>8
<1>8. ASSUME NEW c \in asks, GetStep(c)
      PROVE  Restarts'
  <2>1. /\ c.live /\ c.at = "given" /\ asks' \subseteq asks /\ worker.pc = "asking"
        /\ UNCHANGED <<reports, began, rerun>>
    BY <1>0, <1>8 DEF GetStep, AsksOfWorker, hist
  <2>2. worker'.step = c.step /\ worker'.attempt = c.attempt
    BY <1>8 DEF GetStep
  <2>3. BegunIsAtWork'
    BY <1>0, <1>1, <1>2, <2>1, WorkKept DEF AtIt
  <2>4. GivenIsFresh'
    BY <1>0, <1>1, <2>1, <2>2 DEF GivenIsFresh, Begun, GivenUp
  <2>5. AnsweredIsOver'
    BY <1>0, <1>1, <1>2, <2>1, AnswersKept
  <2>6. QED
    BY <1>0, <1>1, <2>1, <2>3, <2>4, <2>5 DEF Restarts, RerunOnlyAfterGivingUp
<1>9. ASSUME NEW c \in reports, Reported(c)
      PROVE  Restarts'
  <2>1. /\ c.live /\ c.at = "answered" /\ reports' \subseteq reports /\ worker'.pc = "idle"
        /\ worker.step = c.step /\ worker.attempt = c.attempt /\ worker.pc = "reporting"
        /\ UNCHANGED <<asks, began, rerun>>
    BY <1>0, <1>9 DEF Reported, ReportsOfWorker, hist, Idle, WithoutStep
  <2>2. c.attempt \in Nat
    BY DEF Typed, ReportsType, Report, Attempts
  <2>3. row[c.step].state = "CLAIMED" /\ row[c.step].attempt = c.attempt => GivenUp(c.step, c.attempt)
    BY <1>0, <2>1, <2>2 DEF AnsweredIsOver
  <2>4. BegunIsAtWork'
    BY <1>0, <1>1, <2>1, <2>3 DEF BegunIsAtWork, AtIt, Begun, GivenUp
  <2>5. GivenIsFresh'
    BY <1>0, <1>1, <2>1, FreshKept
  <2>6. AnsweredIsOver'
    BY <1>0, <1>1, <1>2, <2>1, AnswersKept
  <2>7. QED
    BY <1>0, <1>1, <2>1, <2>4, <2>5, <2>6 DEF Restarts, RerunOnlyAfterGivingUp
<1>10. QED
  BY <1>3, <1>4, <1>5, <1>6, <1>7, <1>8, <1>9 DEF Work

\* The Mediator's steps: a claimed row that has been begun is given again only to a Worker that gave it up.
LEMMA MediatorRestarts ==
    ASSUME Typed, Calls, Ties, Restarts,
           Serve \/ Hear \/ Sweep \/ (\E e \in exits : MarkExited(e)) \/ (\E r \in Runs : Grant(r) \/ EndRun(r))
    PROVE  Restarts'
<1>0. /\ asks \subseteq Ask /\ reports \subseteq Report /\ row \in [Steps -> Row] /\ life \in Lives
      /\ RowsInTime /\ AsksOfWorker /\ ReportsOfWorker
      /\ BegunIsAtWork /\ GivenIsFresh /\ AnsweredIsOver /\ RerunOnlyAfterGivingUp
      /\ gaveUp \subseteq gaveUp
  BY DEF Typed, AsksType, ReportsType, ServerType, NodeType, Calls, Restarts
<1>1. UNCHANGED <<life, began, rerun, gaveUp>>
  BY DEF Serve, Hear, Look, Redeliver, Take, LeaseWent, ReportStep, FailRestarted, RenewLeases, Sweep, MarkExited, Grant, EndRun,
         node, hist
<1>2. RerunOnlyAfterGivingUp'
  BY <1>0, <1>1 DEF RerunOnlyAfterGivingUp
<1>3. CASE Hear \/ Sweep \/ (\E e \in exits : MarkExited(e)) \/ (\E r \in Runs : Grant(r) \/ EndRun(r))
  <2>1. UNCHANGED <<worker, asks, reports>>
    BY <1>3 DEF Hear, FailRestarted, RenewLeases, Sweep, MarkExited, Grant, EndRun, node, net
  <2>2. RowsMove
    <3>1. ASSUME NEW c \in beats, RenewLeases(c)
          PROVE  RowsMove
      BY <3>1, RowsStill DEF RenewLeases
    <3>2. QED
      BY <1>0, <1>3, <3>1, ClosingMoves, MarkMoves, GrantMoves DEF Hear
  <2>3. BegunIsAtWork'
    BY <1>0, <1>1, <2>1, <2>2, WorkKept DEF AtIt
  <2>4. GivenIsFresh'
    BY <1>0, <1>1, <2>1, FreshKept
  <2>5. AnsweredIsOver'
    BY <1>0, <1>1, <2>1, <2>2, AnswersKept
  <2>6. QED
    BY <1>2, <2>3, <2>4, <2>5 DEF Restarts
<1>4. ASSUME NEW c \in asks, Look(c)
      PROVE  Restarts'
  <2>1. PICK s \in ToRedeliver(c) : asks' = (asks \ {c}) \cup {Answer(c, "found", s)}
    BY <1>4 DEF Look
  <2> DEFINE g == Answer(c, "found", s)
  <2>2. /\ g.live = c.live /\ g.step = s /\ g.attempt = row[s].attempt /\ s \in Steps
        /\ row[s].state = "CLAIMED" /\ row[s].inst = c.life
    BY <1>0, <2>1 DEF Answer, Ask, ToRedeliver
  <2>3. asks' = (asks \ {c}) \cup {g} /\ UNCHANGED <<worker, reports, row>>
    BY <1>4, <2>1 DEF Look, node, server
  <2> HIDE DEF g
  <2>4. g.live /\ Begun(g.step, g.attempt) => GivenUp(g.step, g.attempt)
    BY <1>0, <2>2 DEF BegunIsAtWork, AtIt, AsksOfWorker
  <2>5. GivenIsFresh'
    BY <1>0, <1>1, <2>3, <2>4 DEF GivenIsFresh, Begun, GivenUp
  <2>6. RowsMove
    BY <2>3, RowsStill
  <2>7. BegunIsAtWork'
    BY <1>0, <1>1, <2>3, <2>6, WorkKept DEF AtIt
  <2>8. AnsweredIsOver'
    BY <1>0, <1>1, <2>3, <2>6, AnswersKept
  <2>9. QED
    BY <1>2, <2>5, <2>7, <2>8 DEF Restarts
<1>5. ASSUME NEW c \in asks, Redeliver(c)
      PROVE  Restarts'
  <2>0. PICK l \in Reread(c) : asks' = Given(c, [c EXCEPT !.at = "given", !.lease = l])
    BY <1>5 DEF Redeliver
  <2> DEFINE g == [c EXCEPT !.at = "given", !.lease = l]
  <2>1. g.live = c.live /\ g.step = c.step /\ g.attempt = c.attempt /\ c.at # "sent"
    BY <1>0, <1>5 DEF Ask, Redeliver
  <2>2. asks' \subseteq (asks \ {c}) \cup {g} /\ UNCHANGED <<worker, reports>>
    BY <1>5, <2>0 DEF Redeliver, Given, node
  <2> HIDE DEF g
  <2>3. RowsMove
    BY <1>5, RedeliverMoves
  <2>4. GivenIsFresh'
    BY <1>0, <1>1, <2>1, <2>2, FreshKept
  <2>5. BegunIsAtWork'
    BY <1>0, <1>1, <2>2, <2>3, WorkKept DEF AtIt
  <2>6. AnsweredIsOver'
    BY <1>0, <1>1, <2>2, <2>3, AnswersKept
  <2>7. QED
    BY <1>2, <2>4, <2>5, <2>6 DEF Restarts
<1>6. ASSUME NEW c \in asks, Take(c)
      PROVE  Restarts'
  <2>1. PICK s \in Steps :
             /\ row[s].state = "PENDING" /\ RunOf[s] = lease
             /\ row'[s].state = "CLAIMED" /\ row'[s].inst = c.life /\ row'[s].attempt = row[s].attempt /\ row'[s].phase = "running"
             /\ \A t \in Steps \ {s} : row'[t] = row[t]
             /\ asks' = Given(c, Answer(c, "given", s))
    BY <1>6, TakeMoves
  <2> DEFINE g == Answer(c, "given", s)
  <2>2. g.live = c.live /\ g.step = s /\ g.attempt = row[s].attempt
    BY <1>0 DEF Answer, Ask
  <2>3. asks' \subseteq (asks \ {c}) \cup {g} /\ UNCHANGED <<worker, reports>>
    BY <1>6, <2>1 DEF Take, Given, node
  <2> HIDE DEF g
  <2>4. ~Begun(s, row[s].attempt)
    <3>1. SUFFICES ASSUME NEW l \in Lives, <<<<s, row[s].attempt>>, l>> \in began
                   PROVE  FALSE
      BY DEF Begun
    <3>2. row[s].attempt \in Attempts /\ row[s].attempt \in Nat /\ l \in LivesAndNone
      BY <1>0, Bounds DEF Row, Attempts, Lives, LivesAndNone
    <3>3. Tied(s, row[s].attempt, l)
      BY <3>1 DEF Tied, TiedByHistory
    <3>4. QED
      BY <2>1, <3>2, <3>3 DEF Ties, TiedIsClaimed, Beginning
  <2>5. GivenIsFresh'
    BY <1>0, <1>1, <2>2, <2>3, <2>4 DEF GivenIsFresh, Begun, GivenUp
  <2>6. BegunIsAtWork'
    BY <1>0, <1>1, <2>1, <2>3, <2>4 DEF BegunIsAtWork, AtIt, Begun, GivenUp
  <2>7. AnsweredIsOver'
    <3>1. \A t \in Steps : /\ row'[t].attempt = row[t].attempt
                           /\ row[t].state \in {"DONE", "FAILED"} => row'[t].state \in {"DONE", "FAILED"}
      BY <2>1
    <3>2. \A d \in reports : d.step \in Steps
      BY <1>0 DEF Report
    <3>3. QED
      BY <1>0, <1>1, <2>3, <3>1, <3>2 DEF AnsweredIsOver, GivenUp
  <2>8. QED
    BY <1>2, <2>5, <2>6, <2>7 DEF Restarts
<1>7. ASSUME NEW c \in asks, LeaseWent(c)
      PROVE  Restarts'
  <2>1. /\ asks' \subseteq asks /\ UNCHANGED <<reports, row>>
        /\ worker' = worker \/ (worker.pc = "asking" /\ worker'.pc = "idle")
    BY <1>0, <1>7 DEF LeaseWent, server, AsksOfWorker, Idle, WithoutStep
  <2>2. RowsMove
    BY <2>1, RowsStill
  <2>3. BegunIsAtWork'
    BY <1>0, <1>1, <2>1, <2>2, WorkKept DEF AtIt
  <2>4. GivenIsFresh'
    BY <1>0, <1>1, <2>1, FreshKept
  <2>5. AnsweredIsOver'
    BY <1>0, <1>1, <2>1, <2>2, AnswersKept
  <2>6. QED
    BY <1>2, <2>3, <2>4, <2>5 DEF Restarts
<1>8. ASSUME NEW c \in reports, ReportStep(c)
      PROVE  Restarts'
  <2> DEFINE g == [c EXCEPT !.at = "answered"]
  <2>1. g.live = c.live /\ g.step = c.step /\ g.attempt = c.attempt /\ c.step \in Steps /\ c.attempt \in Attempts
    BY <1>0 DEF Report
  <2>2. reports' \subseteq (reports \ {c}) \cup {g} /\ UNCHANGED <<worker, asks>>
    BY <1>8 DEF ReportStep, Answered, node
  <2> HIDE DEF g
  <2>3. RowsMove
    BY <1>8, ReportMoves
  <2>4. BegunIsAtWork'
    BY <1>0, <1>1, <2>2, <2>3, WorkKept DEF AtIt
  <2>5. GivenIsFresh'
    BY <1>0, <1>1, <2>2, FreshKept
  <2>6. c.live => c.attempt < row'[c.step].attempt \/ row'[c.step].state \in {"DONE", "FAILED"}
    <3>1. SUFFICES ASSUME c.live
                   PROVE  c.attempt < row'[c.step].attempt \/ row'[c.step].state \in {"DONE", "FAILED"}
      OBVIOUS
    <3>2. Tied(c.step, c.attempt, life) /\ life \in LivesAndNone
      BY <1>0, <3>1, Bounds DEF ReportsOfWorker, TiedByWorker, Tied, Lives, LivesAndNone
    <3>3. c.attempt < row[c.step].attempt \/ (c.attempt = row[c.step].attempt /\ row[c.step].state \notin Beginning)
      BY <2>1, <3>2 DEF Ties, TiedIsClaimed
    <3>4. row[c.step].attempt \in Nat /\ c.attempt \in Nat /\ row[c.step] \in Row
      BY <1>0, <2>1 DEF Row, Attempts
    <3>5. CASE row[c.step].state = "CLAIMED" /\ \E done \in BOOLEAN : row' = [row EXCEPT ![c.step].state = IF done THEN "DONE" ELSE "FAILED"]
      <4>1. row'[c.step].state \in {"DONE", "FAILED"}
        BY <1>0, <2>1, <3>4, <3>5 DEF Row
      <4>2. QED
        BY <4>1
    <3>6. CASE row' = [row EXCEPT ![c.step] = Again(@)]
      <4>1. row'[c.step].attempt = row[c.step].attempt + 1
        BY <1>0, <2>1, <3>4, <3>6 DEF Again, Row
      <4>2. QED
        BY <3>3, <3>4, <4>1
    <3>7. CASE row[c.step].state # "CLAIMED" /\ row' = row
      BY <3>3, <3>4, <3>7 DEF Beginning, Row
    <3>8. QED
      BY <1>8, <3>5, <3>6, <3>7 DEF ReportStep
  <2>7. AnsweredIsOver'
    <3>1. ASSUME NEW d \in reports', d.live, d.at = "answered", d # g
          PROVE  \E e \in reports : e.live /\ e.at = "answered" /\ e.step = d.step /\ e.attempt = d.attempt
      BY <2>2, <3>1
    <3>2. /\ \A e \in reports : e.step \in Steps /\ e.attempt \in Nat
          /\ \A t \in Steps : row[t].attempt \in Nat
      BY <1>0 DEF Report, Row, Attempts
    <3>3. \A t \in Steps : /\ row[t].attempt <= row'[t].attempt /\ row'[t].attempt \in Nat
                           /\ row[t].state \in {"DONE", "FAILED"} => row'[t].state \in {"DONE", "FAILED"}
      BY <2>3, <3>2 DEF RowsMove, RowStays, RowCloses, RowOpens, RowLoops
    <3>4. ASSUME NEW e \in reports, e.live, e.at = "answered"
          PROVE  \/ GivenUp(e.step, e.attempt)'
                 \/ e.attempt < row'[e.step].attempt
                 \/ row'[e.step].state \in {"DONE", "FAILED"}
      BY <1>0, <1>1, <3>2, <3>3, <3>4 DEF AnsweredIsOver, GivenUp
    <3>5. QED
      BY <2>1, <2>6, <3>1, <3>4 DEF AnsweredIsOver
  <2>8. QED
    BY <1>2, <2>4, <2>5, <2>7 DEF Restarts
<1>9. QED
  BY <1>3, <1>4, <1>5, <1>6, <1>7, <1>8 DEF Serve

LEMMA LossRestarts ==
    ASSUME Typed, Calls, Ties, Restarts, Lose
    PROVE  Restarts'
<1>0. /\ asks \subseteq Ask /\ reports \subseteq Report /\ row \in [Steps -> Row] /\ life \in Nat
      /\ RowsInTime /\ AsksOfWorker /\ ReportsOfWorker
      /\ BegunIsAtWork /\ GivenIsFresh /\ AnsweredIsOver /\ RerunOnlyAfterGivingUp
  BY DEF Typed, AsksType, ReportsType, ServerType, NodeType, Calls, Restarts, Lives
<1>1. UNCHANGED <<row, began, rerun>> /\ gaveUp \subseteq gaveUp'
  BY DEF Lose, EndAsk, LoseReport, ReportErrs, LoseBeat, LeaseExpires, Forget, Vanish, RestartNode, server, hist, Dropped
<1>2. RerunOnlyAfterGivingUp'
  BY <1>0, <1>1 DEF RerunOnlyAfterGivingUp
<1>3. RowsMove
  BY <1>1, RowsStill
<1>4. /\ \A c \in asks : ~Orphan(c).live
      /\ \A c \in reports : ~Orphan(c).live
  <2>1. \A c \in Ask : ~Orphan(c).live
    BY DEF Orphan, Ask
  <2>2. \A c \in Report : ~Orphan(c).live
    BY DEF Orphan, Report
  <2>3. QED
    BY <1>0, <2>1, <2>2
<1>5. GivenIsFresh'
  <2>1. worker'.pc = "starting" => worker' = worker
    BY DEF Lose, EndAsk, LoseReport, ReportErrs, LoseBeat, LeaseExpires, Forget, Vanish, RestartNode, node, Idle, WithoutStep
  <2>2. \A d \in asks' : d.live /\ d.at # "sent" =>
                \E c \in asks : c.live /\ c.at # "sent" /\ c.step = d.step /\ c.attempt = d.attempt
    <3>1. CASE LeaseExpires
      <4>1. ASSUME NEW c \in asks, NEW d, d = [c EXCEPT !.lease = @ \ {lease}]
            PROVE  d.at = c.at /\ d.step = c.step /\ d.live = c.live /\ d.attempt = c.attempt
        BY <1>0, <4>1 DEF Ask
      <4>2. asks' = asks \/ asks' = {[c EXCEPT !.lease = @ \ {lease}] : c \in asks}
        BY <3>1 DEF LeaseExpires
      <4>3. QED
        BY <4>1, <4>2
    <3>2. CASE ~LeaseExpires
      <4>1. asks' \subseteq asks \cup {Orphan(c) : c \in asks}
        BY <3>2 DEF Lose, EndAsk, Abandon, LoseReport, ReportErrs, LoseBeat, Forget, Vanish, RestartNode, net
      <4>2. QED
        BY <1>4, <4>1
    <3>3. QED
      BY <3>1, <3>2
  <2>3. QED
    BY <1>0, <1>1, <2>1, <2>2, FreshKept
<1>6. ASSUME NEW c \in reports, ReportErrs(c)
      PROVE  Restarts'
  <2> DEFINE g == [c EXCEPT !.at = "answered"]
  <2>1. /\ g.step = c.step /\ g.attempt = c.attempt
        /\ worker.step = c.step /\ worker.attempt = c.attempt /\ gaveUp' = gaveUp \cup {<<c.step, c.attempt>>}
    BY <1>0, <1>6 DEF Report, ReportErrs, ReportsOfWorker, Dropped
  <2>2. reports' \subseteq (reports \ {c}) \cup {g} /\ UNCHANGED <<life, worker>>
    BY <1>6 DEF ReportErrs, Answered, node
  <2> HIDE DEF g
  <2>3. AnsweredIsOver'
    BY <1>0, <1>1, <2>1, <2>2 DEF AnsweredIsOver, GivenUp
  <2>4. BegunIsAtWork'
    BY <1>0, <1>1, <1>3, <2>2, WorkKept DEF AtIt
  <2>5. QED
    BY <1>2, <1>5, <2>3, <2>4 DEF Restarts
<1>7. CASE ~ \E c \in reports : ReportErrs(c)
  <2>1. reports' \subseteq reports \cup {Orphan(c) : c \in reports}
    BY <1>7 DEF Lose, EndAsk, LoseReport, Abandon, LoseBeat, LeaseExpires, Forget, Vanish, RestartNode, net
  <2>2. AnsweredIsOver'
    <3>1. \A d \in reports' : d.live => d \in reports
      BY <1>4, <2>1
    <3>2. QED
      BY <1>0, <1>1, <1>3, <3>1, AnswersKept
  <2>3. CASE RestartNode
    <3>1. life' = life + 1 /\ \A s \in Steps : row[s].inst \in Nat /\ row[s].inst <= life
      BY <1>0, <2>3 DEF RestartNode, RowsInTime, Row
    <3>2. BegunIsAtWork'
      BY <1>0, <1>1, <3>1 DEF BegunIsAtWork
    <3>3. QED
      BY <1>2, <1>5, <2>2, <3>2 DEF Restarts
  <2>4. ASSUME NEW c \in reports, LoseReport(c)
        PROVE  Restarts'
    <3>1. worker' = worker \/ gaveUp' = gaveUp \cup {<<worker.step, worker.attempt>>}
      BY <2>4 DEF LoseReport, KeepsTrying, Dropped
    <3>2. \A s \in Steps, a \in Attempts : AtIt(s, a) => AtIt(s, a)' \/ GivenUp(s, a)'
      BY <3>1 DEF AtIt, GivenUp
    <3>3. life' = life
      BY <2>4 DEF LoseReport
    <3>4. BegunIsAtWork'
      BY <1>0, <1>1, <1>3, <3>2, <3>3, WorkKept
    <3>5. QED
      BY <1>2, <1>5, <2>2, <3>4 DEF Restarts
  <2>5. CASE (\E c \in asks : EndAsk(c)) \/ (\E c \in beats : LoseBeat(c)) \/ LeaseExpires \/ Forget \/ Vanish
    <3>1. life' = life /\ (worker' = worker \/ worker.pc = "asking")
      BY <1>0, <2>5 DEF EndAsk, LoseBeat, LeaseExpires, Forget, Vanish, node, AsksOfWorker
    <3>2. BegunIsAtWork'
      BY <1>0, <1>1, <1>3, <3>1, WorkKept DEF AtIt
    <3>3. QED
      BY <1>2, <1>5, <2>2, <3>2 DEF Restarts
  <2>6. QED
    BY <1>7, <2>3, <2>4, <2>5 DEF Lose
<1>8. QED
  BY <1>6, <1>7

-----------------------------------------------------------------------------
(* Exits.                                                                  *)

LEMMA ExitingKept ==
    ASSUME Typed, Calls, Exiting, Next
    PROVE  Exiting'
<1>0. /\ row \in [Steps -> Row] /\ exits \subseteq Exit /\ RowsInTime /\ ExitsHappened /\ ExitIsCurrent
  BY DEF Typed, ServerType, ExitsType, Calls, Exiting
<1>1. ASSUME NEW e \in exits, MarkExited(e)
      PROVE  Exiting'
  <2>1. exits' \subseteq exits /\ exited' = exited
    BY <1>1 DEF MarkExited, hist
  <2>2. ExitsHappened'
    BY <1>0, <2>1 DEF ExitsHappened
  <2>3. e.step \in Steps
    BY <1>0 DEF Exit
  <2>4. /\ \A s \in Steps : row'[s].attempt = row[s].attempt /\ row'[s].inst = row[s].inst
        /\ \A s \in Steps : row'[s].phase = row[s].phase \/ (s = e.step /\ AcceptsExit(e))
    BY <1>0, <1>1, <2>3 DEF MarkExited, Row
  <2>5. ExitIsCurrent'
    BY <1>0, <2>1, <2>4 DEF ExitIsCurrent, ExitsHappened, AcceptsExit
  <2>6. QED
    BY <2>2, <2>5 DEF Exiting
<1>2. CASE Exits
  <2> DEFINE new == [life |-> life, step |-> worker.step, attempt |-> worker.attempt]
  <2>1. new.life = life /\ new.step = worker.step /\ new.attempt = worker.attempt
    OBVIOUS
  <2>2. /\ exits' = exits \cup {new} /\ row' = row
        /\ exited' = exited \cup {<<<<worker.step, worker.attempt>>, life>>}
    BY <1>2 DEF Exits, server
  <2> HIDE DEF new
  <2>3. QED
    BY <1>0, <2>1, <2>2 DEF Exiting, ExitsHappened, ExitIsCurrent
<1>3. ASSUME NoneFinalizes, UNCHANGED <<exits, exited>>
      PROVE  Exiting'
  BY <1>0, <1>3 DEF NoneFinalizes, Exiting, ExitsHappened, ExitIsCurrent
<1>4. CASE Work \/ Advertise \/ Lose
  <2>1. UNCHANGED <<row, exits, exited>>
    BY <1>4 DEF Work, Advertise, AskClaim, Begin, Refuse, Abort, Finalize, SendReport, GetStep, Reported, SendBeat, GetBeat,
       Lose, EndAsk, LoseReport, ReportErrs, LoseBeat, LeaseExpires, Forget, Vanish, RestartNode, server, net, hist
  <2>2. QED
    BY <1>3, <2>1, RowsStill
<1>5. CASE Serve \/ Hear \/ Sweep \/ (\E r \in Runs : Grant(r) \/ EndRun(r))
  <2>1. UNCHANGED <<exits, exited>>
    BY <1>5 DEF Serve, Hear, Look, Redeliver, Take, LeaseWent, ReportStep, FailRestarted, RenewLeases, Sweep, Grant, EndRun, net, hist
  <2>2. ASSUME NEW c \in asks, Take(c)
        PROVE  NoneFinalizes
    BY <2>2, TakeMoves DEF NoneFinalizes
  <2>3. ASSUME (\E c \in asks : Look(c) \/ LeaseWent(c)) \/ (\E c \in beats : RenewLeases(c))
        PROVE  NoneFinalizes
    BY <2>3, RowsStill DEF Look, LeaseWent, RenewLeases, server
  <2>4. QED
    BY <1>0, <1>3, <1>5, <2>1, <2>2, <2>3, RedeliverMoves, ReportMoves, ClosingMoves, GrantMoves DEF Serve, Hear
<1>6. QED
  BY <1>1, <1>2, <1>4, <1>5 DEF Next

-----------------------------------------------------------------------------
(* The theorems.                                                           *)

LEMMA StartHolds ==
    ASSUME NEW l \in Lives, NEW gone \in SUBSET Runs, Starts(l, gone)
    PROVE  IInv
<1>1. Typed
  BY StartsTyped
<1>2. l \in Nat /\ 0 <= l
  BY DEF Lives
<1>3. \A s \in Steps : row[s].state = "NONE" /\ row[s].inst = 0 /\ row[s].phase = "none"
  BY DEF Starts
<1>4. /\ asks = {} /\ reports = {} /\ exits = {} /\ began = {} /\ rerun = {} /\ gaveUp = {}
      /\ life = l /\ worker.pc = "idle"
  BY DEF Starts, Idle, WithoutStep
<1>5. Calls
  BY <1>2, <1>3, <1>4 DEF Calls, RowsInTime, AsksOfWorker, ReportsOfWorker
<1>6. \A s, a, m : s \in Steps => ~Tied(s, a, m)
  BY <1>3, <1>4 DEF Tied, TiedByRow, TiedByAsk, TiedByWorker, TiedByHistory, Beginning
<1>7. Ties
  BY <1>6 DEF Ties, OneLife, TiedIsClaimed
<1>8. Restarts
  BY <1>3, <1>4 DEF Restarts, BegunIsAtWork, GivenIsFresh, AnsweredIsOver, RerunOnlyAfterGivingUp
<1>9. Exiting
  BY <1>3, <1>4 DEF Exiting, ExitsHappened, ExitIsCurrent
<1>10. QED
  BY <1>1, <1>5, <1>7, <1>8, <1>9 DEF IInv

LEMMA StepHolds ==
    ASSUME IInv, [Next]_vars
    PROVE  IInv'
<1>0. Typed /\ Calls /\ Ties /\ Restarts /\ Exiting
  BY DEF IInv
<1>1. CASE UNCHANGED vars
  <2>1. Typed'
    BY <1>0, <1>1, TypedStill DEF vars, net, Typed
  <2>2. Calls' /\ Restarts' /\ Exiting'
    BY <1>0, <1>1 DEF vars, server, node, net, hist, Calls, RowsInTime, AsksOfWorker, ReportsOfWorker,
       Restarts, BegunIsAtWork, GivenIsFresh, AnsweredIsOver, RerunOnlyAfterGivingUp, Begun, GivenUp, AtIt,
       Exiting, ExitsHappened, ExitIsCurrent
  <2>3. TiesMove
    BY <1>1 DEF vars, server, node, net, hist, TiesMove, Tied, TiedByAsk, TiedByWorker, TiedByHistory
  <2>4. RowsMove
    BY <1>1, RowsStill DEF vars, server
  <2>5. QED
    BY <1>0, <2>1, <2>2, <2>3, <2>4, TiesKept DEF IInv
<1>2. CASE Next
  <2>1. Exiting'
    BY <1>0, <1>2, ExitingKept
  <2>2. CASE Work \/ Exits \/ Advertise
    <3>1. row' = row
      BY <2>2 DEF Work, Advertise, AskClaim, Begin, Refuse, Abort, Exits, Finalize, SendReport, GetStep, Reported, SendBeat, GetBeat,
         server
    <3>2. AsksOfWorker
      BY <1>0 DEF Calls
    <3>3. Ties'
      BY <1>0, <2>2, <3>1, <3>2, RowsStill, NodeTies, TiesKept
    <3>4. QED
      BY <1>0, <2>1, <2>2, <3>3, NodeTyped, NodeCalls, NodeRestarts DEF IInv
  <2>3. CASE Lose
    <3>1. row' = row
      BY <2>3 DEF Lose, EndAsk, LoseReport, ReportErrs, LoseBeat, LeaseExpires, Forget, Vanish, RestartNode, server
    <3>2. ReportsOfWorker
      BY <1>0 DEF Calls
    <3>3. Ties'
      BY <1>0, <2>3, <3>1, RowsStill, LossTies, TiesKept
    <3>4. QED
      BY <1>0, <2>1, <2>3, <3>2, <3>3, LossTyped, LossCalls, LossRestarts DEF IInv
  <2>4. CASE Serve \/ Hear \/ Sweep \/ (\E e \in exits : MarkExited(e)) \/ (\E r \in Runs : Grant(r) \/ EndRun(r))
    <3>1. RowsInTime
      BY <1>0 DEF Calls
    <3>2. ASSUME NEW c \in asks, Take(c)
          PROVE  Ties'
      BY <1>0, <3>2, TakeTies
    <3>3. ASSUME NEW c \in asks, Redeliver(c) \/ LeaseWent(c) \/ Look(c)
          PROVE  Ties'
      <4>1. RowsMove
        BY <1>0, <3>3, RedeliverMoves, RowsStill DEF LeaseWent, Look, server
      <4>2. QED
        BY <1>0, <3>3, <4>1, MediatorTies, TiesKept
    <3>4. ASSUME Hear \/ Sweep \/ (\E e \in exits : MarkExited(e)) \/ (\E r \in Runs : Grant(r) \/ EndRun(r))
                 \/ (\E c \in reports : ReportStep(c))
          PROVE  Ties'
      <4>1. ASSUME NEW c \in beats, RenewLeases(c)
            PROVE  RowsMove
        BY <4>1, RowsStill DEF RenewLeases
      <4>2. RowsMove
        BY <1>0, <3>1, <3>4, <4>1, ClosingMoves, MarkMoves, GrantMoves, ReportMoves DEF Hear
      <4>3. QED
        BY <1>0, <3>4, <4>2, MediatorTies, TiesKept
    <3>5. Ties'
      BY <2>4, <3>2, <3>3, <3>4 DEF Serve
    <3>6. QED
      BY <1>0, <2>1, <2>4, <3>5, MediatorTyped, MediatorCalls, MediatorRestarts DEF IInv
  <2>5. QED
    BY <1>2, <2>2, <2>3, <2>4 DEF Next
<1>3. QED
  BY <1>1, <1>2

\* An attempt that two lives have begun would be tied to both.
LEMMA OneLifeBegins == IInv => NoRerunAcrossLives
<1>1. SUFFICES ASSUME IInv, NEW e \in Execution, NEW l \in Lives, NEW m \in Lives, <<e, l>> \in began, <<e, m>> \in began
               PROVE  l = m
  BY DEF NoRerunAcrossLives
<1>2. PICK s \in Steps, a \in Attempts : e = <<s, a>>
  BY DEF Execution
<1>3. l \in LivesAndNone /\ m \in LivesAndNone
  BY Bounds DEF Lives, LivesAndNone
<1>4. Tied(s, a, l) /\ Tied(s, a, m)
  BY <1>1, <1>2 DEF Tied, TiedByHistory
<1>5. QED
  BY <1>1, <1>3, <1>4 DEF IInv, Ties, OneLife

\* Whatever life the node begins with, and whichever Runs were cancelled
\* before: the inductive invariant holds.
LEMMA AlwaysIInv ==
    ASSUME NEW l \in Lives, NEW gone \in SUBSET Runs
    PROVE  Starts(l, gone) /\ [][Next]_vars => []IInv
<1>1. Starts(l, gone) => IInv
  BY StartHolds
<1>2. IInv /\ [Next]_vars => IInv'
  BY StepHolds
<1>3. QED
  BY <1>1, <1>2, PTL

\* The tables, the node's memory and the calls on their way keep their
\* types, whatever is lost, late or restarted.
THEOREM TypesStay == Spec => []TypeOK
<1>1. 1 \in Lives /\ {} \in SUBSET Runs
  BY Bounds DEF Lives
<1>2. Init /\ [][Next]_vars => []IInv
  BY <1>1, AlwaysIInv DEF Init
<1>3. IInv => TypeOK
  BY TypeParts DEF IInv
<1>4. QED
  BY <1>2, <1>3, PTL DEF Spec

\* redeliver and FailRestarted (store/claim.go): one attempt of a step is
\* started by one life of its node only, in whatever order the claims,
\* heartbeats and reports of an earlier life trail in.
THEOREM OneLifeRuns ==
    ASSUME NEW l \in Lives, NEW gone \in SUBSET Runs
    PROVE  Starts(l, gone) /\ [][Next]_vars => []NoRerunAcrossLives
<1>1. Starts(l, gone) /\ [][Next]_vars => []IInv
  BY AlwaysIInv
<1>2. IInv => NoRerunAcrossLives
  BY OneLifeBegins
<1>3. QED
  BY <1>1, <1>2, PTL

\* execute and report (enode/claim.go): within a life an attempt is started
\* again only when its Worker had given it up before the Mediator had its
\* report.
THEOREM RerunNeedsGivingUp ==
    ASSUME NEW l \in Lives, NEW gone \in SUBSET Runs
    PROVE  Starts(l, gone) /\ [][Next]_vars => []RerunOnlyAfterGivingUp
<1>1. Starts(l, gone) /\ [][Next]_vars => []IInv
  BY AlwaysIInv
<1>2. IInv => RerunOnlyAfterGivingUp
  BY DEF IInv, Restarts
<1>3. QED
  BY <1>1, <1>2, PTL

\* MarkExited (store/claim.go): a row says "finalizing" only of an attempt
\* that has exited in the life that claimed it.
THEOREM ExitsAreCurrent ==
    ASSUME NEW l \in Lives, NEW gone \in SUBSET Runs
    PROVE  Starts(l, gone) /\ [][Next]_vars => []ExitIsCurrent
<1>1. Starts(l, gone) /\ [][Next]_vars => []IInv
  BY AlwaysIInv
<1>2. IInv => ExitIsCurrent
  BY DEF IInv, Exiting
<1>3. QED
  BY <1>1, <1>2, PTL
=============================================================================
