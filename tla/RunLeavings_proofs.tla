------------------------- MODULE RunLeavings_proofs -------------------------
(***************************************************************************)
(* What a Run leaves: its verdict (RunOutcome), for every contract the     *)
(* Mediator accepts, and the transcript of a step (RunRecord), for every   *)
(* number of attempts, buffer and limit.                                   *)
(*                                                                         *)
(* A verdict is given once, on rows that nothing changes afterwards; what  *)
(* has to be shown is that the rows say what happened.  OutcomeInv is that *)
(* link: a claimed step is at work at its node for the attempt of its row, *)
(* what it has stored is stored under that attempt, the result of a row is *)
(* that of its last execution or of one before it, and what a fork chose   *)
(* in its last attempt is marked.  The last needs that attempts only grow, *)
(* which is so unless retries nest.                                        *)
(*                                                                         *)
(* What a step reads is the newest of its name because of an order that    *)
(* retries and forks keep: what a step surely waits for is over when it    *)
(* begins, stays over while it is at work, and goes back only together     *)
(* with it (InOrder).  Then producers that wait for each other store one   *)
(* after another, under attempts that do not fall (InputsInv).             *)
(*                                                                         *)
(* A transcript has no hole because the file has, at all times, every byte *)
(* before the first one that is still on its way to it: before the chunks  *)
(* that handlers have not read yet, and before what the uploader holds.    *)
(* RecordInv says so, with what an uploader, its requests and the files    *)
(* must look like for it.                                                  *)
(***************************************************************************)
EXTENDS RunOutcome, RunRecord, WellFoundedInduction, TLAPS

States == {"PENDING", "CLAIMED", "DONE", "FAILED", "SKIPPED"}
Exits == {"none", "zero", "other"}
Stages == {"idle", "claimed", "working", "told"}

\* W stands for the names that can be in $OUT.
ResultOf(W) == [exit : Exits, produced : SUBSET W, of : Nat]
RowOf(W) == [state : States, attempt : Nat, chosen : BOOLEAN, result : ResultOf(W)]
WorkOf(W) == [st : Stages, no : Nat, attempt : Nat \cup {-1}, old : SUBSET W, up : SUBSET W,
              exit : Exits]

Writable == stray \cup UNION {c[i].out : i \in Seqs}

Contracted == \E g \in Given : c = g.steps /\ conds = g.conds /\ stray = g.stray

Typed ==
    /\ Contracted
    /\ row \in [Seqs -> RowOf(Writable)]
    /\ work \in [Seqs -> WorkOf(Writable)]
    /\ late \subseteq Seqs \X ResultOf(Writable)
    /\ run \in {"RUNNING", "SUCCEEDED", "FAILED"}

\* The artifacts N of an attempt of s are among B.
Kept(B, s, a, N) == \A n \in N : \E b \in B : b.seq = s /\ b.attempt = a /\ b.name = n

\* A step that is claimed is at work at its node, for the attempt of its row,
\* and what it has stored is stored under that attempt.
AtWork(s, r, w, B) ==
    r.state = "CLAIMED" =>
        /\ w.st \in {"claimed", "working"} /\ w.attempt = r.attempt
        /\ Kept(B, s, r.attempt, w.up)

\* The execution numbered no is over.
IsPast(no, w) == no <= w.no /\ (w.st # "told" => no < w.no)

\* The result of a step that is done is of an execution that is over; that of
\* its last execution says what that did, and its artifacts are stored.
Tells(s, r, w, B) ==
    r.state = "DONE" =>
        /\ IsPast(r.result.of, w)
        /\ r.result.of = w.no =>
            /\ r.result.exit = w.exit /\ r.result.produced = w.up
            /\ Kept(B, s, r.attempt, w.up)

\* After the end of the Run nothing is claimed any more, and reports change no row.
StepOk(s) ==
    /\ run = "RUNNING" => AtWork(s, row[s], work[s], blobs)
    /\ Tells(s, row[s], work[s], blobs)

\* A copy is of an execution that is over.
LateOk == \A l \in late : IsPast(l[2].of, work[l[1]])

\* An artifact is stored once per place and name, under a name its step may write.
BlobsOk ==
    /\ \A b, o \in blobs : Place(b) = Place(o) /\ b.name = o.name => b = o
    /\ \A b \in blobs : b.seq \in Seqs /\ b.attempt \in Nat /\ b.name \in c[b.seq].out \cup stray

\* In the rows v, steps that begin again together are in the same attempt.
Even(v) ==
    \A e \in Seqs : \A S \in {LoopOf(e), CheckOf(e)} : \A s, t \in S : v[s].attempt = v[t].attempt

\* No artifact is of a later attempt than its step.
NoneAhead == \A b \in blobs : b.attempt <= row[b.seq].attempt

\* f is a fork, and nobody else writes the name in which it tells its choice.
Speaks(f) == c[f].to # {} /\ Producers(c[f].via) = {f} /\ Distinct(c[f].via)

\* What a fork chose in its last attempt is marked.
MarksChoice(f) ==
    row[f].state = "DONE" /\ Own(f) /\ Speaks(f) =>
        \A t \in c[f].to : Picks(f, t) => row[t].chosen

\* The verdict was given on the rows as they are.
Judged ==
    /\ run = "SUCCEEDED" => Over /\ ~Broke /\ Verified
    /\ run = "FAILED" => Broke \/ (Over /\ ~Verified)

Choices == Even(row) /\ NoneAhead /\ \A f \in Seqs : MarksChoice(f)

OutcomeInv ==
    /\ Typed /\ (\A s \in Seqs : StepOk(s)) /\ LateOk /\ BlobsOk /\ Judged
    /\ ~RetriesNest => Choices

-----------------------------------------------------------------------------
(* The contract.                                                           *)

\* What a contract of Given says of its own shape.
LEMMA ContractShape ==
    ASSUME Contracted
    PROVE  /\ Len(c) \in Nat /\ Seqs = 1..Len(c)
           /\ \A s \in Seqs : /\ c[s].back \in Nat /\ c[s].back <= s
                             /\ c[s].to \subseteq Seqs /\ c[s].from \subseteq Writable
           /\ \A q \in conds : q.step \in Seqs \cup {0}
<1>1. PICK g \in Given : c = g.steps /\ conds = g.conds /\ stray = g.stray
  BY DEF Contracted
<1>2. Len(c) \in Nat /\ Seqs = 1..Len(c) /\ \A s \in Seqs : c[s].back \in Nat
  BY <1>1, OutcomeAssumption DEF Seqs
<1>3. Validate(c, Roles) /\ ArtifactsOk(c) /\ CondsOk(c, conds)
  BY <1>1, OutcomeAssumption
<1>4. \A s \in Seqs : c[s].back <= s
  BY <1>2, <1>3 DEF Validate, LoopOk, Seqs
<1>5. \A s \in Seqs : c[s].from \subseteq Writable
  BY <1>3 DEF ArtifactsOk, Writable, Seqs
<1>6. \A q \in conds : q.step \in Seqs \cup {0}
  BY <1>3 DEF CondsOk, Seqs
<1>7. ASSUME NEW s \in Seqs, NEW t \in c[s].to
      PROVE  t \in Seqs
  <2>1. c[s].to \subseteq (s + 1)..Len(c)
    BY <1>3 DEF Validate, DispatchOk, Seqs
  <2> QED BY <1>2, <2>1
<1> QED BY <1>2, <1>4, <1>5, <1>6, <1>7

\* Every set of naturals that is not empty has a least member.
LEMMA LeastExists ==
    ASSUME NEW S \in SUBSET Nat, S # {}
    PROVE  \E m \in S : \A k \in S : m <= k
<1>1. PICK x \in S : \A y \in S : ~ (<<y, x>> \in OpToRel(<, Nat))
  BY NatLessThanWellFounded, WFMin, Zenon
<1>2. \A y \in S : ~(y < x)
  BY <1>1 DEF OpToRel
<1> QED BY <1>2

\* The last of finitely many steps is one of them.
LEMMA MostIsMember ==
    ASSUME NEW n \in Nat, NEW S \in SUBSET (1..n), S # {}
    PROVE  Most(S) \in S
<1> DEFINE D == {n - x : x \in S}
<1>1. D \in SUBSET Nat /\ D # {}
  <2>1. \A x \in S : x \in 1..n /\ n - x \in Nat
    OBVIOUS
  <2> QED BY <2>1
<1>2. PICK m \in D : \A k \in D : m <= k
  BY <1>1, LeastExists
<1>3. PICK x \in S : m = n - x
  BY <1>2
<1>4. ASSUME NEW y \in S
      PROVE  y <= x
  <2>1. n - y \in D /\ m <= n - y
    BY <1>2
  <2>2. x \in 1..n /\ y \in 1..n
    OBVIOUS
  <2> QED BY <1>3, <2>1, <2>2
<1> QED BY <1>4 DEF Most

\* The steps that begin again together are steps; a loop's last step is one of
\* those of the loop, and the step that a check sends back one of the check.
LEMMA RewindsSteps ==
    ASSUME Contracted, NEW s \in Seqs
    PROVE  /\ LoopOf(s) \subseteq Seqs /\ CheckOf(s) \subseteq Seqs
           /\ c[s].back # 0 => s \in LoopOf(s)
           /\ Checked(s) # {} => Target(s) \in CheckOf(s) /\ Target(s) \in Seqs
<1>1. Len(c) \in Nat /\ Seqs = 1..Len(c) /\ c[s].back \in Nat /\ c[s].back <= s
  BY ContractShape
<1>2. s - 1 \in Nat /\ Checked(s) \in SUBSET (1..(s - 1))
  BY <1>1 DEF Checked
<1>3. Checked(s) # {} => Target(s) \in Checked(s)
  BY <1>2, MostIsMember DEF Target
<1>4. Checked(s) # {} => Target(s) \in Seqs
  BY <1>1, <1>2, <1>3
<1>5. LoopOf(s) \subseteq Seqs /\ (c[s].back # 0 => s \in LoopOf(s))
  BY <1>1 DEF LoopOf
<1>6. CheckOf(s) \subseteq Seqs /\ (Checked(s) # {} => Target(s) \in CheckOf(s))
  BY <1>4 DEF CheckOf
<1> QED BY <1>4, <1>5, <1>6

-----------------------------------------------------------------------------
(* What a report makes of the rows.                                        *)

\* One row in another state.
LEMMA OtherState ==
    ASSUME NEW W, NEW x \in RowOf(W), NEW st \in States, NEW y, y = [x EXCEPT !.state = st]
    PROVE  /\ y \in RowOf(W) /\ y.state = st /\ y.attempt = x.attempt /\ y.result = x.result
           /\ (x.chosen => y.chosen) /\ (y.chosen => x.chosen)
BY DEF RowOf

\* The rows in which the steps S begin anew.
LEMMA BegunAgain ==
    ASSUME NEW W, NEW v \in [Seqs -> RowOf(W)], NEW S, NEW a \in Nat
    PROVE  /\ Again(v, S, a) \in [Seqs -> RowOf(W)]
           /\ \A t \in Seqs : t \notin S => Again(v, S, a)[t] = v[t]
           /\ \A t \in Seqs : t \in S =>
                /\ Again(v, S, a)[t].state = "PENDING" /\ Again(v, S, a)[t].attempt = a
                /\ v[t].chosen => Again(v, S, a)[t].chosen
<1> DEFINE y(t) == [v[t] EXCEPT !.state = "PENDING", !.attempt = a, !.result = NoResult]
<1>1. NoResult \in ResultOf(W)
  BY DEF NoResult, ResultOf, Exits
<1>2. ASSUME NEW t \in Seqs
      PROVE  /\ y(t) \in RowOf(W) /\ y(t).state = "PENDING" /\ y(t).attempt = a
             /\ v[t].chosen => y(t).chosen
  BY <1>1 DEF RowOf, States
<1>3. Again(v, S, a) = [t \in Seqs |-> IF t \in S THEN y(t) ELSE v[t]]
  BY DEF Again
<1> HIDE DEF y
<1> QED BY <1>2, <1>3

\* A fork skips steps and revives one, which it marks; nothing else of a row changes.
LEMMA DispatchedRows ==
    ASSUME NEW W, NEW v \in [Seqs -> RowOf(W)], NEW to, NEW x \in Seqs
    PROVE  /\ Dispatched(v, to, x) \in [Seqs -> RowOf(W)]
           /\ Dispatched(v, to, x)[x].chosen
           /\ \A t \in Seqs :
                /\ Dispatched(v, to, x)[t].state \in {v[t].state, "PENDING", "SKIPPED"}
                /\ Dispatched(v, to, x)[t].attempt = v[t].attempt
                /\ Dispatched(v, to, x)[t].result = v[t].result
                /\ v[t].chosen => Dispatched(v, to, x)[t].chosen
<1> DEFINE lives == [v EXCEPT ![x].chosen = TRUE,
                              ![x].state = IF @ = "SKIPPED" THEN "PENDING" ELSE @]
           passed == [s \in Seqs |-> IF s \in to \ {x} /\ lives[s].state = "PENDING"
                                     THEN [lives[s] EXCEPT !.state = "SKIPPED"] ELSE lives[s]]
           dead[s \in Seqs] ==
               \/ passed[s].state = "SKIPPED"
               \/ /\ passed[s].state = "PENDING" /\ NeedsOf(c, s) # {}
                  /\ \A n \in NeedsOf(c, s) : dead[n]
           all == [s \in Seqs |-> IF dead[s] THEN [passed[s] EXCEPT !.state = "SKIPPED"]
                                  ELSE passed[s]]
           Only(u, t) == /\ u[t].state \in {v[t].state, "PENDING", "SKIPPED"}
                         /\ u[t].attempt = v[t].attempt /\ u[t].result = v[t].result
                         /\ v[t].chosen => u[t].chosen
<1>1. Dispatched(v, to, x) = all
  BY DEF Dispatched
<1>2. lives \in [Seqs -> RowOf(W)] /\ lives[x].chosen /\ \A t \in Seqs : Only(lives, t)
  <2> DEFINE y == [v[x] EXCEPT !.chosen = TRUE,
                               !.state = IF v[x].state = "SKIPPED" THEN "PENDING" ELSE v[x].state]
  <2>1. /\ y \in RowOf(W) /\ y.chosen /\ y.state \in {v[x].state, "PENDING"}
        /\ y.attempt = v[x].attempt /\ y.result = v[x].result
    BY DEF RowOf, States
  <2>2. lives = [v EXCEPT ![x] = y]
    OBVIOUS
  <2> HIDE DEF y, lives
  <2> QED BY <2>1, <2>2
<1> HIDE DEF lives
<1>3. passed \in [Seqs -> RowOf(W)] /\ passed[x].chosen /\ \A t \in Seqs : Only(passed, t)
  <2>1. \A t \in Seqs : \/ passed[t] = lives[t]
                        \/ passed[t] = [lives[t] EXCEPT !.state = "SKIPPED"]
    OBVIOUS
  <2>2. DOMAIN passed = Seqs /\ passed = [t \in Seqs |-> passed[t]]
    OBVIOUS
  <2> HIDE DEF passed
  <2>3. ASSUME NEW t \in Seqs
        PROVE  /\ passed[t] \in RowOf(W) /\ Only(passed, t) /\ (lives[t].chosen => passed[t].chosen)
    <3>1. CASE passed[t] = lives[t]
      BY <3>1, <1>2
    <3>2. CASE passed[t] = [lives[t] EXCEPT !.state = "SKIPPED"]
      <4>1. lives[t] \in RowOf(W) /\ "SKIPPED" \in States
        BY <1>2 DEF States
      <4> QED BY <4>1, <3>2, <1>2, OtherState
    <3> QED BY <2>1, <3>1, <3>2
  <2> QED BY <1>2, <2>2, <2>3
<1> HIDE DEF passed
<1>4. \A t \in Seqs : \/ all[t] = passed[t]
                      \/ all[t] = [passed[t] EXCEPT !.state = "SKIPPED"]
  OBVIOUS
<1>5. DOMAIN all = Seqs /\ all = [t \in Seqs |-> all[t]]
  OBVIOUS
<1> HIDE DEF all, dead
<1>6. ASSUME NEW t \in Seqs
      PROVE  /\ all[t] \in RowOf(W) /\ Only(all, t) /\ (passed[t].chosen => all[t].chosen)
  <2>1. CASE all[t] = passed[t]
    BY <2>1, <1>3
  <2>2. CASE all[t] = [passed[t] EXCEPT !.state = "SKIPPED"]
    <3>1. passed[t] \in RowOf(W) /\ "SKIPPED" \in States
      BY <1>3 DEF States
    <3> QED BY <3>1, <2>2, <1>3, OtherState
  <2> QED BY <1>4, <2>1, <2>2
<1> QED BY <1>1, <1>3, <1>5, <1>6

\* What a row keeps when the report of another step is handled.
Keeps(x, y) ==
    /\ y.state \in {"CLAIMED", "DONE"} => y.state = x.state /\ y.attempt = x.attempt /\ y.result = x.result
    /\ x.chosen => y.chosen

\* The steps S are in the attempt after the one of m.
Forward(v, u, S, m) ==
    \A t \in Seqs : IF t \in S THEN u[t].attempt = v[m].attempt + 1 ELSE u[t].attempt = v[t].attempt

\* The attempts of the rows u are those of the rows v, or a loop or a check has
\* gone back.
Advanced(v, u, s) ==
    \/ \A t \in Seqs : u[t].attempt = v[t].attempt
    \/ \E S \in {LoopOf(s), CheckOf(s)} : \E m \in S : Forward(v, u, S, m)

\* Going back makes no row CLAIMED or DONE, and takes the steps forward.
LEMMA GoneBack ==
    ASSUME Contracted, NEW W, NEW v \in [Seqs -> RowOf(W)], NEW s \in Seqs,
           NEW S \in {LoopOf(s), CheckOf(s)}, NEW m \in S, s \in S,
           NEW u, u = Again(v, S, v[m].attempt + 1)
    PROVE  /\ u \in [Seqs -> RowOf(W)]
           /\ u[s].state = "PENDING" /\ Advanced(v, u, s)
           /\ \A t \in Seqs : Keeps(v[t], u[t])
<1> DEFINE a == v[m].attempt + 1
<1>1. m \in Seqs /\ a \in Nat
  BY RewindsSteps DEF RowOf
<1>2. /\ u \in [Seqs -> RowOf(W)]
      /\ \A t \in Seqs : t \notin S => u[t] = v[t]
      /\ \A t \in Seqs : t \in S =>
            u[t].state = "PENDING" /\ u[t].attempt = a /\ (v[t].chosen => u[t].chosen)
  BY <1>1, BegunAgain
<1>3. Forward(v, u, S, m)
  BY <1>2 DEF Forward
<1>4. \A t \in Seqs : Keeps(v[t], u[t])
  BY <1>2 DEF Keeps
<1> QED BY <1>2, <1>3, <1>4 DEF Advanced

\* What the report of a claimed step makes of the rows.
LEMMA ReportedRows ==
    ASSUME Contracted, NEW W, row \in [Seqs -> RowOf(W)],
           NEW s \in Seqs, NEW ok \in BOOLEAN, NEW r \in ResultOf(W), NEW u \in Reported(s, ok, r)
    PROVE  /\ u \in [Seqs -> RowOf(W)]
           /\ u[s].state # "CLAIMED"
           /\ u[s].state = "DONE" =>
                /\ u[s].attempt = row[s].attempt /\ u[s].result = r
                /\ c[s].to # {} => \E x \in ChosenBy(s) : u[x].chosen
           /\ row[s].chosen => u[s].chosen
           /\ \A t \in Seqs : t # s => Keeps(row[t], u[t])
           /\ Advanced(row, u, s)
<1>0. PICK how : how = IF ok THEN "DONE" ELSE "FAILED"
  OBVIOUS
<1>a. PICK told : told = [row EXCEPT ![s].state = how, ![s].result = r]
  OBVIOUS
<1>1. how \in States /\ how # "CLAIMED" /\ (ok => how = "DONE") /\ (~ok => how = "FAILED")
  BY <1>0 DEF States
<1>2. /\ told \in [Seqs -> RowOf(W)]
      /\ told[s].state = how /\ told[s].result = r
      /\ told[s].attempt = row[s].attempt /\ (row[s].chosen => told[s].chosen)
      /\ \A t \in Seqs : t # s => told[t] = row[t]
  <2>1. PICK y : y = [row[s] EXCEPT !.state = how, !.result = r]
    OBVIOUS
  <2>2. told = [row EXCEPT ![s] = y]
    BY <1>a, <2>1
  <2>3. /\ y \in RowOf(W) /\ y.state = how /\ y.result = r /\ y.attempt = row[s].attempt
        /\ row[s].chosen => y.chosen
    BY <1>1, <2>1 DEF RowOf
  <2> QED BY <2>2, <2>3
<1>2a. told \in [Seqs -> RowOf(W)]
  BY <1>2
<1>3. /\ LoopOf(s) \subseteq Seqs /\ CheckOf(s) \subseteq Seqs
      /\ c[s].back # 0 => s \in LoopOf(s)
      /\ Checked(s) # {} => Target(s) \in CheckOf(s) /\ Target(s) \in Seqs
  BY RewindsSteps
<1>4. \/ ~ok /\ u = told
      \/ ok /\ LoopsBack(told, s) /\ u = Again(told, c[s].back..s, told[s].attempt + 1)
      \/ ok /\ ValidatesBack(told, s) /\ u = Again(told, {Target(s), s}, told[Target(s)].attempt + 1)
      \/ ok /\ u \in Effects(told, s)
  BY <1>0, <1>a DEF Reported
<1>5. \A t \in Seqs : told[t].attempt = row[t].attempt
  BY <1>2
<1>6. \A t \in Seqs : t # s => Keeps(row[t], told[t])
  BY <1>2 DEF Keeps
<1>7. ASSUME \A t \in Seqs : Keeps(told[t], u[t])
      PROVE  (row[s].chosen => u[s].chosen) /\ \A t \in Seqs : t # s => Keeps(row[t], u[t])
  BY <1>2, <1>7 DEF Keeps
<1>8. ASSUME Advanced(told, u, s)
      PROVE  Advanced(row, u, s)
  BY <1>3, <1>5, <1>8 DEF Advanced, Forward
<1>9. CASE ~ok /\ u = told
  BY <1>1, <1>2, <1>5, <1>6, <1>9 DEF Advanced
<1>10. CASE ok /\ LoopsBack(told, s) /\ u = Again(told, c[s].back..s, told[s].attempt + 1)
  <2>1. s \in LoopOf(s)
    BY <1>3, <1>10 DEF LoopsBack
  <2>2. u = Again(told, LoopOf(s), told[s].attempt + 1)
    BY <1>10 DEF LoopsBack, LoopOf
  <2>3. /\ u \in [Seqs -> RowOf(W)] /\ u[s].state = "PENDING" /\ Advanced(told, u, s)
        /\ \A t \in Seqs : Keeps(told[t], u[t])
    BY <1>2a, <2>1, <2>2, GoneBack
  <2> QED BY <1>7, <1>8, <2>3
<1>11. CASE ok /\ ValidatesBack(told, s) /\ u = Again(told, {Target(s), s}, told[Target(s)].attempt + 1)
  <2>1. s \in CheckOf(s) /\ Target(s) \in CheckOf(s)
    BY <1>11 DEF ValidatesBack, CheckOf
  <2>2. u = Again(told, CheckOf(s), told[Target(s)].attempt + 1)
    BY <1>11 DEF ValidatesBack, CheckOf
  <2>3. /\ u \in [Seqs -> RowOf(W)] /\ u[s].state = "PENDING" /\ Advanced(told, u, s)
        /\ \A t \in Seqs : Keeps(told[t], u[t])
    BY <1>2a, <2>1, <2>2, GoneBack
  <2> QED BY <1>7, <1>8, <2>3
<1>12. CASE ok /\ u \in Effects(told, s)
  <2>1. \/ c[s].to = {} /\ u = told
        \/ u = [told EXCEPT ![s].state = "FAILED"]
        \/ \E x \in ChosenBy(s) : u = Dispatched(told, c[s].to, x)
    BY <1>12 DEF Effects
  <2>2. CASE c[s].to = {} /\ u = told
    BY <1>1, <1>2, <1>5, <1>6, <1>12, <2>2 DEF Advanced
  <2>3. CASE u = [told EXCEPT ![s].state = "FAILED"]
    <3> DEFINE y == [told[s] EXCEPT !.state = "FAILED"]
    <3>1. u = [told EXCEPT ![s] = y]
      BY <2>3
    <3>2. /\ y \in RowOf(W) /\ y.state = "FAILED" /\ y.attempt = told[s].attempt
          /\ told[s].chosen => y.chosen
      <4>1. "FAILED" \in States
        BY DEF States
      <4> QED BY <1>2, <4>1, OtherState
    <3> HIDE DEF y
    <3>3. /\ u \in [Seqs -> RowOf(W)] /\ u[s] = y /\ \A t \in Seqs : t # s => u[t] = told[t]
      BY <1>2, <3>1, <3>2
    <3>4. \A t \in Seqs : u[t].attempt = row[t].attempt
      BY <1>5, <3>2, <3>3
    <3>5. \A t \in Seqs : t # s => Keeps(row[t], u[t])
      BY <1>6, <3>3
    <3> QED BY <1>2, <3>2, <3>3, <3>4, <3>5 DEF Advanced
  <2>4. CASE \E x \in ChosenBy(s) : u = Dispatched(told, c[s].to, x)
    <3>1. PICK x \in ChosenBy(s) : u = Dispatched(told, c[s].to, x)
      BY <2>4
    <3>2. x \in Seqs
      BY ContractShape DEF ChosenBy
    <3>3. /\ u \in [Seqs -> RowOf(W)] /\ u[x].chosen
          /\ \A t \in Seqs :
                /\ u[t].state \in {told[t].state, "PENDING", "SKIPPED"}
                /\ u[t].attempt = told[t].attempt /\ u[t].result = told[t].result
                /\ told[t].chosen => u[t].chosen
      BY <1>2, <3>1, <3>2, DispatchedRows
    <3>4. \A t \in Seqs : Keeps(told[t], u[t])
      BY <3>3 DEF Keeps
    <3>5. \A t \in Seqs : u[t].attempt = row[t].attempt
      BY <1>5, <3>3
    <3>6. u[s].state # "CLAIMED"
      BY <1>1, <1>2, <3>3
    <3>7. Advanced(row, u, s)
      BY <3>5 DEF Advanced
    <3>8. u[s].result = r
      BY <1>2, <3>3
    <3> QED BY <1>7, <3>1, <3>3, <3>4, <3>5, <3>6, <3>7, <3>8
  <2> QED BY <2>1, <2>2, <2>3, <2>4
<1> QED BY <1>4, <1>9, <1>10, <1>11, <1>12

-----------------------------------------------------------------------------
(* Attempts and choices.                                                   *)

\* Unless retries nest, the steps of two retries are the same or have none in common.
LEMMA RetriesApart ==
    ASSUME ~RetriesNest, NEW d \in Seqs, NEW e \in Seqs,
           NEW S \in {LoopOf(d), CheckOf(d)}, NEW T \in {LoopOf(e), CheckOf(e)}
    PROVE  S = T \/ S \cap T = {}
<1>1. CASE S = LoopOf(d) /\ T = LoopOf(e)
  BY <1>1 DEF RetriesNest
<1>2. CASE S = CheckOf(d) /\ T = CheckOf(e)
  BY <1>2 DEF RetriesNest
<1>3. CASE S = LoopOf(d) /\ T = CheckOf(e)
  BY <1>3 DEF RetriesNest
<1>4. CASE S = CheckOf(d) /\ T = LoopOf(e)
  <2>1. T \cap S = {}
    BY <1>4 DEF RetriesNest
  <2> QED BY <2>1
<1> QED BY <1>1, <1>2, <1>3, <1>4

\* Then steps that begin again together stay together, and attempts only grow.
LEMMA AttemptsGrow ==
    ASSUME Contracted, ~RetriesNest, Even(row), NEW W, row \in [Seqs -> RowOf(W)],
           NEW s \in Seqs, NEW u, Advanced(row, u, s)
    PROVE  Even(u) /\ \A t \in Seqs : row[t].attempt <= u[t].attempt
<1>1. \A t \in Seqs : row[t].attempt \in Nat
  BY DEF RowOf
<1>2. \A e \in Seqs : LoopOf(e) \subseteq Seqs /\ CheckOf(e) \subseteq Seqs
  BY RewindsSteps
<1>3. CASE \A t \in Seqs : u[t].attempt = row[t].attempt
  <2>1. Even(u)
    BY <1>2, <1>3 DEF Even
  <2> QED BY <1>1, <1>3, <2>1
<1>4. CASE \E S \in {LoopOf(s), CheckOf(s)} : \E m \in S : Forward(row, u, S, m)
  <2>0. PICK S \in {LoopOf(s), CheckOf(s)} : \E m \in S : Forward(row, u, S, m)
    BY <1>4
  <2>1. PICK m \in S : Forward(row, u, S, m)
    BY <2>0
  <2>2. m \in Seqs /\ \A t \in S : t \in Seqs /\ row[t].attempt = row[m].attempt
    BY <1>2 DEF Even
  <2>3. \A t \in Seqs : row[t].attempt <= u[t].attempt
    BY <1>1, <2>1, <2>2 DEF Forward
  <2>4. ASSUME NEW e \in Seqs, NEW T \in {LoopOf(e), CheckOf(e)}, NEW p \in T, NEW q \in T
        PROVE  u[p].attempt = u[q].attempt
    <3>1. S = T \/ S \cap T = {}
      BY RetriesApart
    <3>2. p \in Seqs /\ q \in Seqs /\ row[p].attempt = row[q].attempt
      BY <1>2 DEF Even
    <3> QED BY <2>1, <3>1, <3>2 DEF Forward
  <2> QED BY <2>3, <2>4 DEF Even
<1> QED BY <1>3, <1>4 DEF Advanced

\* What a fork that speaks alone reads under its name is its own last choice.
LEMMA ForkIsHeard ==
    ASSUME BlobsOk, NoneAhead, NEW W, row \in [Seqs -> RowOf(W)], NEW s \in Seqs, Speaks(s),
           NEW x, Picks(s, x)
    PROVE  ChosenBy(s) \subseteq {x}
<1> DEFINE n == c[s].via
<1>1. PICK b \in blobs : b.seq = s /\ b.attempt = row[s].attempt /\ b.name = n /\ b.says = x
  BY DEF Picks
<1>2. ASSUME NEW o \in blobs, Named(o, n)
      PROVE  o.name = n /\ o.seq = s /\ o.attempt \in Nat /\ o.attempt <= row[s].attempt
  <2>1. o.seq \in Seqs /\ o.attempt \in Nat /\ o.name \in c[o.seq].out \cup stray
    BY DEF BlobsOk
  <2>2. n \notin stray /\ Producers(n) = {s}
    BY DEF Speaks, Distinct
  <2>3. o.name = n
    <3>1. CASE <<o.name, n>> \in Suffixes
      <4>1. Producers(o.name) = {} /\ o.name \notin stray
        BY <3>1 DEF Speaks, Distinct
      <4>2. o.seq \in Producers(o.name)
        BY <2>1, <4>1 DEF Producers
      <4> QED BY <4>1, <4>2
    <3> QED BY <1>2, <3>1 DEF Named
  <2>4. o.seq \in Producers(n)
    BY <2>1, <2>2, <2>3 DEF Producers
  <2> QED BY <2>1, <2>2, <2>3, <2>4 DEF NoneAhead
<1>3. ASSUME NEW o \in Served(n)
      PROVE  o = b
  <2>1. o \in blobs /\ Named(o, n) /\ Named(b, n) /\ Later(o, b)
    BY <1>1, <1>3 DEF Served, Named
  <2>2. /\ o.name = n /\ o.seq = s /\ o.attempt \in Nat /\ o.attempt <= row[s].attempt
        /\ row[s].attempt \in Nat
    BY <1>2, <2>1 DEF RowOf
  <2>3. o.attempt = row[s].attempt
    BY <1>1, <2>1, <2>2 DEF Later
  <2>4. Place(o) = Place(b)
    BY <1>1, <2>2, <2>3 DEF Place
  <2> QED BY <1>1, <2>1, <2>2, <2>4 DEF BlobsOk
<1>4. ASSUME NEW y \in ChosenBy(s)
      PROVE  y = x
  BY <1>1, <1>3 DEF ChosenBy
<1> QED BY <1>4

-----------------------------------------------------------------------------
(* The inductive invariant.                                                *)

\* When the Run begins nothing has been claimed or stored.
LEMMA OutcomeInit == Init => OutcomeInv
<1> SUFFICES ASSUME Init PROVE OutcomeInv
  OBVIOUS
<1> USE DEF Init
<1>1. Contracted
  BY DEF Contracted
<1>2. FirstRow \in RowOf(Writable) /\ FirstRow.state = "PENDING" /\ FirstRow.attempt = 0
  BY DEF FirstRow, NoResult, RowOf, ResultOf, States, Exits
<1>3. Idle \in WorkOf(Writable)
  BY DEF Idle, WorkOf, Stages, Exits
<1>4. \A s \in Seqs : row[s] = FirstRow /\ work[s] = Idle
  OBVIOUS
<1>5. Typed
  BY <1>1, <1>2, <1>3 DEF Typed
<1>6. \A s \in Seqs : StepOk(s)
  BY <1>2, <1>4 DEF StepOk, AtWork, Tells
<1>7. Even(row)
  <2>1. \A e \in Seqs : LoopOf(e) \subseteq Seqs /\ CheckOf(e) \subseteq Seqs
    BY <1>1, RewindsSteps
  <2> QED BY <1>4, <2>1 DEF Even
<1>8. NoneAhead /\ LateOk /\ BlobsOk /\ Judged
  BY DEF NoneAhead, LateOk, BlobsOk, Judged
<1>9. \A f \in Seqs : MarksChoice(f)
  BY <1>2, <1>4 DEF MarksChoice
<1> QED BY <1>5, <1>6, <1>7, <1>8, <1>9 DEF OutcomeInv, Choices

\* Steps that leave a step's row and work alone, and its artifacts where they
\* are, leave what is said of it true.
LEMMA StepLeftAlone ==
    ASSUME NEW s \in Seqs, StepOk(s), row'[s] = row[s], work'[s].up = work[s].up,
           work'[s].st = work[s].st, work'[s].no = work[s].no, work'[s].attempt = work[s].attempt,
           work'[s].exit = work[s].exit, run' = run \/ run' # "RUNNING",
           \A a, N : Kept(blobs, s, a, N) => Kept(blobs', s, a, N)
    PROVE  StepOk(s)'
BY DEF StepOk, AtWork, Tells, IsPast

\* What handling a report does to the rows.
Taken(s, r) ==
    /\ run = "RUNNING" /\ row[s].state = "CLAIMED" /\ row'[s].state # "CLAIMED"
    /\ row'[s].state = "DONE" =>
            /\ row'[s].attempt = row[s].attempt /\ row'[s].result = r
            /\ c[s].to # {} => \E x \in ChosenBy(s) : row'[x].chosen

LEMMA HandledRows ==
    ASSUME Typed, NEW s \in Seqs, NEW ok \in BOOLEAN, NEW r \in ResultOf(Writable), Handle(s, ok, r)
    PROVE  /\ row' \in [Seqs -> RowOf(Writable)]
           /\ Taken(s, r) \/ (row' = row /\ ~(run = "RUNNING" /\ row[s].state = "CLAIMED"))
           /\ \A t \in Seqs : t # s => Keeps(row[t], row'[t])
           /\ \A t \in Seqs : row[t].chosen => row'[t].chosen
           /\ Advanced(row, row', s)
<1>1. row \in [Seqs -> RowOf(Writable)] /\ Contracted
  BY DEF Typed
<1>2. CASE run = "RUNNING" /\ row[s].state = "CLAIMED"
  <2>1. row' \in Reported(s, ok, r)
    BY <1>2 DEF Handle
  <2>2. /\ row' \in [Seqs -> RowOf(Writable)]
        /\ row'[s].state # "CLAIMED"
        /\ row'[s].state = "DONE" =>
             /\ row'[s].attempt = row[s].attempt /\ row'[s].result = r
             /\ c[s].to # {} => \E x \in ChosenBy(s) : row'[x].chosen
        /\ row[s].chosen => row'[s].chosen
        /\ \A t \in Seqs : t # s => Keeps(row[t], row'[t])
        /\ Advanced(row, row', s)
    BY <1>1, <2>1, ReportedRows
  <2>3. \A t \in Seqs : row[t].chosen => row'[t].chosen
    BY <2>2 DEF Keeps
  <2> QED BY <1>2, <2>2, <2>3 DEF Taken
<1>3. CASE ~(run = "RUNNING" /\ row[s].state = "CLAIMED")
  <2>1. row' = row
    BY <1>3 DEF Handle
  <2>2. \A t \in Seqs : Keeps(row[t], row'[t]) /\ row[t].chosen => row'[t].chosen
    BY <2>1 DEF Keeps
  <2>3. Advanced(row, row', s)
    BY <2>1 DEF Advanced
  <2>4. \A t \in Seqs : Keeps(row[t], row'[t])
    BY <2>1 DEF Keeps
  <2>5. \A t \in Seqs : row[t].chosen => row'[t].chosen
    BY <2>1
  <2> QED BY <1>1, <1>3, <2>1, <2>3, <2>4, <2>5
<1> QED BY <1>2, <1>3

\* What is said of the whole Run stays true while the contract stays the same
\* and rows only move as a report or a claim moves them.
LEMMA ChoicesStay ==
    ASSUME OutcomeInv, ~RetriesNest, UNCHANGED <<c, stray>>, row' \in [Seqs -> RowOf(Writable)],
           NEW s \in Seqs, Advanced(row, row', s), UNCHANGED blobs
    PROVE  Even(row)' /\ NoneAhead'
<1>1. Contracted /\ row \in [Seqs -> RowOf(Writable)] /\ Even(row) /\ NoneAhead
  BY DEF OutcomeInv, Typed, Choices
<1>2. Even(row') /\ \A t \in Seqs : row[t].attempt <= row'[t].attempt
  BY <1>1, AttemptsGrow
<1>3. Even(row)'
  <2>1. Seqs' = Seqs /\ \A e \in Seqs : LoopOf(e)' = LoopOf(e) /\ CheckOf(e)' = CheckOf(e)
    BY DEF LoopOf, CheckOf, Target, Checked, Seqs
  <2> QED BY <1>2, <2>1 DEF Even
<1>4. ASSUME NEW b \in blobs
      PROVE  b.attempt <= row'[b.seq].attempt
  <2>1. b.seq \in Seqs /\ b.attempt \in Nat /\ b.attempt <= row[b.seq].attempt
    BY <1>1 DEF OutcomeInv, BlobsOk, NoneAhead
  <2>2. row[b.seq].attempt \in Nat /\ row'[b.seq].attempt \in Nat
    BY <1>1, <2>1 DEF RowOf
  <2> QED BY <1>2, <2>1, <2>2
<1> QED BY <1>3, <1>4 DEF NoneAhead

\* A fork whose row moves as another step's report moves it, and whose work is
\* left alone, keeps its choice marked.
LEMMA ChoiceStays ==
    ASSUME NEW f \in Seqs, MarksChoice(f), UNCHANGED <<c, stray>>, Keeps(row[f], row'[f]),
           \A t \in Seqs : row[t].chosen => row'[t].chosen, c[f].to \subseteq Seqs,
           work'[f].st = work[f].st, work'[f].no = work[f].no,
           {b \in blobs' : b.seq = f} = {b \in blobs : b.seq = f}
    PROVE  MarksChoice(f)'
<1> SUFFICES ASSUME row'[f].state = "DONE", Own(f)', Speaks(f)', NEW t \in c[f].to, Picks(f, t)'
             PROVE  row'[t].chosen
  BY DEF MarksChoice
<1>1. /\ row[f].state = "DONE" /\ row[f].attempt = row'[f].attempt
      /\ row[f].result = row'[f].result
  BY DEF Keeps
<1>2. Own(f)
  BY <1>1 DEF Own
<1>3. Speaks(f)
  BY DEF Speaks, Producers, Distinct, Seqs
<1>4. Picks(f, t)
  BY <1>1 DEF Picks
<1>5. row[t].chosen
  BY <1>1, <1>2, <1>3, <1>4 DEF MarksChoice
<1> QED BY <1>5

\* What the invariant says of the parts that a step leaves alone.
LEMMA Frame ==
    ASSUME OutcomeInv
    PROVE  /\ UNCHANGED <<c, conds, stray>> =>
                /\ Contracted' /\ Writable' = Writable /\ Seqs' = Seqs /\ (RetriesNest' <=> RetriesNest)
           /\ UNCHANGED <<c, stray, blobs>> => BlobsOk'
           /\ run' = "RUNNING" \/ (UNCHANGED <<c, conds, fleet, row, run>>) => Judged'
<1>1. ASSUME UNCHANGED <<c, conds, stray>>
      PROVE  /\ Contracted' /\ Writable' = Writable /\ Seqs' = Seqs
             /\ RetriesNest' <=> RetriesNest
  <2>1. Contracted' /\ Writable' = Writable /\ Seqs' = Seqs
    BY <1>1 DEF OutcomeInv, Typed, Contracted, Writable, Seqs
  <2>2. RetriesNest' <=> RetriesNest
    BY <1>1 DEF RetriesNest, LoopOf, CheckOf, Target, Checked, Seqs
  <2> QED BY <2>1, <2>2
<1>2. ASSUME UNCHANGED <<c, stray, blobs>>
      PROVE  BlobsOk'
  BY <1>2 DEF OutcomeInv, BlobsOk, Place, Seqs
<1>3. ASSUME run' = "RUNNING"
      PROVE  Judged'
  BY <1>3 DEF Judged
<1>4. ASSUME UNCHANGED <<c, conds, fleet, row, run>>
      PROVE  Judged'
  BY <1>4 DEF OutcomeInv, Judged, Over, Broke, Verified, GoalGivenUp, Vacuous, Holds, Exhausted, Seqs
<1> QED BY <1>1, <1>2, <1>3, <1>4

\* The report of an execution that is over or ends now.
LEMMA ReportStep ==
    ASSUME OutcomeInv, NEW s \in Seqs, Report(s)
    PROVE  OutcomeInv'
<1>1. PICK ok \in BOOLEAN, exit \in IF c[s].command THEN {"zero", "other"} ELSE {"none"} :
        LET r == [exit |-> exit, produced |-> work[s].up, of |-> work[s].no]
        IN  /\ Handle(s, ok, r)
            /\ work' = [work EXCEPT ![s].st = "told", ![s].exit = exit]
            /\ late' = late \/ late' = late \cup {<<s, r>>}
  BY DEF Report
<1>2. /\ work[s].st = "working" /\ UNCHANGED <<c, conds, stray, fleet, blobs, newest, run>>
      /\ exit \in Exits
  BY DEF Report, given, Exits
<1>3. PICK r : r = [exit |-> exit, produced |-> work[s].up, of |-> work[s].no]
  OBVIOUS
<1>4. PICK w : w = [work[s] EXCEPT !.st = "told", !.exit = exit]
  OBVIOUS
<1>5. /\ Handle(s, ok, r) /\ (late' = late \/ late' = late \cup {<<s, r>>})
      /\ work' = [work EXCEPT ![s] = w]
  BY <1>1, <1>3, <1>4
<1>6. Typed /\ work[s] \in WorkOf(Writable) /\ Contracted
  BY DEF OutcomeInv, Typed
<1>7. r \in ResultOf(Writable) /\ r.exit = exit /\ r.produced = work[s].up /\ r.of = work[s].no
  BY <1>2, <1>3, <1>6 DEF ResultOf, WorkOf
<1>8. /\ w \in WorkOf(Writable) /\ w.st = "told" /\ w.exit = exit /\ w.no = work[s].no /\ w.up = work[s].up
      /\ w.no \in Nat
  BY <1>2, <1>4, <1>6 DEF WorkOf, Stages
<1>9. /\ row' \in [Seqs -> RowOf(Writable)]
      /\ Taken(s, r) \/ (row' = row /\ ~(run = "RUNNING" /\ row[s].state = "CLAIMED"))
      /\ \A t \in Seqs : t # s => Keeps(row[t], row'[t])
      /\ \A t \in Seqs : row[t].chosen => row'[t].chosen
      /\ Advanced(row, row', s)
  BY <1>5, <1>6, <1>7, HandledRows
<1>10. work' \in [Seqs -> WorkOf(Writable)] /\ work'[s] = w /\ \A t \in Seqs : t # s => work'[t] = work[t]
  BY <1>5, <1>6, <1>8 DEF Typed
<1>11. /\ Contracted' /\ Writable' = Writable /\ Seqs' = Seqs /\ (RetriesNest' <=> RetriesNest)
       /\ BlobsOk' /\ Judged'
  <2>1. run' = "RUNNING" \/ (UNCHANGED <<c, conds, fleet, row, run>>)
    BY <1>2, <1>9 DEF Taken
  <2> QED BY <1>2, <2>1, Frame
<1>12. Typed'
  <2>1. late' \subseteq Seqs \X ResultOf(Writable)
    BY <1>5, <1>6, <1>7 DEF Typed
  <2> QED BY <1>2, <1>6, <1>9, <1>10, <1>11, <2>1 DEF Typed
<1>13. ASSUME NEW t \in Seqs
       PROVE  StepOk(t)'
  <2>1. StepOk(t)
    BY DEF OutcomeInv
  <2>2. CASE t # s
    BY <1>2, <1>9, <1>10, <2>1, <2>2 DEF StepOk, AtWork, Tells, Keeps
  <2>3. CASE t = s /\ Taken(s, r)
    BY <1>2, <1>7, <1>8, <1>10, <2>1, <2>3 DEF StepOk, AtWork, Tells, IsPast, Taken
  <2>4. CASE t = s /\ row' = row /\ ~(run = "RUNNING" /\ row[s].state = "CLAIMED")
    BY <1>2, <1>8, <1>10, <2>1, <2>4 DEF StepOk, AtWork, Tells, IsPast
  <2> QED BY <1>9, <2>2, <2>3, <2>4
<1>14. LateOk'
  <2>1. ASSUME NEW l \in late'
        PROVE  IsPast(l[2].of, work'[l[1]])
    <3>1. CASE l \in late
      <4>1. l[1] \in Seqs /\ l[2].of \in Nat /\ IsPast(l[2].of, work[l[1]])
        BY <1>6, <3>1 DEF OutcomeInv, Typed, LateOk, ResultOf
      <4> QED BY <1>8, <1>10, <4>1 DEF IsPast
    <3>2. CASE l = <<s, r>>
      BY <1>7, <1>8, <1>10, <3>2 DEF IsPast
    <3> QED BY <1>5, <3>1, <3>2
  <2> QED BY <2>1 DEF LateOk
<1>15. ASSUME ~RetriesNest
       PROVE  Choices'
  <2>1. Choices /\ NoneAhead /\ Even(row)' /\ NoneAhead'
    BY <1>2, <1>9, <1>15, ChoicesStay DEF OutcomeInv, Choices
  <2>2. ASSUME NEW f \in Seqs
        PROVE  MarksChoice(f)'
    <3>1. MarksChoice(f) /\ c[f].to \subseteq Seqs
      BY <1>6, <2>1, ContractShape DEF Choices
    <3>2. CASE f # s
      BY <1>2, <1>9, <1>10, <3>1, <3>2, ChoiceStays
    <3>3. CASE f = s /\ row' = row /\ ~(run = "RUNNING" /\ row[s].state = "CLAIMED")
      <4>1. StepOk(s) /\ work[s].no \in Nat
        BY <1>8 DEF OutcomeInv
      <4>2. ~(row'[s].state = "DONE" /\ Own(s)')
        BY <1>2, <1>8, <1>10, <3>3, <4>1 DEF StepOk, Tells, IsPast, Own
      <4> QED BY <3>3, <4>2 DEF MarksChoice
    <3>4. CASE f = s /\ Taken(s, r)
      <4> SUFFICES ASSUME row'[s].state = "DONE", Speaks(s)', NEW x \in c[s].to, Picks(s, x)'
                   PROVE  row'[x].chosen
        BY <1>2, <3>4 DEF MarksChoice
      <4>1. Speaks(s)
        BY <1>2 DEF Speaks, Producers, Distinct, Seqs
      <4>2. Picks(s, x)
        BY <1>2, <3>4 DEF Picks, Taken
      <4>3. BlobsOk /\ NoneAhead /\ row \in [Seqs -> RowOf(Writable)]
        BY <1>6, <2>1 DEF OutcomeInv, Typed
      <4>4. ChosenBy(s) \subseteq {x}
        BY <4>1, <4>2, <4>3, ForkIsHeard
      <4> QED BY <3>4, <4>1, <4>4 DEF Taken, Speaks
    <3> QED BY <1>9, <3>2, <3>3, <3>4
  <2> QED BY <1>11, <2>1, <2>2 DEF Choices
<1> QED BY <1>11, <1>12, <1>13, <1>14, <1>15 DEF OutcomeInv

\* A copy of a report that was handled before: it is not of the execution that
\* is at work, whose row it may end.
LEMMA RepeatedStep ==
    ASSUME OutcomeInv, Repeated
    PROVE  OutcomeInv'
<1>1. PICK l \in late : Handle(l[1], TRUE, l[2]) /\ late' = late \ {l}
  BY DEF Repeated
<1>2. UNCHANGED <<c, conds, stray, fleet, work, blobs, newest, run>>
  BY DEF Repeated, given
<1>3. PICK s \in Seqs, r \in ResultOf(Writable) : l = <<s, r>>
  BY DEF OutcomeInv, Typed
<1>4. Typed /\ Contracted /\ Handle(s, TRUE, r) /\ IsPast(r.of, work[s]) /\ r.of \in Nat /\ work[s].no \in Nat
  BY <1>1, <1>3 DEF OutcomeInv, Typed, LateOk, ResultOf, WorkOf
<1>5. /\ row' \in [Seqs -> RowOf(Writable)]
      /\ Taken(s, r) \/ (row' = row /\ ~(run = "RUNNING" /\ row[s].state = "CLAIMED"))
      /\ \A t \in Seqs : t # s => Keeps(row[t], row'[t])
      /\ \A t \in Seqs : row[t].chosen => row'[t].chosen
      /\ Advanced(row, row', s)
  BY <1>4, HandledRows
<1>6. /\ Contracted' /\ Writable' = Writable /\ Seqs' = Seqs /\ (RetriesNest' <=> RetriesNest)
      /\ BlobsOk' /\ Judged'
  <2>1. run' = "RUNNING" \/ (UNCHANGED <<c, conds, fleet, row, run>>)
    BY <1>2, <1>5 DEF Taken
  <2> QED BY <1>2, <2>1, Frame
<1>7. Typed'
  BY <1>1, <1>2, <1>4, <1>5, <1>6 DEF Typed
<1>8. Taken(s, r) => r.of < work[s].no /\ work[s].st # "told"
  BY <1>4 DEF OutcomeInv, StepOk, AtWork, Taken, IsPast
<1>9. ASSUME NEW t \in Seqs
      PROVE  StepOk(t)'
  <2>1. StepOk(t)
    BY DEF OutcomeInv
  <2>2. CASE t # s
    BY <1>2, <1>5, <2>1, <2>2 DEF StepOk, AtWork, Tells, Keeps
  <2>3. CASE t = s /\ Taken(s, r)
    BY <1>2, <1>4, <1>8, <2>3 DEF StepOk, AtWork, Tells, Taken
  <2>4. CASE row' = row
    BY <1>2, <2>1, <2>4 DEF StepOk, AtWork, Tells
  <2> QED BY <1>5, <2>2, <2>3, <2>4
<1>10. LateOk'
  BY <1>1, <1>2 DEF OutcomeInv, LateOk, IsPast
<1>11. ASSUME ~RetriesNest
       PROVE  Choices'
  <2>1. Choices /\ NoneAhead /\ Even(row)' /\ NoneAhead'
    BY <1>2, <1>5, <1>11, ChoicesStay DEF OutcomeInv, Choices
  <2>2. ASSUME NEW f \in Seqs
        PROVE  MarksChoice(f)'
    <3>1. MarksChoice(f) /\ c[f].to \subseteq Seqs
      BY <1>4, <2>1, ContractShape DEF Choices
    <3>2. CASE Keeps(row[f], row'[f])
      BY <1>2, <1>5, <3>1, <3>2, ChoiceStays
    <3>3. CASE f = s /\ Taken(s, r)
      BY <1>2, <1>8, <3>3 DEF MarksChoice, Own
    <3>4. row' = row => Keeps(row[f], row'[f])
      BY DEF Keeps
    <3> QED BY <1>5, <3>2, <3>3, <3>4
  <2> QED BY <1>6, <2>1, <2>2 DEF Choices
<1> QED BY <1>6, <1>7, <1>9, <1>10, <1>11 DEF OutcomeInv

\* A claim begins another execution, which has stored nothing yet.
LEMMA ClaimStep ==
    ASSUME OutcomeInv, NEW s \in Seqs, Claim(s)
    PROVE  OutcomeInv'
<1>1. /\ run = "RUNNING" /\ row[s].state = "PENDING"
      /\ UNCHANGED <<c, conds, stray, fleet, late, blobs, newest, run>>
  BY DEF Claim, given
<1>2. Typed /\ Contracted /\ row[s] \in RowOf(Writable) /\ work[s] \in WorkOf(Writable)
  BY DEF OutcomeInv, Typed
<1>3. PICK x : x = [row[s] EXCEPT !.state = "CLAIMED"]
  OBVIOUS
<1>4. PICK st : st = IF c[s].from = {} THEN "working" ELSE "claimed"
  OBVIOUS
<1>a. PICK w : w = [Idle EXCEPT !.st = st, !.no = work[s].no + 1, !.attempt = row[s].attempt]
  OBVIOUS
<1>5. row' = [row EXCEPT ![s] = x] /\ work' = [work EXCEPT ![s] = w]
  BY <1>3, <1>4, <1>a DEF Claim
<1>6. /\ x \in RowOf(Writable) /\ x.state = "CLAIMED" /\ x.attempt = row[s].attempt
      /\ row[s].chosen => x.chosen
  BY <1>2, <1>3, OtherState DEF States
<1>7. /\ w \in WorkOf(Writable) /\ w.st \in {"claimed", "working"} /\ w.no = work[s].no + 1
      /\ w.attempt = row[s].attempt /\ w.up = {} /\ work[s].no \in Nat
  <2>1. st \in {"claimed", "working"} /\ work[s].no \in Nat /\ row[s].attempt \in Nat
    BY <1>2, <1>4 DEF WorkOf, RowOf
  <2>2. w = [st |-> st, no |-> work[s].no + 1, attempt |-> row[s].attempt, old |-> {}, up |-> {},
             exit |-> "none"]
    BY <1>a DEF Idle
  <2> QED BY <2>1, <2>2 DEF WorkOf, Stages, Exits
<1>8. /\ row' \in [Seqs -> RowOf(Writable)] /\ row'[s] = x /\ \A t \in Seqs : t # s => row'[t] = row[t]
      /\ work' \in [Seqs -> WorkOf(Writable)] /\ work'[s] = w /\ \A t \in Seqs : t # s => work'[t] = work[t]
  BY <1>2, <1>5, <1>6, <1>7 DEF Typed
<1>9. \A t \in Seqs : row'[t].attempt = row[t].attempt /\ (row[t].chosen => row'[t].chosen)
  BY <1>6, <1>8
<1>10. /\ Contracted' /\ Writable' = Writable /\ Seqs' = Seqs /\ (RetriesNest' <=> RetriesNest)
       /\ BlobsOk' /\ Judged'
  BY <1>1, Frame
<1>11. Typed'
  BY <1>1, <1>2, <1>8, <1>10 DEF Typed
<1>12. ASSUME NEW t \in Seqs
       PROVE  StepOk(t)'
  <2>1. StepOk(t)
    BY DEF OutcomeInv
  <2>2. CASE t # s
    BY <1>1, <1>8, <2>1, <2>2 DEF StepOk, AtWork, Tells
  <2>3. CASE t = s
    BY <1>1, <1>6, <1>7, <1>8, <2>3 DEF StepOk, AtWork, Tells, Kept
  <2> QED BY <2>2, <2>3
<1>13. LateOk'
  <2>1. ASSUME NEW l \in late
        PROVE  IsPast(l[2].of, work'[l[1]])
    <3>1. l[1] \in Seqs /\ l[2].of \in Nat /\ IsPast(l[2].of, work[l[1]])
      BY <1>2 DEF OutcomeInv, Typed, LateOk, ResultOf
    <3> QED BY <1>7, <1>8, <3>1 DEF IsPast
  <2> QED BY <1>1, <2>1 DEF LateOk
<1>14. ASSUME ~RetriesNest
       PROVE  Choices'
  <2>1. Advanced(row, row', s)
    BY <1>9 DEF Advanced
  <2>2. Choices /\ Even(row)' /\ NoneAhead'
    BY <1>1, <1>8, <1>14, <2>1, ChoicesStay DEF OutcomeInv
  <2>3. ASSUME NEW f \in Seqs
        PROVE  MarksChoice(f)'
    <3>1. MarksChoice(f) /\ c[f].to \subseteq Seqs
      BY <1>2, <2>2, ContractShape DEF Choices
    <3>2. CASE f # s
      <4>1. Keeps(row[f], row'[f])
        BY <1>8, <3>2 DEF Keeps
      <4> QED BY <1>1, <1>8, <1>9, <3>1, <3>2, <4>1, ChoiceStays
    <3>3. CASE f = s
      BY <1>6, <1>8, <3>3 DEF MarksChoice
    <3> QED BY <3>2, <3>3
  <2> QED BY <1>10, <2>2, <2>3 DEF Choices
<1> QED BY <1>10, <1>11, <1>12, <1>13, <1>14 DEF OutcomeInv

\* An execution that goes on: it has read its inputs, or has stored one more
\* artifact, for the attempt that its row is in by then.
GoesOn(s, w) ==
    /\ UNCHANGED <<c, conds, stray, fleet, row, late, run>>
    /\ work' \in [Seqs -> WorkOf(Writable)] /\ work'[s] = w
    /\ work[s].st \in {"claimed", "working"} /\ w.st = "working" /\ w.no = work[s].no
    /\ w.attempt = work[s].attempt
    /\ \A t \in Seqs : t # s =>
        /\ work'[t].st = work[t].st /\ work'[t].no = work[t].no /\ work'[t].up = work[t].up
        /\ work'[t].attempt = work[t].attempt /\ work'[t].exit = work[t].exit
    /\ \A t \in Seqs : t # s => {b \in blobs' : b.seq = t} = {b \in blobs : b.seq = t}

LEMMA GoingOn ==
    ASSUME OutcomeInv, NEW s \in Seqs, NEW w, GoesOn(s, w), BlobsOk', NoneAhead => NoneAhead',
           run = "RUNNING" /\ row[s].state = "CLAIMED" => Kept(blobs', s, row[s].attempt, w.up)
    PROVE  OutcomeInv'
<1>1. Typed /\ Contracted /\ work[s].no \in Nat
  BY DEF OutcomeInv, Typed, WorkOf
<1>2. /\ Contracted' /\ Writable' = Writable /\ Seqs' = Seqs /\ (RetriesNest' <=> RetriesNest)
      /\ Judged'
  BY Frame DEF GoesOn
<1>3. Typed'
  BY <1>1, <1>2 DEF GoesOn, Typed
<1>4. ASSUME NEW t \in Seqs
      PROVE  StepOk(t)'
  <2>1. StepOk(t)
    BY DEF OutcomeInv
  <2>2. CASE t # s
    <3>1. \A a, N : Kept(blobs, t, a, N) => Kept(blobs', t, a, N)
      <4>1. {b \in blobs' : b.seq = t} = {b \in blobs : b.seq = t}
        BY <2>2 DEF GoesOn
      <4> QED BY <4>1 DEF Kept
    <3> QED BY <2>1, <2>2, <3>1, StepLeftAlone DEF GoesOn
  <2>3. CASE t = s
    BY <1>1, <2>1, <2>3 DEF GoesOn, StepOk, AtWork, Tells, IsPast
  <2> QED BY <2>2, <2>3
<1>5. LateOk'
  <2>1. ASSUME NEW l \in late
        PROVE  IsPast(l[2].of, work'[l[1]])
    <3>1. l[1] \in Seqs /\ IsPast(l[2].of, work[l[1]])
      BY <1>1 DEF OutcomeInv, Typed, LateOk
    <3> QED BY <3>1 DEF IsPast, GoesOn
  <2> QED BY <2>1 DEF LateOk, GoesOn
<1>6. ASSUME ~RetriesNest
      PROVE  Choices'
  <2>1. Choices /\ NoneAhead'
    BY <1>6 DEF OutcomeInv, Choices
  <2>2. Even(row)'
    <3>1. Seqs' = Seqs /\ \A e \in Seqs : LoopOf(e)' = LoopOf(e) /\ CheckOf(e)' = CheckOf(e)
      BY DEF GoesOn, LoopOf, CheckOf, Target, Checked, Seqs
    <3> QED BY <2>1, <3>1 DEF Even, Choices, GoesOn
  <2>3. ASSUME NEW f \in Seqs
        PROVE  MarksChoice(f)'
    <3>1. MarksChoice(f) /\ c[f].to \subseteq Seqs
      BY <1>1, <2>1, ContractShape DEF Choices
    <3>2. CASE f # s
      <4>1. Keeps(row[f], row'[f]) /\ \A t \in Seqs : row[t].chosen => row'[t].chosen
        BY DEF Keeps, GoesOn
      <4> QED BY <3>1, <3>2, <4>1, ChoiceStays DEF GoesOn
    <3>3. CASE f = s
      BY <3>3 DEF MarksChoice, Own, GoesOn
    <3> QED BY <3>2, <3>3
  <2> QED BY <1>2, <2>1, <2>2, <2>3 DEF Choices
<1> QED BY <1>2, <1>3, <1>4, <1>5, <1>6 DEF OutcomeInv

\* Reading the inputs.
LEMMA FetchStep ==
    ASSUME OutcomeInv, NEW s \in Seqs, Fetch(s)
    PROVE  OutcomeInv'
<1>1. /\ work[s].st = "claimed"
      /\ UNCHANGED <<c, conds, stray, fleet, row, late, blobs, newest, run>>
  BY DEF Fetch, given
<1>2. Typed /\ Contracted /\ work[s] \in WorkOf(Writable)
  BY DEF OutcomeInv, Typed
<1>3. PICK old : old = {n \in c[s].from : \E b \in Served(n) : b.name # n \/ Place(b) # newest[n]}
  OBVIOUS
<1>4. PICK w : w = [work[s] EXCEPT !.st = "working", !.old = old]
  OBVIOUS
<1>5. work' = [work EXCEPT ![s] = w]
  BY <1>3, <1>4 DEF Fetch
<1>6. old \subseteq Writable
  BY <1>2, <1>3, ContractShape
<1>7. /\ w \in WorkOf(Writable) /\ w.st = "working" /\ w.no = work[s].no /\ w.attempt = work[s].attempt
      /\ w.up = work[s].up
  BY <1>2, <1>4, <1>6 DEF WorkOf, Stages
<1>8. work' \in [Seqs -> WorkOf(Writable)] /\ work'[s] = w /\ \A t \in Seqs : t # s => work'[t] = work[t]
  BY <1>2, <1>5, <1>7 DEF Typed
<1>9. GoesOn(s, w)
  BY <1>1, <1>7, <1>8 DEF GoesOn
<1>10. BlobsOk'
  BY <1>1, Frame
<1>11. NoneAhead => NoneAhead'
  BY <1>1 DEF NoneAhead
<1>12. run = "RUNNING" /\ row[s].state = "CLAIMED" => Kept(blobs', s, row[s].attempt, w.up)
  BY <1>1, <1>7 DEF OutcomeInv, StepOk, AtWork
<1> QED BY <1>9, <1>10, <1>11, <1>12, GoingOn

\* Storing an artifact, in the place of what the same attempt stored under the name.
LEMMA PutStep ==
    ASSUME OutcomeInv, NEW s \in Seqs, NEW n, Put(s, n)
    PROVE  OutcomeInv'
<1>1. /\ run = "RUNNING" /\ work[s].st = "working" /\ n \in c[s].out \cup stray
      /\ UNCHANGED <<c, conds, stray, fleet, row, late, run>>
  BY DEF Put, given
<1>2. Typed /\ Contracted /\ row[s] \in RowOf(Writable) /\ work[s] \in WorkOf(Writable)
      /\ n \in Writable /\ row[s].attempt \in Nat
  BY <1>1 DEF OutcomeInv, Typed, Writable, RowOf
<1>3. PICK e : /\ e.seq = s /\ e.attempt = row[s].attempt /\ e.name = n
               /\ blobs' = {b \in blobs : Place(b) # <<s, row[s].attempt>> \/ b.name # n} \cup {e}
  <2>1. PICK says : blobs' = Stored(s, n, says)
    BY DEF Put
  <2> DEFINE e == [seq |-> s, attempt |-> row[s].attempt, name |-> n, says |-> says]
  <2>2. e.seq = s /\ e.attempt = row[s].attempt /\ e.name = n
    OBVIOUS
  <2>3. blobs' = {b \in blobs : Place(b) # <<s, row[s].attempt>> \/ b.name # n} \cup {e}
    BY <2>1 DEF Stored
  <2> HIDE DEF e
  <2> QED BY <2>2, <2>3
<1>4. \A b \in blobs : b \in blobs' \/ (b.seq = s /\ b.attempt = row[s].attempt /\ b.name = n)
  BY <1>3 DEF Place
<1>5. PICK w : w = [work[s] EXCEPT !.up = work[s].up \cup {n}]
  OBVIOUS
<1>6. /\ w \in WorkOf(Writable) /\ w.st = "working" /\ w.no = work[s].no /\ w.attempt = work[s].attempt
      /\ w.up = work[s].up \cup {n}
  BY <1>1, <1>2, <1>5 DEF WorkOf
<1>7. /\ work' \in [Seqs -> WorkOf(Writable)] /\ work'[s] = w
      /\ \A t \in Seqs : t # s =>
            /\ work'[t].st = work[t].st /\ work'[t].no = work[t].no /\ work'[t].up = work[t].up
            /\ work'[t].attempt = work[t].attempt /\ work'[t].exit = work[t].exit
  <2> DEFINE y(t) == [work[t] EXCEPT !.old = IF n \in c[t].from /\ work[t].st = "working"
                                             THEN work[t].old \cup {n} ELSE work[t].old]
  <2>1. work' = [t \in Seqs |-> IF t = s THEN w ELSE y(t)]
    BY <1>5 DEF Put
  <2>2. ASSUME NEW t \in Seqs
        PROVE  /\ y(t) \in WorkOf(Writable) /\ y(t).st = work[t].st /\ y(t).no = work[t].no
               /\ y(t).up = work[t].up /\ y(t).attempt = work[t].attempt /\ y(t).exit = work[t].exit
    <3>1. work[t] \in WorkOf(Writable)
      BY <1>2 DEF Typed
    <3> QED BY <1>2, <3>1 DEF WorkOf
  <2> HIDE DEF y
  <2> QED BY <1>6, <2>1, <2>2
<1>8. \A t \in Seqs : t # s => {b \in blobs' : b.seq = t} = {b \in blobs : b.seq = t}
  BY <1>3, <1>4
<1>9. GoesOn(s, w)
  BY <1>1, <1>6, <1>7, <1>8 DEF GoesOn
<1>10. BlobsOk'
  <2>1. \A b \in blobs' : b.seq \in Seqs /\ b.attempt \in Nat /\ b.name \in c[b.seq].out \cup stray
    BY <1>1, <1>2, <1>3 DEF OutcomeInv, BlobsOk
  <2>2. ASSUME NEW b \in blobs', NEW o \in blobs', Place(b) = Place(o), b.name = o.name
        PROVE  b = o
    <3>1. Place(e) = <<s, row[s].attempt>>
      BY <1>3 DEF Place
    <3> QED BY <1>3, <2>2, <3>1 DEF OutcomeInv, BlobsOk
  <2>3. Seqs' = Seqs /\ Place(e) = Place(e)
    BY <1>1 DEF Seqs
  <2> QED BY <1>1, <2>1, <2>2, <2>3 DEF BlobsOk, Place
<1>11. NoneAhead => NoneAhead'
  BY <1>1, <1>2, <1>3 DEF NoneAhead
<1>12. run = "RUNNING" /\ row[s].state = "CLAIMED" => Kept(blobs', s, row[s].attempt, w.up)
  <2> SUFFICES ASSUME row[s].state = "CLAIMED"
               PROVE  Kept(blobs', s, row[s].attempt, w.up)
    OBVIOUS
  <2>1. Kept(blobs, s, row[s].attempt, work[s].up)
    BY <1>1 DEF OutcomeInv, StepOk, AtWork
  <2>2. ASSUME NEW m \in w.up
        PROVE  \E b \in blobs' : b.seq = s /\ b.attempt = row[s].attempt /\ b.name = m
    <3>1. CASE m = n
      BY <1>3, <3>1
    <3>2. CASE m # n
      BY <1>4, <1>6, <2>1, <3>2 DEF Kept
    <3> QED BY <3>1, <3>2
  <2> QED BY <2>2 DEF Kept
<1> QED BY <1>9, <1>10, <1>11, <1>12, GoingOn

\* The verdict is given on the rows as they are.
LEMMA SettleStep ==
    ASSUME OutcomeInv, Settle
    PROVE  OutcomeInv'
<1>1. /\ run = "RUNNING" /\ (Broke \/ Over)
      /\ run' = IF ~Broke /\ Verified THEN "SUCCEEDED" ELSE "FAILED"
      /\ UNCHANGED <<c, conds, stray, fleet, row, work, late, blobs, newest>>
  BY DEF Settle, given
<1>2. /\ Contracted' /\ Writable' = Writable /\ Seqs' = Seqs /\ (RetriesNest' <=> RetriesNest)
      /\ BlobsOk'
  BY <1>1, Frame
<1>3. Typed'
  BY <1>1, <1>2 DEF OutcomeInv, Typed
<1>4. ASSUME NEW s \in Seqs
      PROVE  StepOk(s)'
  <2>1. StepOk(s)
    BY DEF OutcomeInv
  <2> QED BY <1>1, <2>1 DEF StepOk, Tells
<1>5. LateOk'
  BY <1>1 DEF OutcomeInv, LateOk
<1>6. Over' = Over /\ Broke' = Broke /\ Verified' = Verified
  BY <1>1 DEF Over, Broke, Verified, GoalGivenUp, Vacuous, Holds, Exhausted, Seqs
<1>7. Judged'
  BY <1>1, <1>6 DEF Judged
<1>8. ASSUME ~RetriesNest
      PROVE  Choices'
  <2>1. Choices
    BY <1>8 DEF OutcomeInv
  <2>2. Seqs' = Seqs /\ \A e \in Seqs : LoopOf(e)' = LoopOf(e) /\ CheckOf(e)' = CheckOf(e)
    BY <1>1 DEF LoopOf, CheckOf, Target, Checked, Seqs
  <2>3. Even(row)'
    BY <1>1, <2>1, <2>2 DEF Even, Choices
  <2>4. NoneAhead'
    BY <1>1, <2>1 DEF NoneAhead, Choices
  <2>5. ASSUME NEW f \in Seqs
        PROVE  MarksChoice(f)'
    BY <1>1, <2>1 DEF Choices, MarksChoice, Own, Speaks, Picks, Producers, Distinct, Seqs
  <2> QED BY <1>2, <2>3, <2>4, <2>5 DEF Choices
<1> QED BY <1>2, <1>3, <1>4, <1>5, <1>7, <1>8 DEF OutcomeInv

\* No step of the Run breaks the invariant.
LEMMA OutcomeNext == OutcomeInv /\ [Next]_vars => OutcomeInv'
<1> SUFFICES ASSUME OutcomeInv, [Next]_vars PROVE OutcomeInv'
  OBVIOUS
<1>1. ASSUME NEW s \in Seqs, Claim(s) PROVE OutcomeInv'
  BY <1>1, ClaimStep
<1>2. ASSUME NEW s \in Seqs, Fetch(s) PROVE OutcomeInv'
  BY <1>2, FetchStep
<1>3. ASSUME NEW s \in Seqs, Report(s) PROVE OutcomeInv'
  BY <1>3, ReportStep
<1>4. ASSUME NEW s \in Seqs, NEW n \in c[s].out \cup stray, Put(s, n) PROVE OutcomeInv'
  BY <1>4, PutStep
<1>5. CASE Repeated
  BY <1>5, RepeatedStep
<1>6. CASE Settle
  BY <1>6, SettleStep
<1>7. CASE UNCHANGED vars
  <2> USE <1>7 DEF vars
  <2>1. /\ Contracted' /\ Writable' = Writable /\ Seqs' = Seqs /\ (RetriesNest' <=> RetriesNest)
        /\ BlobsOk' /\ Judged'
    BY Frame
  <2>2. Typed' /\ LateOk'
    BY <2>1 DEF OutcomeInv, Typed, LateOk
  <2>3. ASSUME NEW s \in Seqs PROVE StepOk(s)'
    <3>1. StepOk(s)
      BY DEF OutcomeInv
    <3> QED BY <3>1 DEF StepOk, Tells, AtWork
  <2>4. ASSUME ~RetriesNest PROVE Choices'
    <3>1. Choices
      BY <2>4 DEF OutcomeInv
    <3>2. \A e \in Seqs : LoopOf(e)' = LoopOf(e) /\ CheckOf(e)' = CheckOf(e)
      BY DEF LoopOf, CheckOf, Target, Checked, Seqs
    <3>3. Even(row)' /\ NoneAhead'
      BY <2>1, <3>1, <3>2 DEF Even, Choices, NoneAhead
    <3>4. ASSUME NEW f \in Seqs PROVE MarksChoice(f)'
      BY <3>1 DEF Choices, MarksChoice, Own, Speaks, Picks, Producers, Distinct, Seqs
    <3> QED BY <2>1, <3>3, <3>4 DEF Choices
  <2> QED BY <2>1, <2>2, <2>3, <2>4 DEF OutcomeInv
<1> QED BY <1>1, <1>2, <1>3, <1>4, <1>5, <1>6, <1>7 DEF Next, Rest

\* At all times rows say what happened at the nodes: a claimed step is at work
\* for the attempt of its row, a result is of an execution that is over, and
\* unless retries nest what a fork chose in its last attempt is marked
\* (claim.go: the claim, ReportStep and its rewinds, dispatch; api.go: putBlob).
THEOREM OutcomeInvariant == Spec => []OutcomeInv
<1>1. Init => OutcomeInv
  BY OutcomeInit
<1>2. OutcomeInv /\ [Next]_vars => OutcomeInv'
  BY OutcomeNext
<1> QED BY <1>1, <1>2, PTL DEF Spec

-----------------------------------------------------------------------------
(* The verdict.                                                            *)

\* A condition that holds of a row whose result is its last execution's is
\* true, and the other way about, but for its attempts.
LEMMA HoldsIsTruly ==
    ASSUME OutcomeInv, NEW q \in conds, q.step \in Seqs, row[q.step].state = "DONE", Own(q.step)
    PROVE  Holds(q) <=> Truly(q) /\ (q.within => ~Exhausted(q.step))
<1> DEFINE s == q.step
<1>1. q.step # 0
  BY ContractShape DEF OutcomeInv, Typed
<1>2. /\ row[s].result.exit = work[s].exit /\ row[s].result.produced = work[s].up
      /\ Kept(blobs, s, row[s].attempt, work[s].up)
  BY DEF OutcomeInv, StepOk, Tells, Own
<1>3. q.produced \subseteq work[s].up <=>
        \A n \in q.produced : n \in work[s].up
                /\ \E b \in blobs : b.seq = s /\ b.attempt = row[s].attempt /\ b.name = n
  BY <1>2 DEF Kept
<1> QED BY <1>1, <1>2, <1>3 DEF Holds, Truly

\* A Run that succeeded earned it (verdict.go: Verify; reap.go: SettleIfDone).
THEOREM SuccessIsEarned == Spec => []SucceededIsEarned
<1>1. OutcomeInv => SucceededIsEarned
  <2> SUFFICES ASSUME OutcomeInv, run = "SUCCEEDED" PROVE SucceededIsEarned
    BY DEF SucceededIsEarned
  <2>1. Over /\ ~GoalGivenUp /\ (\A q \in conds : Vacuous(q) \/ Holds(q))
        /\ (conds # {} => \E q \in conds : ~Vacuous(q))
    BY DEF OutcomeInv, Judged, Verified
  <2>2. Contracted
    BY DEF OutcomeInv, Typed
  <2>3. ASSUME NEW s \in Seqs, c[s].planner, row[s].state = "DONE", Own(s)
        PROVE  Unmet \notin work[s].up
    <3>1. Unmet \notin row[s].result.produced
      BY <2>1, <2>3 DEF GoalGivenUp
    <3> QED BY <2>3, <3>1 DEF OutcomeInv, StepOk, Tells, Own
  <2>4. ASSUME NEW q \in conds, Holds(q)
        PROVE  \/ Truly(q)
               \/ q.step # 0 /\ row[q.step].state = "DONE" /\ ~Own(q.step)
    <3>1. CASE q.step = 0
      BY <2>4, <3>1 DEF Holds, Truly
    <3>2. CASE q.step # 0
      <4>1. q.step \in Seqs /\ row[q.step].state = "DONE"
        BY <2>2, <2>4, <3>2, ContractShape DEF Holds
      <4> QED BY <2>4, <3>2, <4>1, HoldsIsTruly
    <3> QED BY <3>1, <3>2
  <2>5. ASSUME NEW q \in conds, Vacuous(q)
        PROVE  /\ Skipped(q)
               /\ ~\E f \in Seqs : /\ row[f].state = "DONE" /\ Own(f)
                                  /\ ~RetriesNest /\ q.step \in c[f].to /\ Picks(f, q.step)
                                  /\ Producers(c[f].via) = {f} /\ Distinct(c[f].via)
    <3>1. Skipped(q) /\ ~row[q.step].chosen
      BY <2>5 DEF Vacuous, Skipped
    <3> SUFFICES ASSUME NEW f \in Seqs, row[f].state = "DONE", Own(f), ~RetriesNest,
                        q.step \in c[f].to, Picks(f, q.step),
                        Producers(c[f].via) = {f}, Distinct(c[f].via)
                 PROVE  FALSE
      BY <3>1
    <3>2. Speaks(f) /\ MarksChoice(f)
      BY DEF OutcomeInv, Choices, Speaks
    <3> QED BY <3>1, <3>2 DEF MarksChoice
  <2>6. ASSUME NEW q \in conds, ~Vacuous(q)
        PROVE  q.step = 0 \/ row[q.step].state = "DONE"
    BY <2>1, <2>6 DEF Holds
  <2> QED BY <2>1, <2>3, <2>4, <2>5, <2>6 DEF SucceededIsEarned
<1> QED BY <1>1, OutcomeInvariant, PTL

\* A Run that failed did so for a reason that can be found in the Record
\* (verdict.go: Verify; reap.go: SettleIfDone).
THEOREM FailureHasAReason == Spec => []FailedForAReason
<1>1. OutcomeInv => FailedForAReason
  <2> SUFFICES ASSUME OutcomeInv, run = "FAILED"
               PROVE  Deserved \/ \E q \in conds : q.within /\ Exhausted(q.step)
    BY DEF FailedForAReason
  <2>1. Broke \/ (Over /\ ~Verified)
    BY DEF OutcomeInv, Judged
  <2>2. Contracted
    BY DEF OutcomeInv, Typed
  <2>3. CASE Broke \/ GoalGivenUp
    BY <2>3 DEF Deserved
  <2>4. CASE Over /\ \E q \in conds : ~Vacuous(q) /\ ~Holds(q)
    <3>1. PICK q \in conds : ~Vacuous(q) /\ ~Holds(q)
      BY <2>4
    <3>2. CASE Skipped(q)
      <4>1. row[q.step].chosen
        BY <3>1, <3>2 DEF Vacuous, Skipped
      <4> QED BY <3>2, <4>1 DEF Deserved
    <3>3. CASE q.step = 0
      <4>1. ~Skipped(q) /\ ~Truly(q)
        BY <3>1, <3>3 DEF Skipped, Holds, Truly
      <4> QED BY <4>1 DEF Deserved
    <3>4. CASE q.step # 0 /\ ~Skipped(q)
      <4>1. q.step \in Seqs /\ row[q.step].state = "DONE"
        BY <2>2, <2>4, <3>4, ContractShape DEF Over, Skipped
      <4>2. CASE ~Own(q.step)
        BY <4>1, <4>2 DEF Deserved
      <4>3. CASE Own(q.step)
        <5>1. ~Truly(q) \/ (q.within /\ Exhausted(q.step))
          BY <3>1, <4>1, <4>3, HoldsIsTruly
        <5> QED BY <3>4, <5>1 DEF Deserved
      <4> QED BY <4>2, <4>3
    <3> QED BY <3>2, <3>3, <3>4
  <2>5. CASE conds # {} /\ \A q \in conds : Vacuous(q)
    <3>1. \A q \in conds : Skipped(q)
      BY <2>5 DEF Vacuous, Skipped
    <3> QED BY <2>5, <3>1 DEF Deserved
  <2> QED BY <2>1, <2>3, <2>4, <2>5 DEF Verified
<1> QED BY <1>1, OutcomeInvariant, PTL

-----------------------------------------------------------------------------
(* What a step waits for.                                                  *)

\* What a step waits for stands before it.
LEMMA NeedsBefore ==
    ASSUME Contracted, NEW s \in Seqs
    PROVE  NeedsOf(c, s) \subseteq 1..(s - 1) /\ NeedsOf(c, s) \subseteq Seqs
<1>1. Len(c) \in Nat /\ Seqs = 1..Len(c) /\ DOMAIN c = Seqs
  BY ContractShape DEF Seqs
<1>2. NeedsOk(c)
  BY OutcomeAssumption DEF Contracted, Validate
<1>3. PICK forks : forks = {j \in 1..(s - 1) : s \in Branches(c[j])}
  OBVIOUS
<1>4. NeedsOf(c, s) = CASE c[s].needs # {} -> CHOOSE S \in c[s].needs : TRUE
                       [] c[s].needs = {} /\ forks # {} -> {Least(forks)}
                       [] OTHER -> {s - 1} \ {0}
  BY <1>3 DEF NeedsOf
<1>5. NeedsOf(c, s) \subseteq 1..(s - 1)
  <2>1. CASE c[s].needs # {}
    <3>1. PICK S \in c[s].needs : NeedsOf(c, s) = S
      BY <1>4, <2>1
    <3> QED BY <1>1, <1>2, <3>1 DEF NeedsOk
  <2>2. CASE c[s].needs = {} /\ forks # {}
    <3>1. NeedsOf(c, s) = {Least(forks)}
      BY <1>4, <2>2
    <3>2. forks \in SUBSET Nat
      BY <1>3
    <3>3. \E m \in forks : \A k \in forks : m <= k
      BY <2>2, <3>2, LeastExists
    <3>4. Least(forks) \in forks
      BY <3>3 DEF Least
    <3> QED BY <1>3, <3>1, <3>4
  <2>3. CASE c[s].needs = {} /\ forks = {}
    <3>1. NeedsOf(c, s) = {s - 1} \ {0}
      BY <1>4, <2>3
    <3> QED BY <1>1, <3>1
  <2> QED BY <2>1, <2>2, <2>3
<1> QED BY <1>1, <1>5

\* Strong induction over the steps: a set of steps that holds every step whose
\* needs it holds is all of them.
LEMMA ByNeeds ==
    ASSUME Contracted, NEW S, \A s \in Seqs : NeedsOf(c, s) \subseteq S => s \in S
    PROVE  Seqs \subseteq S
<1>1. Seqs \in SUBSET Nat
  BY ContractShape
<1> SUFFICES ASSUME Seqs \ S # {} PROVE FALSE
  OBVIOUS
<1>2. Seqs \ S \in SUBSET Nat
  BY <1>1
<1>3. PICK m \in Seqs \ S : \A k \in Seqs \ S : m <= k
  BY <1>2, LeastExists
<1>4. NeedsOf(c, m) \subseteq 1..(m - 1) /\ NeedsOf(c, m) \subseteq Seqs
  BY NeedsBefore
<1>5. \A j \in NeedsOf(c, m) : j \in S
  BY <1>1, <1>3, <1>4
<1> QED BY <1>3, <1>5

\* f is the recursion by which Through is defined.
ComesThrough(A, f) ==
    f = [k \in 1..Len(c) |->
            UNION {{j} \cup (IF j \in A THEN f[j] ELSE {}) : j \in NeedsOf(c, k) \cap 1..(k - 1)}]

\* There is such a function: steps wait for earlier ones only.
LEMMA ThroughExists ==
    ASSUME Contracted, NEW A
    PROVE  \E f : ComesThrough(A, f)
<1> DEFINE Step(f, k) == UNION {{j} \cup (IF j \in A THEN f[j] ELSE {}) : j \in NeedsOf(c, k) \cap 1..(k - 1)}
           Upto(m) == \E f : f = [k \in 1..m |-> Step(f, k)]
           Fails == {m \in 0..Len(c) : ~Upto(m)}
<1>1. Len(c) \in Nat
  BY ContractShape
<1>2. Upto(0)
  <2>1. \A f, g : [k \in 1..0 |-> Step(f, k)] = [k \in 1..0 |-> Step(g, k)]
    OBVIOUS
  <2> QED BY <2>1
<1>3. ASSUME NEW m \in Nat, m # 0, Upto(m - 1)
      PROVE  Upto(m)
  <2>1. PICK g : g = [k \in 1..(m - 1) |-> Step(g, k)]
    BY <1>3
  <2>2. PICK f : f = [k \in 1..m |-> Step(g, k)]
    OBVIOUS
  <2>3. \A k \in 1..(m - 1) : f[k] = g[k]
    <3> HIDE DEF Step
    <3>1. \A k \in 1..(m - 1) : k \in 1..m
      BY <1>3
    <3> QED BY <2>1, <2>2, <3>1
  <2>4. ASSUME NEW k \in 1..m
        PROVE  Step(f, k) = Step(g, k)
    <3>1. \A j \in NeedsOf(c, k) \cap 1..(k - 1) : f[j] = g[j]
      BY <1>3, <2>3
    <3> QED BY <3>1
  <2> HIDE DEF Step
  <2> QED BY <2>2, <2>4
<1> HIDE DEF Upto
<1>4. Fails = {}
  <2> SUFFICES ASSUME Fails # {} PROVE FALSE
    OBVIOUS
  <2>1. PICK m \in Fails : \A k \in Fails : m <= k
    <3>1. Fails \in SUBSET Nat
      OBVIOUS
    <3> QED BY <3>1, LeastExists
  <2>2. m \in Nat /\ m # 0
    BY <1>2, <2>1
  <2>3. Upto(m - 1)
    BY <1>1, <2>1, <2>2
  <2> QED BY <1>3, <2>1, <2>2, <2>3
<1>5. Upto(Len(c))
  BY <1>1, <1>4
<1> QED BY <1>5 DEF Upto, ComesThrough

\* p comes before s through A when s waits for it, or for a step of A before which it comes.
LEMMA ThroughUnfolds ==
    ASSUME Contracted, NEW A, NEW s \in Seqs, NEW p
    PROVE  p \in Through(c, A, s) <=>
              \E j \in NeedsOf(c, s) : p = j \/ (j \in A /\ p \in Through(c, A, j))
<1> DEFINE g == CHOOSE f : ComesThrough(A, f)
<1>0. \E f : ComesThrough(A, f)
  BY ThroughExists
<1>1. \A i : Through(c, A, i) = g[i]
  BY DEF Through, ComesThrough
<1>2. ComesThrough(A, g)
  BY <1>0
<1> HIDE DEF g
<1>3. s \in 1..Len(c) /\ NeedsOf(c, s) \cap 1..(s - 1) = NeedsOf(c, s)
  BY ContractShape, NeedsBefore
<1>4. g[s] = UNION {{j} \cup (IF j \in A THEN g[j] ELSE {}) : j \in NeedsOf(c, s)}
  BY <1>2, <1>3 DEF ComesThrough
<1> QED BY <1>1, <1>4

-----------------------------------------------------------------------------
(* Rows and what they wait for.                                            *)

\* d is the recursion by which Dispatched finds the dead among the rows v.
FindsDead(v, d) ==
    d = [s \in Seqs |->
            \/ v[s].state = "SKIPPED"
            \/ /\ v[s].state = "PENDING" /\ NeedsOf(c, s) # {}
               /\ \A n \in NeedsOf(c, s) : d[n]]

\* There is such a function.
LEMMA DeadExist ==
    ASSUME Contracted, NEW v
    PROVE  \E d : FindsDead(v, d)
<1> DEFINE Step(d, s) == \/ v[s].state = "SKIPPED"
                         \/ /\ v[s].state = "PENDING" /\ NeedsOf(c, s) # {}
                            /\ \A n \in NeedsOf(c, s) : d[n]
           Upto(m) == \E d : d = [s \in 1..m |-> Step(d, s)]
           Fails == {m \in 0..Len(c) : ~Upto(m)}
<1>1. Len(c) \in Nat /\ Seqs = 1..Len(c)
  BY ContractShape
<1>2. Upto(0)
  <2>1. \A f, g : [k \in 1..0 |-> Step(f, k)] = [k \in 1..0 |-> Step(g, k)]
    OBVIOUS
  <2> QED BY <2>1
<1>3. ASSUME NEW m \in 1..Len(c), Upto(m - 1)
      PROVE  Upto(m)
  <2>1. PICK g : g = [s \in 1..(m - 1) |-> Step(g, s)]
    BY <1>3
  <2>2. PICK f : f = [s \in 1..m |-> Step(g, s)]
    OBVIOUS
  <2>3. \A s \in 1..(m - 1) : f[s] = g[s]
    <3> HIDE DEF Step
    <3>1. \A s \in 1..(m - 1) : s \in 1..m
      BY <1>1
    <3> QED BY <2>1, <2>2, <3>1
  <2>4. ASSUME NEW s \in 1..m
        PROVE  Step(f, s) = Step(g, s)
    <3>1. NeedsOf(c, s) \subseteq 1..(s - 1)
      BY <1>1, NeedsBefore
    <3>2. \A n \in NeedsOf(c, s) : f[n] = g[n]
      BY <1>1, <2>3, <3>1
    <3> QED BY <3>2
  <2> HIDE DEF Step
  <2> QED BY <2>2, <2>4
<1> HIDE DEF Upto
<1>4. Fails = {}
  <2> SUFFICES ASSUME Fails # {} PROVE FALSE
    OBVIOUS
  <2>1. PICK m \in Fails : \A k \in Fails : m <= k
    <3>1. Fails \in SUBSET Nat
      OBVIOUS
    <3> QED BY <3>1, LeastExists
  <2>2. m \in 1..Len(c)
    BY <1>1, <1>2, <2>1
  <2>3. Upto(m - 1)
    BY <1>1, <2>1, <2>2
  <2> QED BY <1>3, <2>1, <2>2, <2>3
<1>5. Upto(Len(c))
  BY <1>1, <1>4
<1> QED BY <1>1, <1>5 DEF Upto, FindsDead

\* How the fork to `to` that chose x moves the state of t from o to n, in the rows u.
Turned(u, to, x, t, o, n) ==
    \/ n = o
    \/ t = x /\ o = "SKIPPED" /\ n = "PENDING"
    \/ /\ o = "PENDING" /\ n = "SKIPPED"
       /\ t \in to \ {x} \/ \A m \in NeedsOf(c, t) : u[m].state = "SKIPPED"

\* A fork revives the target it chose, skips those it did not, and what waits
\* for skipped steps alone.
LEMMA DispatchedStates ==
    ASSUME Contracted, NEW W, NEW v \in [Seqs -> RowOf(W)], NEW to, NEW x \in Seqs, NEW t \in Seqs
    PROVE  Turned(Dispatched(v, to, x), to, x, t, v[t].state, Dispatched(v, to, x)[t].state)
<1> DEFINE lives == [v EXCEPT ![x].chosen = TRUE,
                              ![x].state = IF @ = "SKIPPED" THEN "PENDING" ELSE @]
           passed == [s \in Seqs |-> IF s \in to \ {x} /\ lives[s].state = "PENDING"
                                     THEN [lives[s] EXCEPT !.state = "SKIPPED"] ELSE lives[s]]
           dead == CHOOSE d : FindsDead(passed, d)
           all == [s \in Seqs |-> IF dead[s] THEN [passed[s] EXCEPT !.state = "SKIPPED"]
                                  ELSE passed[s]]
<1>1. Dispatched(v, to, x) = all
  BY DEF Dispatched, FindsDead
<1>2. /\ lives[x].state = IF v[x].state = "SKIPPED" THEN "PENDING" ELSE v[x].state
      /\ \A s \in Seqs : s # x => lives[s] = v[s]
      /\ \A s \in Seqs : [lives[s] EXCEPT !.state = "SKIPPED"].state = "SKIPPED"
  <2> DEFINE y == [v[x] EXCEPT !.chosen = TRUE,
                               !.state = IF v[x].state = "SKIPPED" THEN "PENDING" ELSE v[x].state]
  <2>1. y \in RowOf(W) /\ y.state = IF v[x].state = "SKIPPED" THEN "PENDING" ELSE v[x].state
    BY DEF RowOf, States
  <2>2. lives = [v EXCEPT ![x] = y]
    OBVIOUS
  <2> HIDE DEF y, lives
  <2>3. lives \in [Seqs -> RowOf(W)] /\ lives[x] = y /\ \A s \in Seqs : s # x => lives[s] = v[s]
    BY <2>1, <2>2
  <2>4. \A s \in Seqs : [lives[s] EXCEPT !.state = "SKIPPED"].state = "SKIPPED"
    BY <2>3 DEF RowOf
  <2> QED BY <2>1, <2>3, <2>4
<1> HIDE DEF lives
<1>3. /\ \A s \in Seqs : s \in to \ {x} /\ lives[s].state = "PENDING" => passed[s].state = "SKIPPED"
      /\ \A s \in Seqs : ~(s \in to \ {x} /\ lives[s].state = "PENDING") => passed[s].state = lives[s].state
  BY <1>2
<1>4. \A s \in Seqs : dead[s] <=>
            \/ passed[s].state = "SKIPPED"
            \/ /\ passed[s].state = "PENDING" /\ NeedsOf(c, s) # {}
               /\ \A n \in NeedsOf(c, s) : dead[n]
  <2>1. \E d : FindsDead(passed, d)
    BY DeadExist
  <2>2. FindsDead(passed, dead)
    BY <2>1
  <2> HIDE DEF dead, passed
  <2> QED BY <2>2 DEF FindsDead
<1>5. \A s \in Seqs : (dead[s] => all[s].state = "SKIPPED") /\ (~dead[s] => all[s].state = passed[s].state)
  <2>1. \A s \in Seqs : [passed[s] EXCEPT !.state = "SKIPPED"].state = "SKIPPED"
    <3> TAKE s \in Seqs
    <3>1. DOMAIN passed[s] = DOMAIN v[s] /\ "state" \in DOMAIN v[s]
      <4>1. v[s] \in RowOf(W)
        OBVIOUS
      <4> QED BY <1>2 DEF RowOf, lives
    <3> QED BY <3>1
  <2> HIDE DEF dead, passed
  <2> QED BY <2>1
<1> HIDE DEF dead, passed, all
<1>6. NeedsOf(c, t) \subseteq Seqs
  BY NeedsBefore
<1>7. CASE ~dead[t]
  <2>1. all[t].state = passed[t].state /\ passed[t].state # "SKIPPED"
    BY <1>4, <1>5, <1>7
  <2>2. passed[t].state = lives[t].state
    BY <1>3, <2>1
  <2> QED BY <1>1, <1>2, <2>1, <2>2 DEF Turned
<1>8. CASE dead[t]
  <2>1. all[t].state = "SKIPPED"
    BY <1>5, <1>8
  <2>2. CASE passed[t].state = "SKIPPED"
    BY <1>1, <1>2, <1>3, <2>1, <2>2 DEF Turned
  <2>3. CASE passed[t].state = "PENDING" /\ \A n \in NeedsOf(c, t) : dead[n]
    <3>1. \A n \in NeedsOf(c, t) : all[n].state = "SKIPPED"
      BY <1>5, <1>6, <2>3
    <3>2. lives[t].state = "PENDING"
      BY <1>3, <2>3
    <3> QED BY <1>1, <1>2, <2>1, <3>1, <3>2 DEF Turned
  <2> QED BY <1>4, <1>8, <2>2, <2>3
<1> QED BY <1>7, <1>8

\* What a report of s does to the rows v: it ends the step, it goes back, or a
\* fork takes one of its targets.
Ends(v, u, s) ==
    /\ u[s].state \in {"DONE", "FAILED"} /\ u[s].attempt = v[s].attempt
    /\ \A t \in Seqs : t # s => u[t] = v[t]

GoesBack(v, u, S, m) ==
    \A t \in Seqs : IF t \in S THEN u[t].state = "PENDING" /\ u[t].attempt = v[m].attempt + 1
                    ELSE u[t] = v[t]

Chooses(v, u, s, x) ==
    /\ u[s].state = "DONE"
    /\ \A t \in Seqs : /\ u[t].attempt = v[t].attempt
                       /\ t # s => Turned(u, c[s].to, x, t, v[t].state, u[t].state)

Moved(v, u, s) ==
    \/ Ends(v, u, s)
    \/ \E S \in {LoopOf(s), CheckOf(s)} : s \in S /\ \E m \in S : GoesBack(v, u, S, m)
    \/ \E x \in c[s].to : Chooses(v, u, s, x)

\* There is nothing else that a report does.
LEMMA ReportMoves ==
    ASSUME Contracted, NEW W, row \in [Seqs -> RowOf(W)],
           NEW s \in Seqs, NEW ok \in BOOLEAN, NEW r \in ResultOf(W), NEW u \in Reported(s, ok, r)
    PROVE  Moved(row, u, s)
<1>0. PICK how : how = IF ok THEN "DONE" ELSE "FAILED"
  OBVIOUS
<1>a. PICK told : told = [row EXCEPT ![s].state = how, ![s].result = r]
  OBVIOUS
<1>1. how \in {"DONE", "FAILED"} /\ (ok => how = "DONE")
  BY <1>0
<1>2. /\ told \in [Seqs -> RowOf(W)]
      /\ told[s].state = how /\ told[s].attempt = row[s].attempt
      /\ \A t \in Seqs : t # s => told[t] = row[t]
  <2>1. PICK y : y = [row[s] EXCEPT !.state = how, !.result = r]
    OBVIOUS
  <2>2. told = [row EXCEPT ![s] = y]
    BY <1>a, <2>1
  <2>3. y \in RowOf(W) /\ y.state = how /\ y.attempt = row[s].attempt
    BY <1>1, <2>1 DEF RowOf, States
  <2> QED BY <2>2, <2>3
<1>3. /\ LoopOf(s) \subseteq Seqs /\ CheckOf(s) \subseteq Seqs
      /\ c[s].back # 0 => s \in LoopOf(s)
      /\ Checked(s) # {} => Target(s) \in CheckOf(s) /\ Target(s) \in Seqs
  BY RewindsSteps
<1>4. \/ ~ok /\ u = told
      \/ ok /\ LoopsBack(told, s) /\ u = Again(told, c[s].back..s, told[s].attempt + 1)
      \/ ok /\ ValidatesBack(told, s) /\ u = Again(told, {Target(s), s}, told[Target(s)].attempt + 1)
      \/ ok /\ u \in Effects(told, s)
  BY <1>0, <1>a DEF Reported
<1>5. ASSUME NEW S \in {LoopOf(s), CheckOf(s)}, s \in S, NEW m \in S, u = Again(told, S, told[m].attempt + 1)
      PROVE  Moved(row, u, s)
  <2>1. m \in Seqs /\ told[m].attempt = row[m].attempt /\ told[m].attempt \in Nat
    BY <1>2, <1>3, <1>5 DEF RowOf
  <2>2. /\ \A t \in Seqs : t \notin S => u[t] = told[t]
        /\ \A t \in Seqs : t \in S => u[t].state = "PENDING" /\ u[t].attempt = told[m].attempt + 1
    BY <1>2, <1>5, <2>1, BegunAgain
  <2>3. GoesBack(row, u, S, m)
    BY <1>2, <1>5, <2>1, <2>2 DEF GoesBack
  <2> QED BY <1>5, <2>3 DEF Moved
<1>6. CASE ~ok /\ u = told
  BY <1>1, <1>2, <1>6 DEF Moved, Ends
<1>7. CASE ok /\ LoopsBack(told, s) /\ u = Again(told, c[s].back..s, told[s].attempt + 1)
  <2>1. s \in LoopOf(s) /\ u = Again(told, LoopOf(s), told[s].attempt + 1)
    BY <1>3, <1>7 DEF LoopsBack, LoopOf
  <2> QED BY <1>5, <2>1
<1>8. CASE ok /\ ValidatesBack(told, s) /\ u = Again(told, {Target(s), s}, told[Target(s)].attempt + 1)
  <2>1. s \in CheckOf(s) /\ Target(s) \in CheckOf(s) /\ u = Again(told, CheckOf(s), told[Target(s)].attempt + 1)
    BY <1>8 DEF ValidatesBack, CheckOf
  <2> QED BY <1>5, <2>1
<1>9. CASE ok /\ u \in Effects(told, s)
  <2>1. \/ c[s].to = {} /\ u = told
        \/ u = [told EXCEPT ![s].state = "FAILED"]
        \/ \E x \in ChosenBy(s) : u = Dispatched(told, c[s].to, x)
    BY <1>9 DEF Effects
  <2>2. CASE u = told
    BY <1>1, <1>2, <2>2 DEF Moved, Ends
  <2>3. CASE u = [told EXCEPT ![s].state = "FAILED"]
    <3>1. u[s].state = "FAILED" /\ u[s].attempt = told[s].attempt /\ \A t \in Seqs : t # s => u[t] = told[t]
      BY <1>2, <2>3 DEF RowOf
    <3> QED BY <1>2, <3>1 DEF Moved, Ends
  <2>4. CASE \E x \in ChosenBy(s) : u = Dispatched(told, c[s].to, x)
    <3>1. PICK x \in ChosenBy(s) : u = Dispatched(told, c[s].to, x)
      BY <2>4
    <3>2. x \in c[s].to /\ x \in Seqs /\ s \notin c[s].to
      <4>1. c[s].to \subseteq Seqs /\ DispatchOk(c) /\ s \in DOMAIN c /\ s \in Int
        BY ContractShape, OutcomeAssumption DEF Contracted, Validate, Seqs
      <4> QED BY <4>1 DEF DispatchOk, ChosenBy
    <3>3. \A t \in Seqs : u[t].attempt = told[t].attempt
      BY <1>2, <3>1, <3>2, DispatchedRows
    <3>4. \A t \in Seqs : Turned(u, c[s].to, x, t, told[t].state, u[t].state)
      BY <1>2, <3>1, <3>2, DispatchedStates
    <3>5. u[s].state = "DONE"
      BY <1>1, <1>2, <1>9, <3>2, <3>4 DEF Turned
    <3>6. \A t \in Seqs : t # s => Turned(u, c[s].to, x, t, row[t].state, u[t].state)
      BY <1>2, <3>4
    <3>7. Chooses(row, u, s, x)
      BY <1>2, <3>3, <3>5, <3>6 DEF Chooses
    <3> QED BY <3>2, <3>7 DEF Moved
  <2> QED BY <2>1, <2>2, <2>3, <2>4
<1> QED BY <1>4, <1>6, <1>7, <1>8, <1>9

Rewinding == [e \in Seqs |-> Rewinds(e)]

OnOneRoad(p) == OneRoad(c, Rewinding, p)

\* s has to wait for p through steps of A, and p does not begin again without
\* s and those of A.
Waits(s, p, A) ==
    /\ p \in Through(c, A, s) /\ OnOneRoad(p) /\ \A j \in A : OnOneRoad(j)
    /\ \A e \in Seqs \ {p} : p \in Rewinds(e) => s \in Rewinds(e) /\ A \subseteq Rewinds(e)

\* In the rows v, s has begun, or a fork that leads to it, if any, has been passed.
Begun(v, s) == v[s].state # "PENDING" /\ (v[s].state = "SKIPPED" => OnOneRoad(s))

IsOver(v, p) == v[p].state \in {"DONE", "SKIPPED"}

\* What a step waits for was over before it, and is.
InOrder(v) ==
    \A s, p \in Seqs : \A A \in SUBSET Seqs : Waits(s, p, A) /\ Begun(v, s) => IsOver(v, p)

\* The step that s waits for and through which it waits for p.
LEMMA WaitsThrough ==
    ASSUME Contracted, NEW s \in Seqs, NEW p \in Seqs, NEW A \in SUBSET Seqs, Waits(s, p, A)
    PROVE  \E j \in NeedsOf(c, s) : j \in Seqs /\ (p = j \/ (j \in A /\ OnOneRoad(j) /\ Waits(j, p, A)))
<1>1. PICK j \in NeedsOf(c, s) : p = j \/ (j \in A /\ p \in Through(c, A, j))
  BY ThroughUnfolds DEF Waits
<1>2. j \in Seqs
  BY NeedsBefore
<1>3. CASE p = j
  BY <1>2, <1>3
<1>4. CASE j \in A /\ p \in Through(c, A, j)
  BY <1>2, <1>4 DEF Waits
<1> QED BY <1>1, <1>3, <1>4

\* Unless retries nest, what begins again as s may have it is one loop or one check.
LEMMA RewindsOne ==
    ASSUME Contracted, ~RetriesNest, NEW s \in Seqs, NEW S \in {LoopOf(s), CheckOf(s)}, s \in S
    PROVE  Rewinds(s) = S
<1>1. LoopOf(s) = {} \/ s \in LoopOf(s)
  BY RewindsSteps DEF LoopOf
<1>2. CheckOf(s) = {} \/ s \in CheckOf(s)
  BY DEF CheckOf
<1>3. LoopOf(s) \cap CheckOf(s) = {}
  BY DEF RetriesNest
<1> QED BY <1>1, <1>2, <1>3 DEF Rewinds

\* Nobody else brings a step back that somebody does.
LEMMA OneRewinds ==
    ASSUME Contracted, ~RetriesNest, NEW d \in Seqs, NEW e \in Seqs, Rewinds(d) \cap Rewinds(e) # {}
    PROVE  d = e
<1>1. PICK p : p \in Rewinds(d) \cap Rewinds(e)
  OBVIOUS
<1>2. \E S \in {LoopOf(d), CheckOf(d)} : p \in S
  BY <1>1 DEF Rewinds
<1>3. \E T \in {LoopOf(e), CheckOf(e)} : p \in T
  BY <1>1 DEF Rewinds
<1> QED BY <1>2, <1>3 DEF RetriesNest

\* A step that is claimed has seen what it waits for end.
LEMMA InOrderClaimed ==
    ASSUME Contracted, NEW v, InOrder(v), NEW x \in Seqs, v[x].state = "PENDING",
           \A j \in NeedsOf(c, x) : IsOver(v, j),
           NEW u, u[x].state = "CLAIMED", \A t \in Seqs : t # x => u[t] = v[t]
    PROVE  InOrder(u)
<1> SUFFICES ASSUME NEW s \in Seqs, NEW p \in Seqs, NEW A \in SUBSET Seqs, Waits(s, p, A), Begun(u, s)
             PROVE  IsOver(u, p)
  BY DEF InOrder
<1>1. ~IsOver(v, x)
  BY DEF IsOver
<1>2. IsOver(v, p)
  <2>1. CASE s # x
    <3>1. Begun(v, s)
      BY <2>1 DEF Begun
    <3> QED BY <3>1 DEF InOrder
  <2>2. CASE s = x
    <3>1. PICK j \in NeedsOf(c, s) : j \in Seqs /\ (p = j \/ (j \in A /\ OnOneRoad(j) /\ Waits(j, p, A)))
      BY WaitsThrough
    <3>2. IsOver(v, j)
      BY <2>2, <3>1
    <3>3. CASE j \in A /\ OnOneRoad(j) /\ Waits(j, p, A)
      <4>1. Begun(v, j)
        BY <3>2, <3>3 DEF Begun, IsOver
      <4> QED BY <3>1, <3>3, <4>1 DEF InOrder
    <3> QED BY <3>1, <3>2, <3>3
  <2> QED BY <2>1, <2>2
<1> QED BY <1>1, <1>2 DEF IsOver

\* A step that ends leaves what is over alone.
LEMMA InOrderEnded ==
    ASSUME Contracted, NEW v, InOrder(v), NEW x \in Seqs, v[x].state = "CLAIMED", NEW u, Ends(v, u, x)
    PROVE  InOrder(u)
<1> SUFFICES ASSUME NEW s \in Seqs, NEW p \in Seqs, NEW A \in SUBSET Seqs, Waits(s, p, A), Begun(u, s)
             PROVE  IsOver(u, p)
  BY DEF InOrder
<1>1. Begun(v, s)
  BY DEF Begun, Ends
<1>2. IsOver(v, p)
  BY <1>1 DEF InOrder
<1> QED BY <1>2 DEF IsOver, Ends

\* What goes back takes along those that have passed it.
LEMMA InOrderBack ==
    ASSUME Contracted, ~RetriesNest, NEW v, InOrder(v), NEW x \in Seqs, v[x].state = "CLAIMED",
           NEW S \in {LoopOf(x), CheckOf(x)}, x \in S, NEW m, NEW u, GoesBack(v, u, S, m)
    PROVE  InOrder(u)
<1> SUFFICES ASSUME NEW s \in Seqs, NEW p \in Seqs, NEW A \in SUBSET Seqs, Waits(s, p, A), Begun(u, s)
             PROVE  IsOver(u, p)
  BY DEF InOrder
<1>1. S = Rewinds(x)
  BY RewindsOne
<1>2. s \notin S /\ Begun(v, s)
  BY DEF Begun, GoesBack
<1>3. IsOver(v, p)
  BY <1>2 DEF InOrder
<1>4. p # x
  BY <1>3 DEF IsOver
<1>5. p \notin S
  BY <1>1, <1>2, <1>4 DEF Waits
<1> QED BY <1>3, <1>5 DEF IsOver, GoesBack

\* Only f leads to a step that f forks to and that is on one road: it has seen f
\* end, if it was passed.
LEMMA RoadOpens ==
    ASSUME Contracted, NEW v, InOrder(v), NEW f \in Seqs, NEW t \in c[f].to, OnOneRoad(t)
    PROVE  /\ NeedsOf(c, t) = {f} /\ OnOneRoad(f) /\ t \in Seqs
           /\ Begun(v, t) => IsOver(v, f)
<1>1. t \in Seqs /\ t \in Branches(c[f]) /\ f \in DOMAIN c /\ Seqs = DOMAIN c
  BY ContractShape DEF Branches, Seqs
<1>2. /\ NeedsOf(c, t) = {f}
      /\ \A g \in DOMAIN c : f \notin Branches(c[g])
      /\ \A e \in DOMAIN c \ {f} : f \in Rewinding[e] => t \in Rewinding[e]
  BY <1>1 DEF OnOneRoad, OneRoad
<1>3. OnOneRoad(f)
  BY <1>2 DEF OnOneRoad, OneRoad
<1>4. f \in Through(c, {}, t)
  BY <1>1, <1>2, ThroughUnfolds
<1>5. Waits(t, f, {})
  BY <1>1, <1>2, <1>3, <1>4 DEF Waits, Rewinding
<1> QED BY <1>1, <1>2, <1>3, <1>5 DEF InOrder

\* A fork brings none back that is on one road.
LEMMA StaysOver ==
    ASSUME Contracted, NEW v, InOrder(v), NEW f \in Seqs, v[f].state = "CLAIMED",
           NEW x \in c[f].to, NEW u, Chooses(v, u, f, x), NEW p \in Seqs, OnOneRoad(p), IsOver(v, p)
    PROVE  IsOver(u, p)
<1>1. p # f
  BY DEF IsOver
<1>2. Turned(u, c[f].to, x, p, v[p].state, u[p].state)
  BY <1>1 DEF Chooses
<1>3. ~(p = x /\ v[p].state = "SKIPPED")
  <2> SUFFICES ASSUME p = x, v[p].state = "SKIPPED" PROVE FALSE
    OBVIOUS
  <2>1. Begun(v, p)
    BY DEF Begun
  <2>2. IsOver(v, f)
    BY <2>1, RoadOpens
  <2> QED BY <2>2 DEF IsOver
<1> QED BY <1>2, <1>3 DEF Turned, IsOver

\* A fork brings none back that somebody has waited for, and skips none before
\* what that one waits for is over.
LEMMA InOrderChosen ==
    ASSUME Contracted, NEW v, InOrder(v), NEW f \in Seqs, v[f].state = "CLAIMED",
           NEW x \in c[f].to, NEW u, Chooses(v, u, f, x)
    PROVE  InOrder(u)
<1>1. ASSUME NEW p \in Seqs, OnOneRoad(p), IsOver(v, p)
      PROVE  IsOver(u, p)
  BY <1>1, StaysOver
<1> DEFINE Good == {s \in Seqs : \A p \in Seqs : \A A \in SUBSET Seqs :
                        Waits(s, p, A) /\ Begun(u, s) => IsOver(u, p)}
<1>2. ASSUME NEW s \in Seqs, NeedsOf(c, s) \subseteq Good
      PROVE  s \in Good
  <2> SUFFICES ASSUME NEW p \in Seqs, NEW A \in SUBSET Seqs, Waits(s, p, A), Begun(u, s)
               PROVE  IsOver(u, p)
    OBVIOUS
  <2>1. OnOneRoad(p)
    BY DEF Waits
  <2>2. PICK j \in NeedsOf(c, s) : j \in Seqs /\ (p = j \/ (j \in A /\ OnOneRoad(j) /\ Waits(j, p, A)))
    BY WaitsThrough
  <2>3. CASE Begun(v, s)
    BY <1>1, <2>1, <2>3 DEF InOrder
  <2>4. CASE s # f /\ v[s].state = "PENDING" /\ u[s].state = "SKIPPED" /\ s \in c[f].to \ {x}
    <3>1. NeedsOf(c, s) = {f} /\ OnOneRoad(f)
      BY <2>4, RoadOpens DEF Begun
    <3>2. j = f
      BY <2>2, <3>1
    <3>3. CASE p = f
      BY <3>3 DEF IsOver, Chooses
    <3>4. CASE Waits(f, p, A)
      <4>1. Begun(v, f)
        BY DEF Begun
      <4>2. IsOver(v, p)
        BY <3>4, <4>1 DEF InOrder
      <4> QED BY <1>1, <2>1, <4>2
    <3> QED BY <2>2, <3>2, <3>3, <3>4
  <2>5. CASE s # f /\ v[s].state = "PENDING" /\ u[s].state = "SKIPPED"
             /\ \A n \in NeedsOf(c, s) : u[n].state = "SKIPPED"
    <3>1. u[j].state = "SKIPPED"
      BY <2>2, <2>5
    <3>2. CASE p = j
      BY <3>1, <3>2 DEF IsOver
    <3>3. CASE OnOneRoad(j) /\ Waits(j, p, A)
      <4>1. Begun(u, j)
        BY <3>1, <3>3 DEF Begun
      <4>2. j \in Good
        BY <1>2, <2>2
      <4> QED BY <3>3, <4>1, <4>2
    <3> QED BY <2>2, <3>2, <3>3
  <2>6. s = f => Begun(v, s)
    BY DEF Begun
  <2>7. s # f => Turned(u, c[f].to, x, s, v[s].state, u[s].state)
    BY DEF Chooses
  <2>8. s # f /\ v[s].state = u[s].state => Begun(v, s)
    BY DEF Begun
  <2> QED BY <2>3, <2>4, <2>5, <2>6, <2>7, <2>8 DEF Turned, Begun
<1> HIDE DEF Good
<1>3. Seqs \subseteq Good
  BY <1>2, ByNeeds
<1> QED BY <1>3 DEF Good, InOrder

\* What a begun step surely waits for is over.
LEMMA OverIsOver ==
    ASSUME Contracted, ~RetriesNest, InOrder(row), NEW s \in Seqs, NEW p \in Seqs, OverBefore(s, p)
    PROVE  OnOneRoad(p) /\ (row[s].state \notin {"PENDING", "SKIPPED"} => IsOver(row, p))
<1> DEFINE plain == {k \in Seqs : OnOneRoad(k)}
           Rejoins(e, k) == k \in Rewinds(e) /\ p \in Through(c, plain \cap Rewinds(e), k)
<1>1. /\ p \in plain \cap Through(c, plain, s)
      /\ \A e \in Seqs \ {p} : p \in Rewinds(e) =>
            Rejoins(e, s) \/ (e \in plain \cap Through(c, plain, s) /\ Rejoins(e, e))
  BY DEF OverBefore, SurelyOver, OnOneRoad, Rewinding, Seqs
<1>2. OnOneRoad(p)
  BY <1>1
<1> SUFFICES ASSUME row[s].state \notin {"PENDING", "SKIPPED"}
             PROVE  IsOver(row, p)
  BY <1>2
<1>3. Begun(row, s)
  BY DEF Begun
<1>4. plain \in SUBSET Seqs /\ \A j \in plain : OnOneRoad(j)
  OBVIOUS
<1> HIDE DEF plain
<1>5. CASE \A e \in Seqs \ {p} : p \notin Rewinds(e)
  <2>1. Waits(s, p, plain)
    BY <1>1, <1>4, <1>5 DEF Waits
  <2> QED BY <1>3, <1>4, <2>1 DEF InOrder
<1>6. CASE \E e \in Seqs \ {p} : p \in Rewinds(e)
  <2>1. PICK e \in Seqs \ {p} : p \in Rewinds(e)
    BY <1>6
  <2>2. \A d \in Seqs : p \in Rewinds(d) => d = e
    BY <2>1, OneRewinds
  <2>3. PICK A : A = plain \cap Rewinds(e)
    OBVIOUS
  <2>4. A \in SUBSET Seqs /\ A \subseteq Rewinds(e) /\ \A j \in A : OnOneRoad(j)
    BY <1>4, <2>3
  <2>5. CASE Rejoins(e, s)
    <3>1. Waits(s, p, A)
      BY <1>2, <2>2, <2>3, <2>4, <2>5 DEF Waits
    <3> QED BY <1>3, <2>4, <3>1 DEF InOrder
  <2>6. CASE e \in plain \cap Through(c, plain, s) /\ Rejoins(e, e)
    <3>1. \A d \in Seqs : e \in Rewinds(d) => d = e
      BY <2>1, <2>6, OneRewinds
    <3>2. Waits(s, e, plain)
      BY <1>4, <2>6, <3>1 DEF Waits
    <3>3. IsOver(row, e) /\ OnOneRoad(e)
      BY <1>3, <1>4, <2>1, <2>6, <3>2 DEF InOrder
    <3>4. Begun(row, e)
      BY <3>3 DEF Begun, IsOver
    <3>5. Waits(e, p, A)
      BY <1>2, <2>2, <2>3, <2>4, <2>6 DEF Waits
    <3> QED BY <2>1, <2>4, <3>4, <3>5 DEF InOrder
  <2> QED BY <1>1, <2>1, <2>5, <2>6
<1> QED BY <1>5, <1>6

-----------------------------------------------------------------------------
(* Artifacts and inputs.                                                   *)

\* Nobody brings p back.
Lasts(p) == \A e \in Seqs : p \notin Rewinds(e)

\* An artifact of the attempt that its row is in was stored for that row.
FirstHand(v) ==
    \A b \in blobs : b.attempt = v[b.seq].attempt =>
        b.name \in astray \/ Producers(b.name) = {b.seq} \/ v[b.seq].state \in {"CLAIMED", "DONE", "FAILED"}

\* A producer before one that has stored n is over.
InTurn(v, n) ==
    \A p, o \in Producers(n) : p < o /\ Lasts(p) /\ (\E b \in blobs : b.seq = o /\ b.name = n) => IsOver(v, p)

\* What the rows v say beside InOrder: only what is brought back has a later
\* attempt, and artifacts were stored in the order of their producers.
RowsFit(v) ==
    /\ InOrder(v)
    /\ \A p \in Seqs : Lasts(p) => v[p].attempt = 0
    /\ FirstHand(v)
    /\ \A n \in Names : Chained(n) => n \in astray \/ InTurn(v, n)

\* What was stored last under n is later than all else of the name.
LastIsLater(n) ==
    \A b \in blobs : b.name = n =>
        \E l \in blobs : l.name = n /\ Place(l) = newest[n] /\ \A o \in blobs : o.name = n => Later(l, o)

\* No step at work has read what is settled for it and was old.
ReadsNewest ==
    \A s \in Seqs : row[s].state = "CLAIMED" /\ work[s].st = "working" =>
        \A n \in work[s].old : Settled(s, n) => n \in astray

InputsInv ==
    /\ DOMAIN newest = Names \cup {Unmet}
    /\ ~RetriesNest =>
        /\ RowsFit(row) /\ ReadsNewest
        /\ \A n \in Names : Chained(n) => n \in astray \/ LastIsLater(n)

\* A contract does not change.
LEMMA SameContract ==
    ASSUME UNCHANGED <<c, stray>>
    PROVE  /\ Seqs' = Seqs /\ (RetriesNest' <=> RetriesNest)
           /\ \A e \in Seqs : Rewinds(e)' = Rewinds(e)
           /\ \A p : OnOneRoad(p)' <=> OnOneRoad(p)
           /\ \A s, p, A : Waits(s, p, A)' <=> Waits(s, p, A)
           /\ \A p : Lasts(p)' <=> Lasts(p)
           /\ \A n : Producers(n)' = Producers(n)
           /\ \A n : Chained(n)' <=> Chained(n)
           /\ \A s, n : Settled(s, n)' <=> Settled(s, n)
<1>1. Seqs' = Seqs
  BY DEF Seqs
<1>2. \A e \in Seqs : LoopOf(e)' = LoopOf(e) /\ CheckOf(e)' = CheckOf(e) /\ Rewinds(e)' = Rewinds(e)
  BY DEF LoopOf, CheckOf, Target, Checked, Rewinds, Seqs
<1>3. RetriesNest' <=> RetriesNest
  BY <1>1, <1>2 DEF RetriesNest
<1>4. Rewinding' = Rewinding
  BY <1>1, <1>2 DEF Rewinding
<1>5. \A p : OnOneRoad(p)' <=> OnOneRoad(p)
  BY <1>4 DEF OnOneRoad
<1>6. \A s, p, A : Waits(s, p, A)' <=> Waits(s, p, A)
  BY <1>1, <1>2, <1>5 DEF Waits
<1>7. \A p : Lasts(p)' <=> Lasts(p)
  BY <1>1, <1>2 DEF Lasts
<1>8. \A n : Producers(n)' = Producers(n)
  BY DEF Producers, Seqs
<1>9. \A s, p : OverBefore(s, p)' <=> OverBefore(s, p)
  BY <1>4 DEF OverBefore, Rewinding
<1>10. \A n : Distinct(n)' <=> Distinct(n)
  BY <1>8 DEF Distinct
<1>11. \A n : Chained(n)' <=> Chained(n)
  BY <1>1, <1>2, <1>3, <1>8, <1>9, <1>10 DEF Chained
<1>12. \A s, n : Settled(s, n)' <=> Settled(s, n)
  BY <1>8, <1>9, <1>11 DEF Settled
<1> QED BY <1>1, <1>2, <1>3, <1>5, <1>6, <1>7, <1>8, <1>11, <1>12

\* What is said of rows does not hang on anything else that changes.
LEMMA SameRows ==
    ASSUME UNCHANGED <<c, stray, blobs, astray>>, RowsFit(row')
    PROVE  RowsFit(row)'
<1>1. InOrder(row)'
  BY SameContract DEF InOrder, RowsFit, Begun, IsOver
<1>2. (\A p \in Seqs : Lasts(p) => row[p].attempt = 0)'
  BY SameContract DEF RowsFit
<1>3. FirstHand(row)'
  BY SameContract DEF RowsFit, FirstHand
<1>4. ASSUME NEW n \in Names, Chained(n)'
      PROVE  n \in astray' \/ InTurn(row, n)'
  <2>1. n \in astray \/ InTurn(row', n)
    BY <1>4, SameContract DEF RowsFit
  <2> QED BY <2>1, SameContract DEF InTurn, IsOver
<1> QED BY <1>1, <1>2, <1>3, <1>4 DEF RowsFit

\* The rows after the report of a claimed step fit.
LEMMA MovedRows ==
    ASSUME OutcomeInv, ~RetriesNest, RowsFit(row), NEW s \in Seqs, row[s].state = "CLAIMED",
           NEW u, Moved(row, u, s)
    PROVE  RowsFit(u)
<1>1. /\ Contracted /\ row \in [Seqs -> RowOf(Writable)] /\ Even(row) /\ NoneAhead /\ BlobsOk
      /\ InOrder(row)
  BY DEF OutcomeInv, Typed, Choices, RowsFit
<1>2. \A t \in Seqs : row[t].attempt \in Nat
  BY <1>1 DEF RowOf
<1>3. \A b \in blobs : b.seq \in Seqs /\ b.attempt \in Nat /\ b.attempt <= row[b.seq].attempt
  BY <1>1 DEF BlobsOk, NoneAhead
<1>4. \A n \in Names : Chained(n) => \A p, o \in Producers(n) : p < o => p \in Seqs /\ OnOneRoad(p)
  <2> SUFFICES ASSUME NEW n \in Names, Chained(n), NEW p \in Producers(n), NEW o \in Producers(n), p < o
               PROVE  p \in Seqs /\ OnOneRoad(p)
    OBVIOUS
  <2>1. p \in Seqs /\ o \in Seqs /\ OverBefore(o, p)
    BY DEF Chained, Producers
  <2> QED BY <1>1, <2>1, OverIsOver
<1>5. CASE Ends(row, u, s)
  <2>1. InOrder(u)
    BY <1>1, <1>5, InOrderEnded
  <2>2. \A t \in Seqs : u[t].attempt = row[t].attempt /\ (IsOver(row, t) => IsOver(u, t))
    BY <1>5 DEF Ends, IsOver
  <2>3. FirstHand(u)
    BY <1>3, <1>5 DEF RowsFit, FirstHand, Ends
  <2>4. \A n \in Names : InTurn(row, n) => InTurn(u, n)
    BY <2>2 DEF InTurn, Producers
  <2> QED BY <2>1, <2>2, <2>3, <2>4 DEF RowsFit
<1>6. ASSUME NEW S \in {LoopOf(s), CheckOf(s)}, s \in S, NEW m \in S, GoesBack(row, u, S, m)
      PROVE  RowsFit(u)
  <2>1. InOrder(u)
    BY <1>1, <1>6, InOrderBack
  <2>2. S = Rewinds(s) /\ S \subseteq Seqs
    BY <1>1, <1>6, RewindsOne, RewindsSteps
  <2>3. \A p \in Seqs : Lasts(p) => u[p] = row[p]
    BY <1>6, <2>2 DEF Lasts, GoesBack
  <2>4. \A t \in S : u[t].attempt = row[t].attempt + 1
    BY <1>1, <1>6, <2>2 DEF Even, GoesBack
  <2>5. FirstHand(u)
    <3> SUFFICES ASSUME NEW b \in blobs, b.attempt = u[b.seq].attempt
                 PROVE  b.name \in astray \/ Producers(b.name) = {b.seq} \/ u[b.seq].state \in {"CLAIMED", "DONE", "FAILED"}
      BY DEF FirstHand
    <3>1. b.seq \in Seqs /\ b.attempt \in Nat /\ b.attempt <= row[b.seq].attempt /\ row[b.seq].attempt \in Nat
      BY <1>2, <1>3
    <3>2. b.seq \notin S
      BY <2>4, <3>1
    <3>3. u[b.seq] = row[b.seq]
      BY <1>6, <3>1, <3>2 DEF GoesBack
    <3> QED BY <3>3 DEF RowsFit, FirstHand
  <2>6. \A n \in Names : InTurn(row, n) => InTurn(u, n)
    BY <2>3 DEF InTurn, Producers, IsOver
  <2> QED BY <2>1, <2>3, <2>5, <2>6 DEF RowsFit
<1>7. ASSUME NEW x \in c[s].to, Chooses(row, u, s, x)
      PROVE  RowsFit(u)
  <2>1. InOrder(u)
    BY <1>1, <1>7, InOrderChosen
  <2>2. \A p \in Seqs : OnOneRoad(p) /\ IsOver(row, p) => IsOver(u, p)
    BY <1>1, <1>7, StaysOver
  <2>3. \A t \in Seqs : u[t].attempt = row[t].attempt
    BY <1>7 DEF Chooses
  <2>4. \A t \in Seqs : row[t].state \in {"CLAIMED", "DONE", "FAILED"} => u[t].state \in {"CLAIMED", "DONE", "FAILED"}
    BY <1>7 DEF Chooses, Turned
  <2>5. FirstHand(u)
    BY <1>3, <2>3, <2>4 DEF RowsFit, FirstHand
  <2>6. \A n \in Names : Chained(n) /\ InTurn(row, n) => InTurn(u, n)
    BY <1>4, <2>2 DEF InTurn
  <2> QED BY <2>1, <2>3, <2>5, <2>6 DEF RowsFit
<1> QED BY <1>5, <1>6, <1>7 DEF Moved

\* What is left alone of what was read, and of what was stored, stays as it is.
LEMMA ReadsStay ==
    ASSUME UNCHANGED <<c, stray, astray>>, ReadsNewest,
           \A s \in Seqs : row'[s].state = "CLAIMED" /\ work'[s].st = "working" =>
                \/ work'[s].old = {}
                \/ row[s].state = "CLAIMED" /\ work[s].st = "working" /\ work'[s].old = work[s].old
    PROVE  ReadsNewest'
BY SameContract DEF ReadsNewest

\* The same of what was stored last.
LEMMA StoredStays ==
    ASSUME UNCHANGED <<c, stray, astray, blobs, newest>>,
           \A n \in Names : Chained(n) => n \in astray \/ LastIsLater(n)
    PROVE  (\A n \in Names : Chained(n) => n \in astray \/ LastIsLater(n))'
BY SameContract DEF LastIsLater, Later, Place

\* The report of a step.
LEMMA HandledInputs ==
    ASSUME OutcomeInv, InputsInv, NEW s \in Seqs, NEW ok \in BOOLEAN, NEW r \in ResultOf(Writable),
           Handle(s, ok, r), UNCHANGED <<c, stray, blobs, newest, astray>>,
           \A t \in Seqs : work'[t].st = "working" => work[t].st = "working" /\ work'[t].old = work[t].old
    PROVE  InputsInv'
<1>1. DOMAIN newest' = Names \cup {Unmet}
  BY DEF InputsInv
<1> SUFFICES ASSUME ~RetriesNest'
             PROVE  (/\ RowsFit(row) /\ ReadsNewest
                     /\ \A n \in Names : Chained(n) => n \in astray \/ LastIsLater(n))'
  BY <1>1 DEF InputsInv
<1>2. /\ ~RetriesNest /\ RowsFit(row) /\ ReadsNewest
      /\ \A n \in Names : Chained(n) => n \in astray \/ LastIsLater(n)
  BY SameContract DEF InputsInv
<1>3. Typed /\ Contracted /\ row \in [Seqs -> RowOf(Writable)]
  BY DEF OutcomeInv, Typed
<1>4. RowsFit(row')
  <2>1. CASE run = "RUNNING" /\ row[s].state = "CLAIMED"
    <3>1. row' \in Reported(s, ok, r)
      BY <2>1 DEF Handle
    <3>2. Moved(row, row', s)
      BY <1>3, <3>1, ReportMoves
    <3> QED BY <1>2, <2>1, <3>2, MovedRows
  <2>2. CASE ~(run = "RUNNING" /\ row[s].state = "CLAIMED")
    <3>1. row' = row
      BY <2>2 DEF Handle
    <3> QED BY <1>2, <3>1
  <2> QED BY <2>1, <2>2
<1>5. RowsFit(row)'
  BY <1>4, SameRows
<1>6. \A t \in Seqs : row'[t].state = "CLAIMED" => row[t].state = "CLAIMED"
  BY <1>3, HandledRows DEF Keeps, Taken
<1>7. ReadsNewest'
  BY <1>2, <1>6, ReadsStay
<1> QED BY <1>2, <1>5, <1>7, StoredStays

\* A claim.
LEMMA ClaimInputs ==
    ASSUME OutcomeInv, InputsInv, NEW s \in Seqs, Claim(s)
    PROVE  InputsInv'
<1>0. /\ row[s].state = "PENDING" /\ NeedsOver(s)
      /\ row' = [row EXCEPT ![s].state = "CLAIMED"]
      /\ UNCHANGED <<c, stray, blobs, newest, astray>>
  BY DEF Claim, given
<1>1. DOMAIN newest' = Names \cup {Unmet}
  BY <1>0 DEF InputsInv
<1> SUFFICES ASSUME ~RetriesNest'
             PROVE  (/\ RowsFit(row) /\ ReadsNewest
                     /\ \A n \in Names : Chained(n) => n \in astray \/ LastIsLater(n))'
  BY <1>1 DEF InputsInv
<1>2. /\ ~RetriesNest /\ RowsFit(row) /\ ReadsNewest
      /\ \A n \in Names : Chained(n) => n \in astray \/ LastIsLater(n)
  BY <1>0, SameContract DEF InputsInv
<1>3. Contracted /\ row \in [Seqs -> RowOf(Writable)] /\ work \in [Seqs -> WorkOf(Writable)]
  BY DEF OutcomeInv, Typed
<1>4. /\ row'[s].state = "CLAIMED" /\ row'[s].attempt = row[s].attempt
      /\ \A t \in Seqs : t # s => row'[t] = row[t]
  BY <1>0, <1>3 DEF RowOf
<1>5. RowsFit(row')
  <2>1. \A j \in NeedsOf(c, s) : IsOver(row, j)
    BY <1>0 DEF NeedsOver, IsOver
  <2>2. InOrder(row')
    BY <1>0, <1>2, <1>3, <1>4, <2>1, InOrderClaimed DEF RowsFit
  <2>3. \A t \in Seqs : row'[t].attempt = row[t].attempt /\ (IsOver(row, t) => IsOver(row', t))
    BY <1>0, <1>4 DEF IsOver
  <2>4. FirstHand(row')
    <3>1. \A b \in blobs : b.seq \in Seqs
      BY DEF OutcomeInv, BlobsOk
    <3> QED BY <1>2, <1>4, <3>1 DEF FirstHand, RowsFit
  <2>5. \A n \in Names : InTurn(row, n) => InTurn(row', n)
    BY <2>3 DEF InTurn, Producers
  <2> QED BY <1>2, <2>2, <2>3, <2>4, <2>5 DEF RowsFit
<1>6. RowsFit(row)'
  BY <1>0, <1>5, SameRows
<1>7. ReadsNewest'
  <2>1. work'[s].old = {} /\ \A t \in Seqs : t # s => work'[t] = work[t]
    BY <1>3 DEF Claim, Idle
  <2> QED BY <1>0, <1>2, <1>4, <2>1, ReadsStay
<1> QED BY <1>0, <1>2, <1>6, <1>7, StoredStays

\* What is stored under a distinct name is stored under it by one of its producers.
LEMMA DistinctNames ==
    ASSUME OutcomeInv, NEW n, Distinct(n), NEW b \in blobs
    PROVE  /\ Named(b, n) <=> b.name = n
           /\ b.name = n => b.seq \in Producers(n) /\ b.seq \in Seqs
<1>1. b.seq \in Seqs /\ b.name \in c[b.seq].out \cup stray
  BY DEF OutcomeInv, BlobsOk
<1>2. ~(<<b.name, n>> \in Suffixes)
  <2> SUFFICES ASSUME <<b.name, n>> \in Suffixes PROVE FALSE
    OBVIOUS
  <2>1. Producers(b.name) = {} /\ b.name \notin stray
    BY DEF Distinct
  <2>2. b.seq \in Producers(b.name)
    BY <1>1, <2>1 DEF Producers
  <2> QED BY <2>1, <2>2
<1>3. b.name = n => b.seq \in Producers(n)
  BY <1>1 DEF Producers, Distinct
<1> QED BY <1>1, <1>2, <1>3 DEF Named

\* What a step may write is declared or stray; what it reads under a distinct
\* name has been declared.
LEMMA DeclaredNames ==
    ASSUME OutcomeInv
    PROVE  /\ \A n \in Writable : Distinct(n) => n \in Names
           /\ \A s \in Seqs : c[s].out \subseteq Names
<1>1. \A s \in Seqs : c[s].out \subseteq Names
  BY OutcomeAssumption DEF OutcomeInv, Typed, Contracted, Seqs
<1> QED BY <1>1 DEF Writable, Distinct

\* A step reads what was stored last.
LEMMA FetchInputs ==
    ASSUME OutcomeInv, InputsInv, NEW s \in Seqs, Fetch(s)
    PROVE  InputsInv'
<1>0. UNCHANGED <<c, stray, row, blobs, newest, astray>> /\ work[s].st = "claimed"
  BY DEF Fetch, given
<1>1. DOMAIN newest' = Names \cup {Unmet}
  BY <1>0 DEF InputsInv
<1> SUFFICES ASSUME ~RetriesNest'
             PROVE  (/\ RowsFit(row) /\ ReadsNewest
                     /\ \A n \in Names : Chained(n) => n \in astray \/ LastIsLater(n))'
  BY <1>1 DEF InputsInv
<1>2. /\ ~RetriesNest /\ RowsFit(row) /\ ReadsNewest
      /\ \A n \in Names : Chained(n) => n \in astray \/ LastIsLater(n)
  BY <1>0, SameContract DEF InputsInv
<1>3. Contracted /\ work \in [Seqs -> WorkOf(Writable)] /\ BlobsOk /\ \A t \in Seqs : c[t].from \subseteq Writable
  BY ContractShape DEF OutcomeInv, Typed
<1>4. RowsFit(row)'
  <2>1. RowsFit(row')
    BY <1>0, <1>2
  <2> QED BY <1>0, <2>1, SameRows
<1>5. PICK old : old = {n \in c[s].from : \E b \in Served(n) : b.name # n \/ Place(b) # newest[n]}
  OBVIOUS
<1>6. work'[s].old = old /\ \A t \in Seqs : t # s => work'[t] = work[t]
  <2>1. PICK w : w = [work[s] EXCEPT !.st = "working", !.old = old]
    OBVIOUS
  <2>2. work' = [work EXCEPT ![s] = w]
    BY <1>5, <2>1 DEF Fetch
  <2>3. w.old = old
    BY <1>3, <2>1 DEF WorkOf
  <2> QED BY <1>3, <2>2, <2>3
<1>7. ASSUME NEW n \in old, Settled(s, n)
      PROVE  n \in astray
  <2>1. Chained(n) /\ Distinct(n) /\ n \in Names
    <3>1. Chained(n) /\ Distinct(n) /\ n \in Writable
      BY <1>3, <1>5, <1>7 DEF Settled, Chained
    <3> QED BY <3>1, DeclaredNames
  <2> SUFFICES ASSUME LastIsLater(n) PROVE FALSE
    BY <1>2, <2>1
  <2>2. PICK b \in Served(n) : b.name # n \/ Place(b) # newest[n]
    BY <1>5
  <2>3. b \in blobs /\ b.name = n /\ \A o \in blobs : o.name = n => Later(b, o)
    BY <2>1, DistinctNames DEF Served
  <2>4. PICK l \in blobs : l.name = n /\ Place(l) = newest[n] /\ \A o \in blobs : o.name = n => Later(l, o)
    BY <2>3 DEF LastIsLater
  <2>5. Later(b, l) /\ Later(l, b)
    BY <2>3, <2>4
  <2>6. /\ b.attempt \in Nat /\ l.attempt \in Nat /\ b.seq \in Nat /\ l.seq \in Nat
    <3>1. b.seq \in Seqs /\ l.seq \in Seqs /\ b.attempt \in Nat /\ l.attempt \in Nat
      BY <1>3, <2>3, <2>4 DEF BlobsOk
    <3> QED BY <1>3, <3>1, ContractShape
  <2>7. Place(b) = Place(l)
    BY <2>5, <2>6 DEF Later, Place
  <2> QED BY <2>2, <2>3, <2>4, <2>7
<1>8. ReadsNewest'
  <2> SUFFICES ASSUME NEW t \in Seqs, row'[t].state = "CLAIMED", work'[t].st = "working",
                      NEW n \in work'[t].old, Settled(t, n)
               PROVE  n \in astray
    BY <1>0, SameContract DEF ReadsNewest
  <2>1. CASE t = s
    BY <1>6, <1>7, <2>1
  <2>2. CASE t # s
    BY <1>0, <1>2, <1>6, <2>2 DEF ReadsNewest
  <2> QED BY <2>1, <2>2
<1> QED BY <1>0, <1>2, <1>4, <1>8, StoredStays

\* What a claimed producer stores is later than all that the other producers of
\* the name have stored: those before it are not ahead in their attempts, those
\* behind it are over from an earlier attempt.
LEMMA StoredIsLater ==
    ASSUME OutcomeInv, InputsInv, NEW s \in Seqs, row[s].state = "CLAIMED", NEW n \in Names, Chained(n),
           n \in c[s].out, n \notin astray, NEW b \in blobs, b.name = n
    PROVE  /\ b.attempt < row[s].attempt \/ (b.attempt = row[s].attempt /\ b.seq <= s)
           /\ b.seq \in Nat /\ b.attempt \in Nat
<1>1. /\ ~RetriesNest /\ RowsFit(row) /\ InTurn(row, n) /\ Distinct(n)
  BY DEF InputsInv, RowsFit, Chained
<1>2. /\ Contracted /\ row \in [Seqs -> RowOf(Writable)] /\ Even(row) /\ NoneAhead /\ BlobsOk
  BY <1>1 DEF OutcomeInv, Typed, Choices
<1>3. PICK q \in Seqs : q = b.seq
  BY <1>2 DEF BlobsOk
<1>4. /\ q \in Producers(n) /\ s \in Producers(n) /\ q \in Nat /\ s \in Nat
      /\ b.attempt \in Nat /\ b.attempt <= row[q].attempt /\ row[q].attempt \in Nat /\ row[s].attempt \in Nat
  <2>1. q \in Producers(n) /\ s \in Producers(n)
    BY <1>1, <1>3, DistinctNames DEF Producers
  <2>2. q \in Nat /\ s \in Nat
    BY <1>2, ContractShape
  <2>3. b.attempt \in Nat /\ b.attempt <= row[q].attempt
    BY <1>2, <1>3 DEF BlobsOk, NoneAhead
  <2> QED BY <1>2, <2>1, <2>2, <2>3 DEF RowOf
<1>5. \A p, o \in Producers(n) : p < o =>
        /\ OverBefore(o, p) /\ p \in Seqs /\ o \in Seqs
        /\ ~Lasts(p) => row[p].attempt = row[o].attempt
        /\ Lasts(p) => row[p].attempt = 0
  <2> SUFFICES ASSUME NEW p \in Producers(n), NEW o \in Producers(n), p < o
               PROVE  /\ OverBefore(o, p) /\ p \in Seqs /\ o \in Seqs
                      /\ ~Lasts(p) => row[p].attempt = row[o].attempt
                      /\ Lasts(p) => row[p].attempt = 0
    OBVIOUS
  <2>1. OverBefore(o, p) /\ p \in Seqs /\ o \in Seqs /\ \A e \in Seqs : p \in Rewinds(e) => o \in Rewinds(e)
    BY DEF Chained, Producers
  <2>2. ASSUME NEW e \in Seqs, p \in Rewinds(e)
        PROVE  row[p].attempt = row[o].attempt
    <3>1. PICK S \in {LoopOf(e), CheckOf(e)} : p \in S
      BY <2>2 DEF Rewinds
    <3>2. e \in S
      BY <1>2, <3>1, RewindsSteps DEF LoopOf, CheckOf
    <3>3. o \in S
      BY <1>1, <1>2, <2>1, <2>2, <3>2, RewindsOne
    <3> QED BY <1>2, <3>1, <3>3 DEF Even
  <2>3. Lasts(p) => row[p].attempt = 0
    BY <1>1, <2>1 DEF RowsFit
  <2> QED BY <2>1, <2>2, <2>3 DEF Lasts
<1>6. CASE q = s
  BY <1>3, <1>4, <1>6
<1>7. CASE q < s
  BY <1>3, <1>4, <1>5, <1>7
<1>8. CASE s < q
  <2>1. OverBefore(q, s)
    BY <1>4, <1>5, <1>8
  <2>2. ~IsOver(row, s)
    BY DEF IsOver
  <2>3. row[q].state \in {"PENDING", "SKIPPED"}
    BY <1>1, <1>2, <2>1, <2>2, OverIsOver DEF RowsFit
  <2>4. ~Lasts(s)
    BY <1>1, <1>3, <1>4, <1>8, <2>2 DEF InTurn
  <2>5. row[s].attempt = row[q].attempt
    BY <1>4, <1>5, <1>8, <2>4
  <2>6. b.attempt # row[q].attempt
    <3>1. Producers(n) # {q}
      BY <1>4, <1>8
    <3> QED BY <1>1, <1>3, <2>3, <3>1 DEF RowsFit, FirstHand
  <2> QED BY <1>3, <1>4, <2>5, <2>6
<1> QED BY <1>3, <1>4, <1>6, <1>7, <1>8

\* What is stored in time is newest, and nobody who surely waits for it is at work.
LEMMA PutInputs ==
    ASSUME OutcomeInv, InputsInv, NEW s \in Seqs, NEW n \in c[s].out \cup stray, Put(s, n)
    PROVE  InputsInv'
<1>0. /\ UNCHANGED <<c, stray, row>> /\ work[s].st = "working"
      /\ newest' = [newest EXCEPT ![n] = <<s, row[s].attempt>>]
      /\ astray' = IF InTime(s, n) THEN astray ELSE astray \cup {n}
  BY DEF Put, given
<1>1. DOMAIN newest' = Names \cup {Unmet}
  BY <1>0 DEF InputsInv
<1> SUFFICES ASSUME ~RetriesNest'
             PROVE  (/\ RowsFit(row) /\ ReadsNewest
                     /\ \A m \in Names : Chained(m) => m \in astray \/ LastIsLater(m))'
  BY <1>1 DEF InputsInv
<1>2. /\ ~RetriesNest /\ RowsFit(row) /\ ReadsNewest
      /\ \A m \in Names : Chained(m) => m \in astray \/ LastIsLater(m)
  BY <1>0, SameContract DEF InputsInv
<1>3. /\ Contracted /\ work \in [Seqs -> WorkOf(Writable)] /\ BlobsOk /\ NoneAhead
      /\ row[s].attempt \in Nat /\ s \in Nat
  <2>1. row[s] \in RowOf(Writable)
    BY DEF OutcomeInv, Typed
  <2>2. Contracted
    BY DEF OutcomeInv, Typed
  <2>3. s \in Nat
    BY <2>2, ContractShape
  <2> QED BY <1>2, <2>1, <2>3 DEF OutcomeInv, Typed, Choices, RowOf
<1>4. PICK e : /\ e.seq = s /\ e.attempt = row[s].attempt /\ e.name = n
               /\ blobs' = {b \in blobs : Place(b) # <<s, row[s].attempt>> \/ b.name # n} \cup {e}
  <2>1. PICK says : blobs' = Stored(s, n, says)
    BY DEF Put
  <2> DEFINE x == [seq |-> s, attempt |-> row[s].attempt, name |-> n, says |-> says]
  <2>2. x.seq = s /\ x.attempt = row[s].attempt /\ x.name = n
    OBVIOUS
  <2>3. blobs' = {b \in blobs : Place(b) # <<s, row[s].attempt>> \/ b.name # n} \cup {x}
    BY <2>1 DEF Stored
  <2> HIDE DEF x
  <2> QED BY <2>2, <2>3
<1>5. /\ e \in blobs' /\ \A b \in blobs' : b = e \/ b \in blobs
      /\ \A m : m # n => \A b : b.name = m => (b \in blobs' <=> b \in blobs)
  BY <1>4
<1>6. astray \subseteq astray' /\ (n \notin astray' => InTime(s, n))
  BY <1>0
<1>7. ASSUME Distinct(n)
      PROVE  n \in c[s].out /\ n \in Names /\ s \in Producers(n)
  BY <1>7, DeclaredNames DEF Distinct, Producers
<1>8. RowsFit(row)'
  <2>1. InOrder(row)'
    BY <1>0, <1>2, SameContract DEF InOrder, RowsFit, Begun, IsOver
  <2>2. (\A p \in Seqs : Lasts(p) => row[p].attempt = 0)'
    BY <1>0, <1>2, SameContract DEF RowsFit
  <2>3. FirstHand(row)'
    <3> SUFFICES ASSUME NEW b \in blobs', b.attempt = row[b.seq].attempt, b.name \notin astray',
                        Producers(b.name) # {b.seq}
                 PROVE  row[b.seq].state \in {"CLAIMED", "DONE", "FAILED"}
      BY <1>0, SameContract DEF FirstHand
    <3>1. CASE b = e
      BY <1>4, <1>6, <3>1 DEF InTime
    <3>2. CASE b \in blobs
      BY <1>2, <1>6, <3>2 DEF RowsFit, FirstHand
    <3> QED BY <1>5, <3>1, <3>2
  <2>4. ASSUME NEW m \in Names, Chained(m), m \notin astray', NEW p \in Producers(m), NEW o \in Producers(m),
               p < o, Lasts(p), NEW b \in blobs', b.seq = o, b.name = m
        PROVE  IsOver(row, p)
    <3>1. CASE b \in blobs
      BY <1>2, <1>6, <2>4, <3>1 DEF RowsFit, InTurn
    <3>2. CASE b = e
      <4>1. m = n /\ o = s /\ InTime(s, n)
        BY <1>4, <1>6, <2>4, <3>2
      <4>2. Producers(n) # {s}
        <5>1. o \in Nat /\ p \in Nat
          BY <1>3, ContractShape DEF Producers
        <5> QED BY <2>4, <4>1, <5>1
      <4>3. row[s].state = "CLAIMED"
        BY <4>1, <4>2 DEF InTime
      <4>4. OverBefore(s, p) /\ p \in Seqs
        BY <2>4, <4>1 DEF Chained, Producers
      <4> QED BY <1>2, <1>3, <4>3, <4>4, OverIsOver DEF RowsFit
    <3> QED BY <1>5, <3>1, <3>2
  <2>5. (\A m \in Names : Chained(m) => m \in astray \/ InTurn(row, m))'
    <3> SUFFICES ASSUME NEW m \in Names, Chained(m), m \notin astray',
                        NEW p \in Producers(m), NEW o \in Producers(m),
                        p < o, Lasts(p), NEW b \in blobs', b.seq = o, b.name = m
                 PROVE  IsOver(row', p)
      BY <1>0, SameContract DEF InTurn, IsOver
    <3> QED BY <1>0, <2>4
  <2> QED BY <2>1, <2>2, <2>3, <2>5 DEF RowsFit
<1>9. ASSUME NEW m \in Names, Chained(m), m \notin astray'
      PROVE  LastIsLater(m)'
  <2>1. m \notin astray /\ LastIsLater(m)
    BY <1>2, <1>6, <1>9
  <2>2. CASE m # n
    <3>1. newest'[m] = newest[m]
      BY <1>0, <2>2
    <3>2. \A b : b.name = m => (b \in blobs' <=> b \in blobs)
      BY <1>5, <2>2
    <3> QED BY <2>1, <3>1, <3>2 DEF LastIsLater, Place, Later
  <2>3. CASE m = n
    <3>1. Distinct(n) /\ n \in c[s].out /\ s \in Producers(n) /\ InTime(s, n)
      BY <1>6, <1>7, <1>9, <2>3 DEF Chained
    <3>2. newest'[n] = Place(e)
      BY <1>0, <1>1, <1>4, <2>3 DEF InputsInv, Place
    <3>3. ASSUME NEW o \in blobs', o.name = n
          PROVE  Later(e, o)
      <4>1. CASE o = e
        BY <1>3, <1>4, <4>1 DEF Later
      <4>2. CASE o \in blobs /\ row[s].state = "CLAIMED"
        <5>1. /\ o.attempt < row[s].attempt \/ (o.attempt = row[s].attempt /\ o.seq <= s)
              /\ o.seq \in Nat /\ o.attempt \in Nat
          BY <1>9, <2>1, <2>3, <3>1, <3>3, <4>2, StoredIsLater
        <5> QED BY <1>3, <1>4, <5>1 DEF Later
      <4>3. CASE o \in blobs /\ Producers(n) = {s}
        <5>1. o.seq = s /\ o.attempt \in Nat /\ o.attempt <= row[s].attempt
          BY <1>3, <3>1, <3>3, <4>3, DistinctNames DEF BlobsOk, NoneAhead
        <5> QED BY <1>3, <1>4, <5>1 DEF Later
      <4> QED BY <1>5, <3>1, <4>1, <4>2, <4>3 DEF InTime
    <3> QED BY <1>4, <1>5, <2>3, <3>2, <3>3 DEF LastIsLater, Place, Later
  <2> QED BY <2>2, <2>3
<1>10. ReadsNewest'
  <2>1. /\ work'[s].old = work[s].old
        /\ \A t \in Seqs : work'[t].st = work[t].st /\ work'[t].old \subseteq work[t].old \cup {n}
    <3> DEFINE y(t) == [work[t] EXCEPT !.old = IF n \in c[t].from /\ work[t].st = "working"
                                               THEN work[t].old \cup {n} ELSE work[t].old]
    <3>1. PICK w : w = [work[s] EXCEPT !.up = work[s].up \cup {n}]
      OBVIOUS
    <3>2. work' = [t \in Seqs |-> IF t = s THEN w ELSE y(t)]
      BY <3>1 DEF Put
    <3>3. w.old = work[s].old /\ w.st = work[s].st
      BY <1>3, <3>1 DEF WorkOf
    <3>4. ASSUME NEW t \in Seqs
          PROVE  y(t).st = work[t].st /\ y(t).old \subseteq work[t].old \cup {n}
      <4>1. work[t] \in WorkOf(Writable)
        BY <1>3
      <4> QED BY <4>1 DEF WorkOf
    <3> HIDE DEF y
    <3> QED BY <3>2, <3>3, <3>4
  <2> SUFFICES ASSUME NEW t \in Seqs, row[t].state = "CLAIMED", work'[t].st = "working",
                      NEW m \in work'[t].old, Settled(t, m)
               PROVE  m \in astray'
    BY <1>0, SameContract DEF ReadsNewest
  <2>2. CASE m \in work[t].old
    BY <1>2, <1>6, <2>1, <2>2 DEF ReadsNewest
  <2>3. CASE m = n /\ t # s
    <3> SUFFICES ASSUME InTime(s, n) PROVE FALSE
      BY <1>6, <2>3
    <3>1. s \in Producers(n) \ {t}
      BY <1>7, <2>3 DEF Settled, Chained
    <3>2. OverBefore(t, s)
      BY <2>3, <3>1 DEF Settled
    <3>3. IsOver(row, s)
      BY <1>2, <1>3, <3>2, OverIsOver DEF RowsFit
    <3> QED BY <3>3 DEF IsOver, InTime
  <2> QED BY <2>1, <2>2, <2>3
<1>11. (\A m \in Names : Chained(m) => m \in astray \/ LastIsLater(m))'
  BY <1>0, <1>9, SameContract
<1> QED BY <1>8, <1>10, <1>11

\* What moves neither a contract, a row, an input nor an artifact.
LEMMA QuietInputs ==
    ASSUME InputsInv, UNCHANGED <<c, stray, row, work, blobs, newest, astray>>
    PROVE  InputsInv'
<1>1. DOMAIN newest' = Names \cup {Unmet}
  BY DEF InputsInv
<1> SUFFICES ASSUME ~RetriesNest'
             PROVE  (/\ RowsFit(row) /\ ReadsNewest
                     /\ \A n \in Names : Chained(n) => n \in astray \/ LastIsLater(n))'
  BY <1>1 DEF InputsInv
<1>2. /\ ~RetriesNest /\ RowsFit(row) /\ ReadsNewest
      /\ \A n \in Names : Chained(n) => n \in astray \/ LastIsLater(n)
  BY SameContract DEF InputsInv
<1>3. RowsFit(row')
  BY <1>2
<1>4. RowsFit(row)'
  BY <1>3, SameRows
<1>5. ReadsNewest'
  BY <1>2, ReadsStay
<1> QED BY <1>2, <1>4, <1>5, StoredStays

\* When the Run begins nothing is stored and no step has begun.
LEMMA InputsInit == Init => InputsInv
<1> SUFFICES ASSUME Init PROVE InputsInv
  OBVIOUS
<1>1. /\ row = [s \in Seqs |-> FirstRow] /\ work = [s \in Seqs |-> Idle] /\ blobs = {}
      /\ newest = [n \in Names \cup {Unmet} |-> Nowhere]
  BY DEF Init
<1>2. FirstRow.state = "PENDING" /\ FirstRow.attempt = 0 /\ Idle.st = "idle"
  BY DEF FirstRow, Idle
<1>3. InOrder(row)
  BY <1>1, <1>2 DEF InOrder, Begun
<1>4. RowsFit(row)
  BY <1>1, <1>2, <1>3 DEF RowsFit, FirstHand, InTurn
<1>5. ReadsNewest
  BY <1>1, <1>2 DEF ReadsNewest
<1>6. \A n : LastIsLater(n)
  BY <1>1 DEF LastIsLater
<1> QED BY <1>1, <1>4, <1>5, <1>6 DEF InputsInv

\* No step of the Run breaks it.
LEMMA InputsNext == OutcomeInv /\ InputsInv /\ [Next]_vars => InputsInv'
<1> SUFFICES ASSUME OutcomeInv, InputsInv, [Next]_vars PROVE InputsInv'
  OBVIOUS
<1>1. ASSUME NEW s \in Seqs, Claim(s) PROVE InputsInv'
  BY <1>1, ClaimInputs
<1>2. ASSUME NEW s \in Seqs, Fetch(s) PROVE InputsInv'
  BY <1>2, FetchInputs
<1>3. ASSUME NEW s \in Seqs, Report(s) PROVE InputsInv'
  <2>1. PICK ok \in BOOLEAN, exit \in IF c[s].command THEN {"zero", "other"} ELSE {"none"} :
          LET r == [exit |-> exit, produced |-> work[s].up, of |-> work[s].no]
          IN  Handle(s, ok, r) /\ work' = [work EXCEPT ![s].st = "told", ![s].exit = exit]
    BY <1>3 DEF Report
  <2>2. PICK r : r = [exit |-> exit, produced |-> work[s].up, of |-> work[s].no]
    OBVIOUS
  <2>3. Handle(s, ok, r) /\ work' = [work EXCEPT ![s].st = "told", ![s].exit = exit]
    BY <2>1, <2>2
  <2>4. work \in [Seqs -> WorkOf(Writable)]
    BY DEF OutcomeInv, Typed
  <2>5. r \in ResultOf(Writable)
    BY <2>2, <2>4 DEF ResultOf, WorkOf, Exits
  <2>6. \A t \in Seqs : work'[t].st = "working" => work[t].st = "working" /\ work'[t].old = work[t].old
    <3>1. PICK w : w = [work[s] EXCEPT !.st = "told", !.exit = exit]
      OBVIOUS
    <3>2. work' = [work EXCEPT ![s] = w] /\ w.st = "told"
      BY <2>3, <2>4, <3>1 DEF WorkOf
    <3> QED BY <2>4, <3>2
  <2>7. UNCHANGED <<c, stray, blobs, newest, astray>>
    BY <1>3 DEF Report, given
  <2> QED BY <2>3, <2>5, <2>6, <2>7, HandledInputs
<1>4. ASSUME NEW s \in Seqs, NEW n \in c[s].out \cup stray, Put(s, n) PROVE InputsInv'
  BY <1>4, PutInputs
<1>5. CASE Repeated
  <2>1. PICK l \in late : Handle(l[1], TRUE, l[2])
    BY <1>5 DEF Repeated
  <2>2. PICK s \in Seqs, r \in ResultOf(Writable) : l = <<s, r>>
    BY <2>1 DEF OutcomeInv, Typed
  <2>3. Handle(s, TRUE, r) /\ UNCHANGED <<c, stray, work, blobs, newest, astray>>
    BY <1>5, <2>1, <2>2 DEF Repeated, given
  <2> QED BY <2>3, HandledInputs
<1>6. CASE Settle
  BY <1>6, QuietInputs DEF Settle, given
<1>7. CASE UNCHANGED vars
  BY <1>7, QuietInputs DEF vars
<1> QED BY <1>1, <1>2, <1>3, <1>4, <1>5, <1>6, <1>7 DEF Next, Rest

\* A step at work for its current attempt has read what was stored last under
\* each name whose producers the contract puts one after another and before it
\* (putBlob and OpenBlob of the Record; rollBack, validateBack and dispatch,
\* which begin steps again, and claim, which waits for the steps before).
THEOREM NewestAreRead == Spec => []InputsAreNewest
<1>1. InputsInv => InputsAreNewest
  BY DEF InputsInv, ReadsNewest, InputsAreNewest, Settled, Chained
<1> QED BY <1>1, InputsInit, InputsNext, OutcomeInvariant, PTL DEF Spec

-----------------------------------------------------------------------------
(* RunRecord: the transcript of a live Run has no hole.                    *)

Places == {"idle", "on", "closing", "last", "log", "logging", "blob", "blobbing", "report", "over"}
NodeType == [at : Places, wrote : Nat, buf : Seq(Nat), inflight : Seq(Nat), done : BOOLEAN]
FileType == [on : BOOLEAN, bytes : Seq(Int), old : BOOLEAN]
RequestType == [kind : {"chunk", "log", "blob"}, att : Attempts, body : Seq(Nat), pc : {"checked", "in"},
                wait : BOOLEAN, as : Attempts \cup {None}]
HarmType == [twice : SUBSET Attempts, swept : SUBSET Attempts, astray : SUBSET Attempts]

SweepType == [pc : {"idle", "listed", "drop", "remove"}, live : BOOLEAN, doomed : Attempts \cup {None}]

RecordTyped ==
    /\ recorded \in {"none", "running", "reported", "cancelled"} /\ attempt \in Attempts
    /\ node \in [Attempts -> NodeType] /\ file \in [Attempts -> FileType] /\ reqs \subseteq RequestType
    /\ harmed \in HarmType /\ sweep \in SweepType /\ (sweep.pc = "remove" => sweep.doomed \in Attempts)

\* Before the Run there is nothing, and nothing is dropped before it has ended.
NothingBefore ==
    /\ recorded = "none" => reqs = {} /\ \A a \in Attempts : node[a].at = "idle" /\ ~file[a].on
    /\ recorded \in {"none", "running"} => seal = "none"

\* One attempt at most has a file, and into it one chunk at most is read.
Files(F, R) ==
    /\ \A a, b \in Attempts : F[a].on /\ F[b].on => a = b
    /\ \A a \in Attempts : ~F[a].on => F[a].bytes = <<>>
    /\ \A r, q \in R : r.kind = "chunk" /\ r.pc = "in" /\ q.kind = "chunk" /\ q.pc = "in" => r = q
    /\ \A r \in R : r.kind = "chunk" /\ r.pc = "in" => F[r.att].on

\* A node waits for one answer, to what it does.
Fits(r, n) ==
    /\ r.kind = "chunk" => n.at \in {"on", "closing", "last"}
    /\ r.kind = "log" => n.at = "logging"
    /\ r.kind = "blob" => n.at = "blobbing"
OneAwaited(N, R) ==
    /\ \A r \in R : r.wait => Fits(r, N[r.att])
    /\ \A r, q \in R : r.wait /\ q.wait /\ r.att = q.att => r = q

\* The bytes s are k, k + 1, ..
Straight(s, k) == \A i \in 1..Len(s) : s[i] = k + i - 1

\* The first byte that the uploader still holds, or would hold.
First(n) == n.wrote + 1 - Len(n.buf) - Len(n.inflight)

\* The uploader holds the last bytes written, those on their way first.
Held(n) ==
    /\ First(n) \in Nat \ {0} /\ Straight(n.inflight, First(n))
    /\ Straight(n.buf, First(n) + Len(n.inflight))

\* The chunks on their way from a whose answer it waits for.
Out(a, R) == {r \in R : r.kind = "chunk" /\ r.wait /\ r.att = a}

Uploads(N, R) ==
    \A a \in Attempts : ~N[a].done =>
        /\ Held(N[a])
        /\ \A r \in Out(a, R) : N[a].inflight = r.body
        /\ Out(a, R) = {} => N[a].inflight = <<>>

\* A chunk is a piece of what was written.
Pieces(R) ==
    \A r \in R : r.kind = "chunk" =>
        Len(r.body) > 0 /\ r.body[1] \in Nat \ {0} /\ Straight(r.body, r.body[1])

Has(f, x) == \E j \in 1..Len(f) : f[j] = x

\* The file is full, or all bytes before k are in it.
Reaches(f, k) == Capped(f) \/ \A x \in 1..(k - 1) : Has(f, x)

Smooth(f) == \A i \in 1..Len(f) : f[i] > 1 => \E j \in 1..(i - 1) : f[j] = f[i] - 1

\* A later attempt has a file.
Stale(a, F) == \E b \in Attempts : F[b].on /\ a < b

Ahead(a, F, k) == Stale(a, F) \/ Reaches(F[a].bytes, k)

Flows(F, N, R) ==
    /\ \A a \in Attempts : Smooth(F[a].bytes)
    /\ \A r \in R : r.kind = "chunk" => Ahead(r.att, F, r.body[1])
    /\ \A a \in Attempts : ~N[a].done => Ahead(a, F, First(N[a]))

Unharmed == recorded \in {"none", "running"} /\ harmed.swept = {}

RecordInv ==
    /\ RecordTyped /\ NothingBefore /\ Files(file, reqs) /\ OneAwaited(node, reqs)
    /\ Uploads(node, reqs) /\ Pieces(reqs)
    /\ Unharmed => Flows(file, node, reqs)

-----------------------------------------------------------------------------
(* What the operations do to the bytes.                                    *)

\* A file with a chunk's first k bytes behind its own.
Grown(f, s, k) == f \o SubSeq(s, 1, k)

LEMMA FileGrows ==
    ASSUME NEW f \in Seq(Int), NEW s \in Seq(Nat), NEW k \in 0..Len(s)
    PROVE  /\ Grown(f, s, k) \in Seq(Int) /\ Len(Grown(f, s, k)) = Len(f) + k
           /\ \A i \in 1..Len(f) : Grown(f, s, k)[i] = f[i]
           /\ \A i \in 1..k : Grown(f, s, k)[Len(f) + i] = s[i]
<1>1. /\ SubSeq(s, 1, k) \in Seq(Nat) /\ Len(SubSeq(s, 1, k)) = k
      /\ \A i \in 1..k : SubSeq(s, 1, k)[i] = s[i]
  OBVIOUS
<1> DEFINE p == SubSeq(s, 1, k)
<1>2. p \in Seq(Int)
  BY <1>1
<1>3. Grown(f, s, k) = f \o p /\ Len(p) = k /\ \A i \in 1..k : p[i] = s[i]
  BY <1>1 DEF Grown
<1> HIDE DEF p
<1> QED BY <1>2, <1>3

\* A file that keeps its bytes in place keeps what it reaches.
LEMMA KeepsBytes ==
    ASSUME NEW f \in Seq(Int), NEW u \in Seq(Int), Len(f) <= Len(u), \A i \in 1..Len(f) : u[i] = f[i],
           ~Capped(f), NEW k \in Int, Reaches(f, k)
    PROVE  Reaches(u, k)
<1>1. \A x : Has(f, x) => Has(u, x)
  BY DEF Has
<1> QED BY <1>1 DEF Reaches

\* A chunk that begins where the file has all before it leaves no hole.
LEMMA StaysSmooth ==
    ASSUME NEW f \in Seq(Int), NEW s \in Seq(Nat), Len(s) > 0, s[1] \in Nat \ {0}, Straight(s, s[1]),
           NEW k \in 0..Len(s), ~Capped(f), Reaches(f, s[1]), Smooth(f)
    PROVE  /\ Smooth(Grown(f, s, k)) /\ \A x \in Int : Reaches(f, x) => Reaches(Grown(f, s, k), x)
           /\ k = Len(s) => Reaches(Grown(f, s, k), s[1] + Len(s))
<1> DEFINE u == Grown(f, s, k)
<1>1. /\ u \in Seq(Int) /\ Len(u) = Len(f) + k
      /\ \A i \in 1..Len(f) : u[i] = f[i]
      /\ \A i \in 1..k : u[Len(f) + i] = s[i]
  BY FileGrows
<1>p. PICK d \in Int : d = s[1]
  OBVIOUS
<1>2. \A i \in 1..Len(s) : s[i] = d + i - 1
  BY <1>p DEF Straight
<1>3. \A x \in 1..(s[1] - 1) : \E j \in 1..Len(f) : f[j] = x
  BY DEF Reaches, Has
<1>0. Len(f) \in Nat /\ Len(s) \in Nat /\ Len(u) \in Nat /\ s[1] \in Int /\ k \in Int
  BY <1>1
<1> HIDE DEF u
<1>4. ASSUME NEW i \in 1..Len(u), u[i] > 1
      PROVE  \E j \in 1..(i - 1) : u[j] = u[i] - 1
  <2>1. CASE i <= Len(f)
    <3>1. f[i] > 1 /\ i \in 1..Len(f)
      BY <1>1, <1>4, <2>1
    <3>2. PICK j \in 1..(i - 1) : f[j] = f[i] - 1
      BY <3>1 DEF Smooth
    <3>3. j \in 1..Len(f)
      BY <1>0, <2>1, <3>2
    <3>4. u[j] = f[j] /\ u[i] = f[i]
      BY <1>1, <3>1, <3>3
    <3> QED BY <3>2, <3>4
  <2>2. CASE i = Len(f) + 1
    <3>1. u[i] = s[1] /\ k >= 1
      BY <1>0, <1>1, <2>2
    <3>2. u[i] - 1 \in 1..(s[1] - 1)
      BY <1>0, <1>4, <3>1
    <3>3. PICK j \in 1..Len(f) : f[j] = u[i] - 1
      BY <1>3, <3>2
    <3>4. j \in 1..(i - 1) /\ u[j] = f[j]
      BY <1>0, <1>1, <2>2, <3>3
    <3> QED BY <3>3, <3>4
  <2>3. CASE i > Len(f) + 1
    <3>0. PICK m \in Int : m = i - Len(f)
      BY <1>0
    <3>1. m \in 2..k /\ m - 1 \in 1..k /\ m \in 1..k /\ i = Len(f) + m /\ i - 1 = Len(f) + (m - 1)
      BY <1>0, <1>1, <2>3, <3>0
    <3>2. u[i] = s[m] /\ u[i - 1] = s[m - 1]
      BY <1>1, <3>1
    <3>3. s[m] = d + m - 1 /\ s[m - 1] = d + (m - 1) - 1
      <4>1. m \in 1..Len(s) /\ m - 1 \in 1..Len(s)
        BY <1>0, <3>1
      <4> QED BY <1>2, <4>1
    <3>4. i - 1 \in 1..(i - 1)
      BY <1>0, <2>3
    <3>5. s[m] - 1 = s[m - 1]
      BY <1>0, <3>0, <3>3
    <3> QED BY <3>2, <3>4, <3>5
  <2> QED BY <1>0, <2>1, <2>2, <2>3
<1>5. ASSUME k = Len(s), NEW x \in 1..(s[1] + Len(s) - 1)
      PROVE  Has(u, x)
  <2>1. CASE x < s[1]
    <3>0. x \in 1..(s[1] - 1)
      BY <1>0, <2>1
    <3>1. PICK j \in 1..Len(f) : f[j] = x
      BY <1>3, <3>0
    <3>2. j \in 1..Len(u)
      BY <1>0, <1>1, <3>1
    <3>3. u[j] = x
      BY <1>1, <3>1
    <3> QED BY <3>2, <3>3 DEF Has
  <2>2. CASE x >= s[1]
    <3>0. PICK m \in Int : m = x - d + 1
      BY <1>0, <1>5
    <3>1. m \in 1..k
      BY <1>0, <1>p, <1>5, <2>2, <3>0
    <3>2. Len(f) + m \in 1..Len(u)
      BY <1>0, <1>1, <3>1
    <3>3. u[Len(f) + m] = s[m] /\ s[m] = d + m - 1
      BY <1>1, <1>2, <1>5, <3>1
    <3>4. d + m - 1 = x
      BY <1>0, <1>5, <3>0
    <3> QED BY <3>2, <3>3, <3>4 DEF Has
  <2> QED BY <1>0, <2>1, <2>2
<1>6. \A x \in Int : Reaches(f, x) => Reaches(u, x)
  <2>1. Len(f) <= Len(u)
    BY <1>0, <1>1
  <2> QED BY <1>1, <2>1, KeepsBytes
<1>7. k = Len(s) => Reaches(u, s[1] + Len(s))
  BY <1>5 DEF Reaches
<1>8. Smooth(u)
  BY <1>4 DEF Smooth
<1> QED BY <1>6, <1>7, <1>8 DEF u

\* A byte of a longer file that was there before has its predecessor before it.
LEMMA SmoothBefore ==
    ASSUME NEW f \in Seq(Int), Smooth(f), NEW u \in Seq(Int), Len(u) = Len(f) + 1,
           \A i \in 1..Len(f) : u[i] = f[i], u[Len(f) + 1] <= 1, NEW i \in 1..Len(u), u[i] > 1
    PROVE  \E j \in 1..(i - 1) : u[j] = u[i] - 1
<1>0. Len(f) \in Nat
  OBVIOUS
<1>1. i \in 1..Len(f)
  BY <1>0
<1>2. PICK j \in 1..(i - 1) : f[j] = f[i] - 1
  BY <1>1 DEF Smooth
<1>3. j \in 1..Len(f)
  BY <1>0, <1>1, <1>2
<1> QED BY <1>1, <1>2, <1>3

\* The mark makes a file full and leaves no hole.
LEMMA MarkedFile ==
    ASSUME NEW f \in Seq(Int), Smooth(f)
    PROVE  Marked(f) \in Seq(Int) /\ Smooth(Marked(f)) /\ Capped(Marked(f))
<1>1. PICK g : g = IF f = <<>> \/ EndsLine(f) THEN f ELSE Append(f, NewLine)
  OBVIOUS
<1>2. g \in Seq(Int) /\ Smooth(g)
  <2>1. CASE g = f
    BY <2>1
  <2>2. CASE g = Append(f, -1)
    <3>1. /\ g \in Seq(Int) /\ Len(g) = Len(f) + 1 /\ g[Len(f) + 1] = -1
          /\ \A i \in 1..Len(f) : g[i] = f[i]
      BY <2>2
    <3>2. ASSUME NEW i \in 1..Len(g), g[i] > 1
          PROVE  \E j \in 1..(i - 1) : g[j] = g[i] - 1
      <4>1. g[Len(f) + 1] <= 1
        BY <3>1
      <4> QED BY <3>1, <3>2, <4>1, SmoothBefore
    <3> QED BY <3>1, <3>2 DEF Smooth
  <2> QED BY <1>1, <2>1, <2>2 DEF NewLine
<1>3. PICK u : u = g \o <<0>>
  OBVIOUS
<1>4. /\ u \in Seq(Int) /\ Len(u) = Len(g) + 1 /\ u[Len(g) + 1] = 0
      /\ \A i \in 1..Len(g) : u[i] = g[i]
  BY <1>2, <1>3
<1>5. Smooth(u)
  <2>1. ASSUME NEW i \in 1..Len(u), u[i] > 1
        PROVE  \E j \in 1..(i - 1) : u[j] = u[i] - 1
    <3>1. u[Len(g) + 1] <= 1
      BY <1>4
    <3> QED BY <1>2, <1>4, <2>1, <3>1, SmoothBefore
  <2> QED BY <2>1 DEF Smooth
<1>6. Capped(u)
  BY <1>2, <1>4 DEF Capped, Mark
<1>7. Marked(f) = u
  BY <1>1, <1>3 DEF Marked, Mark
<1> QED BY <1>4, <1>5, <1>6, <1>7

\* The last line that ends in the budget is a piece of the chunk.
LEMMA LastLineInside ==
    ASSUME NEW s \in Seq(Nat), NEW b \in Int, b <= Len(s)
    PROVE  LastLine(s, b) \in 0..Len(s)
<1> DEFINE ends == {k \in 1..b : s[k] \in Lines}
<1>1. CASE ends = {}
  BY <1>1 DEF LastLine
<1>2. CASE ends # {}
  <2> DEFINE D == {b - k : k \in ends}
  <2>1. \A k \in ends : b - k \in Nat
    OBVIOUS
  <2>2. D \in SUBSET Nat /\ D # {}
    BY <1>2, <2>1
  <2>3. PICK m \in D : \A d \in D : m <= d
    BY <2>2, LeastExists
  <2>4. PICK k \in ends : m = b - k
    BY <2>3
  <2>5. ASSUME NEW j \in ends
        PROVE  j <= k
    <3>1. b - j \in D
      OBVIOUS
    <3>2. m <= b - j
      BY <2>3, <3>1
    <3>3. j \in Int /\ k \in Int /\ b \in Int
      OBVIOUS
    <3> QED BY <2>4, <3>2, <3>3
  <2>6. LastLine(s, b) \in ends
    BY <1>2, <2>5 DEF LastLine
  <2> QED BY <2>6
<1> QED BY <1>1, <1>2

\* What a whole chunk makes of a file that has all before it.
LEMMA WithinLimit ==
    ASSUME NEW f \in Seq(Int), NEW s \in Seq(Nat), Len(s) > 0, s[1] \in Nat \ {0}, Straight(s, s[1])
    PROVE  /\ AppendWithinLimit(f, s) \in Seq(Int)
           /\ Reaches(f, s[1]) /\ Smooth(f) =>
                /\ Smooth(AppendWithinLimit(f, s))
                /\ Reaches(AppendWithinLimit(f, s), s[1] + Len(s))
                /\ \A x \in Int : Reaches(f, x) => Reaches(AppendWithinLimit(f, s), x)
<1> DEFINE u == AppendWithinLimit(f, s)
<1>0. Limit \in Nat
  BY RecordAssumption
<1>1. CASE Capped(f)
  <2>1. u = f
    BY <1>1 DEF AppendWithinLimit
  <2> QED BY <1>1, <2>1 DEF Reaches
<1>2. CASE ~Capped(f) /\ Len(f) + Len(s) <= Limit /\ Len(f) < Limit
  <2>1. u = Grown(f, s, Len(s))
    BY <1>2 DEF AppendWithinLimit, Grown
  <2>2. Len(s) \in 0..Len(s)
    OBVIOUS
  <2>3. u \in Seq(Int)
    BY <2>1, <2>2, FileGrows
  <2> HIDE DEF u
  <2>4. Reaches(f, s[1]) /\ Smooth(f) =>
            /\ Smooth(u) /\ Reaches(u, s[1] + Len(s))
            /\ \A x \in Int : Reaches(f, x) => Reaches(u, x)
    BY <1>2, <2>1, <2>2, StaysSmooth
  <2> QED BY <2>3, <2>4 DEF u
<1>3. CASE ~Capped(f) /\ ~(Len(f) + Len(s) <= Limit /\ Len(f) < Limit)
  <2>1. PICK k : k = LastLine(s, Limit - Len(f))
    OBVIOUS
  <2>2. k \in 0..Len(s)
    BY <1>0, <1>3, <2>1, LastLineInside
  <2>3. PICK g : g = Grown(f, s, k)
    OBVIOUS
  <2>4. g \in Seq(Int) /\ (Reaches(f, s[1]) /\ Smooth(f) => Smooth(g))
    BY <1>3, <2>2, <2>3, FileGrows, StaysSmooth
  <2>5. u = Marked(g)
    BY <1>3, <2>1, <2>3 DEF AppendWithinLimit, Grown
  <2>6. Marked(g) \in Seq(Int)
    BY <2>4 DEF Marked, NewLine, Mark
  <2>7. Smooth(g) => Smooth(Marked(g)) /\ Capped(Marked(g))
    BY <2>4, MarkedFile
  <2> HIDE DEF u
  <2>8. u \in Seq(Int) /\ (Reaches(f, s[1]) /\ Smooth(f) => Smooth(u) /\ Capped(u))
    BY <2>4, <2>5, <2>6, <2>7
  <2> QED BY <2>8 DEF Reaches, u
<1> QED BY <1>1, <1>2, <1>3

-----------------------------------------------------------------------------
(* What the operations do to the uploader.                                 *)

LEMMA Joined ==
    ASSUME NEW g \in Seq(Nat), NEW h \in Seq(Nat)
    PROVE  /\ g \o h \in Seq(Nat) /\ Len(g \o h) = Len(g) + Len(h)
           /\ \A i \in 1..Len(g) : (g \o h)[i] = g[i]
           /\ \A i \in 1..Len(h) : (g \o h)[Len(g) + i] = h[i]
OBVIOUS

LEMMA NodeFields ==
    ASSUME NEW n \in NodeType
    PROVE  /\ n.at \in Places /\ n.wrote \in Nat /\ n.buf \in Seq(Nat) /\ n.inflight \in Seq(Nat) /\ n.done \in BOOLEAN
           /\ First(n) \in Int /\ Len(n.buf) \in Nat /\ Len(n.inflight) \in Nat
BY DEF NodeType, First

\* The node is somewhere else.
At(n, p) == [n EXCEPT !.at = p]

LEMMA AtElsewhere ==
    ASSUME NEW n \in NodeType, NEW p \in Places
    PROVE  /\ At(n, p) \in NodeType /\ At(n, p).at = p /\ At(n, p).done = n.done
           /\ At(n, p).inflight = n.inflight /\ At(n, p).buf = n.buf
           /\ First(At(n, p)) = First(n) /\ (Held(At(n, p)) <=> Held(n))
<1>1. PICK m : m = At(n, p)
  OBVIOUS
<1>2. /\ m \in NodeType /\ m.at = p /\ m.done = n.done /\ m.wrote = n.wrote
      /\ m.inflight = n.inflight /\ m.buf = n.buf
  BY <1>1 DEF At, NodeType
<1>3. First(m) = First(n) /\ (Held(m) <=> Held(n))
  BY <1>2 DEF First, Held
<1> QED BY <1>1, <1>2, <1>3

LEMMA AfterIsPlace ==
    ASSUME NEW p \in Places
    PROVE  After(p) \in Places
BY DEF After, Places

LEMMA WrittenHolds ==
    ASSUME NEW n \in NodeType, n.done \/ Held(n)
    PROVE  /\ Written(n) \in NodeType /\ Written(n).at = n.at /\ Written(n).inflight = n.inflight
           /\ ~Written(n).done => ~n.done /\ Held(Written(n)) /\ First(Written(n)) = First(n)
<1>0. /\ n.wrote \in Nat /\ n.buf \in Seq(Nat) /\ Len(n.buf) \in Nat /\ Len(n.inflight) \in Nat
  BY NodeFields
<1>p. PICK x \in Int, p \in Int, q \in Int : x = n.wrote /\ p = Len(n.buf) /\ q = Len(n.inflight)
  BY <1>0
<1>f. First(n) = x + 1 - p - q
  BY <1>p DEF First
<1>1. PICK m : m = [n EXCEPT !.wrote = @ + 1]
  OBVIOUS
<1>2. /\ m \in NodeType /\ m.at = n.at /\ m.done = n.done /\ m.wrote = n.wrote + 1
      /\ m.inflight = n.inflight /\ m.buf = n.buf
  <2>1. PICK y \in Nat : y = n.wrote + 1
    BY <1>0
  <2>2. m = [n EXCEPT !.wrote = y]
    BY <1>1, <2>1
  <2> QED BY <2>1, <2>2 DEF NodeType
<1>3. CASE m.done
  <2>1. Written(n) = m
    BY <1>1, <1>3 DEF Written
  <2> QED BY <1>2, <1>3, <2>1
<1>4. CASE ~m.done /\ Overflows(n)
  <2>1. Written(n) = [m EXCEPT !.done = TRUE]
    BY <1>1, <1>4 DEF Written
  <2>2. /\ Written(n) \in NodeType /\ Written(n).at = m.at /\ Written(n).done
        /\ Written(n).inflight = m.inflight
    BY <1>2, <2>1 DEF NodeType
  <2> QED BY <1>2, <2>2
<1>5. CASE ~m.done /\ ~Overflows(n)
  <2>1. PICK b : b = Append(n.buf, m.wrote)
    OBVIOUS
  <2>2. /\ b \in Seq(Nat) /\ Len(b) = Len(n.buf) + 1 /\ b[Len(n.buf) + 1] = m.wrote
        /\ \A i \in 1..Len(n.buf) : b[i] = n.buf[i]
    BY <1>0, <1>2, <2>1
  <2>3. PICK w : w = Written(n)
    OBVIOUS
  <2>4. w = [m EXCEPT !.buf = b]
    BY <1>1, <1>2, <1>5, <2>1, <2>3 DEF Written
  <2>5. /\ w \in NodeType /\ w.at = m.at /\ w.done = m.done /\ w.wrote = m.wrote
        /\ w.inflight = m.inflight /\ w.buf = b
    BY <1>2, <2>2, <2>4 DEF NodeType
  <2>6. First(w) = First(n)
    <3>1. w.wrote = x + 1 /\ Len(w.buf) = p + 1 /\ Len(w.inflight) = q
      BY <1>2, <1>p, <2>2, <2>5
    <3>2. First(w) = x + 1 + 1 - (p + 1) - q
      BY <3>1 DEF First
    <3> QED BY <1>f, <3>2
  <2>7. Held(n)
    BY <1>2, <1>5
  <2>8. m.wrote = First(n) + Len(n.inflight) + (Len(n.buf) + 1) - 1
    <3>1. m.wrote = x + 1
      BY <1>2, <1>p
    <3>2. First(n) + Len(n.inflight) + (Len(n.buf) + 1) - 1 = (x + 1 - p - q) + q + (p + 1) - 1
      BY <1>f, <1>p
    <3> QED BY <3>1, <3>2
  <2>9. ASSUME NEW i \in 1..Len(b)
        PROVE  b[i] = First(n) + Len(n.inflight) + i - 1
    <3>1. CASE i \in 1..Len(n.buf)
      BY <2>2, <2>7, <3>1 DEF Held, Straight
    <3>2. CASE i = Len(n.buf) + 1
      BY <2>2, <2>8, <3>2
    <3>3. i \in 1..Len(n.buf) \/ i = Len(n.buf) + 1
      BY <1>0, <2>2
    <3> QED BY <3>1, <3>2, <3>3
  <2>10. Held(w)
    BY <1>2, <2>5, <2>6, <2>7, <2>9 DEF Held, Straight
  <2> QED BY <1>2, <1>5, <2>3, <2>5, <2>6, <2>10
<1> QED BY <1>3, <1>4, <1>5

\* The flight is over and what it carried has arrived, or is not asked for any more.
LEMMA HeardHolds ==
    ASSUME NEW n \in NodeType, n.done \/ Held(n), NEW a, NEW ack
    PROVE  /\ Heard(n, a, ack) \in NodeType /\ Heard(n, a, ack).at = n.at /\ Heard(n, a, ack).inflight = <<>>
           /\ ~Heard(n, a, ack).done =>
                /\ ~n.done /\ ~(ack.att > a) /\ ~ack.capped /\ Held(Heard(n, a, ack))
                /\ First(Heard(n, a, ack)) = First(n) + Len(n.inflight)
<1>0. /\ n.wrote \in Nat /\ n.buf \in Seq(Nat) /\ Len(n.buf) \in Nat /\ Len(n.inflight) \in Nat /\ First(n) \in Int
      /\ <<>> \in Seq(Nat) /\ Len(<<>>) = 0
  BY NodeFields
<1>p. PICK x \in Int, p \in Int, q \in Int : x = n.wrote /\ p = Len(n.buf) /\ q = Len(n.inflight)
  BY <1>0
<1>f. First(n) = x + 1 - p - q
  BY <1>p DEF First
<1>1. PICK m : m = Heard(n, a, ack)
  OBVIOUS
<1>2. CASE ack.att > a \/ ack.capped
  <2>1. m = [n EXCEPT !.done = TRUE, !.buf = <<>>, !.inflight = <<>>]
    BY <1>1, <1>2 DEF Heard, Halted
  <2>2. m \in NodeType /\ m.at = n.at /\ m.inflight = <<>> /\ m.done
    BY <1>0, <2>1 DEF NodeType
  <2> QED BY <1>1, <2>2
<1>3. CASE ~(ack.att > a \/ ack.capped)
  <2>1. m = [n EXCEPT !.inflight = <<>>]
    BY <1>1, <1>3 DEF Heard
  <2>2. /\ m \in NodeType /\ m.at = n.at /\ m.inflight = <<>> /\ m.done = n.done /\ m.wrote = n.wrote /\ m.buf = n.buf
    BY <1>0, <2>1 DEF NodeType
  <2>3. First(m) = First(n) + Len(n.inflight)
    <3>1. m.wrote = x /\ Len(m.buf) = p /\ Len(m.inflight) = 0
      BY <1>0, <1>p, <2>2
    <3>2. First(m) = x + 1 - p - 0
      BY <3>1 DEF First
    <3>3. First(n) + Len(n.inflight) = (x + 1 - p - q) + q
      BY <1>f, <1>p
    <3> QED BY <3>2, <3>3
  <2>4. Held(n) => Held(m)
    <3>1. First(m) + Len(m.inflight) = First(n) + Len(n.inflight)
      BY <1>0, <2>2, <2>3
    <3>2. Straight(m.inflight, First(m))
      BY <1>0, <2>2 DEF Straight
    <3>3. First(n) \in Nat \ {0} => First(m) \in Nat \ {0}
      BY <1>0, <2>3
    <3> QED BY <2>2, <3>1, <3>2, <3>3 DEF Held
  <2> QED BY <1>1, <1>3, <2>2, <2>3, <2>4
<1> QED BY <1>2, <1>3

\* What could not be sent is held again, in its place.
LEMMA PutBackHolds ==
    ASSUME NEW n \in NodeType, n.done \/ Held(n)
    PROVE  /\ PutBack(n) \in NodeType /\ PutBack(n).at = n.at /\ PutBack(n).inflight = <<>>
           /\ ~PutBack(n).done => ~n.done /\ Held(PutBack(n)) /\ First(PutBack(n)) = First(n)
<1>0. /\ n.wrote \in Nat /\ n.buf \in Seq(Nat) /\ n.inflight \in Seq(Nat)
      /\ Len(n.buf) \in Nat /\ Len(n.inflight) \in Nat /\ First(n) \in Int
      /\ <<>> \in Seq(Nat) /\ Len(<<>>) = 0
  BY NodeFields
<1>p. PICK x \in Int, p \in Int, q \in Int : x = n.wrote /\ p = Len(n.buf) /\ q = Len(n.inflight)
  BY <1>0
<1>f. First(n) = x + 1 - p - q
  BY <1>p DEF First
<1>1. PICK w : w = PutBack(n)
  OBVIOUS
<1>2. CASE n.done
  <2>1. w = [n EXCEPT !.inflight = <<>>]
    BY <1>1, <1>2 DEF PutBack
  <2>2. w \in NodeType /\ w.at = n.at /\ w.inflight = <<>> /\ w.done = n.done
    BY <1>0, <2>1 DEF NodeType
  <2> QED BY <1>1, <1>2, <2>2
<1>3. CASE ~n.done /\ Len(n.inflight) + Len(n.buf) > BufferMax
  <2>1. w = [n EXCEPT !.done = TRUE, !.buf = <<>>, !.inflight = <<>>]
    BY <1>1, <1>3 DEF PutBack, Halted
  <2>2. w \in NodeType /\ w.at = n.at /\ w.inflight = <<>> /\ w.done
    BY <1>0, <2>1 DEF NodeType
  <2> QED BY <1>1, <2>2
<1>4. CASE ~n.done /\ ~(Len(n.inflight) + Len(n.buf) > BufferMax)
  <2>1. PICK m : m = [n EXCEPT !.inflight = <<>>]
    OBVIOUS
  <2>2. /\ m \in NodeType /\ m.at = n.at /\ m.done = n.done /\ m.wrote = n.wrote
        /\ m.inflight = <<>> /\ m.buf = n.buf
    BY <1>0, <2>1 DEF NodeType
  <2>3. PICK b : b = n.inflight \o n.buf
    OBVIOUS
  <2>d. b = n.inflight \o n.buf /\ n.inflight \in Seq(Nat) /\ n.buf \in Seq(Nat)
    BY <1>0, <2>3
  <2>4. /\ b \in Seq(Nat) /\ Len(b) = Len(n.inflight) + Len(n.buf)
        /\ \A i \in 1..Len(n.inflight) : b[i] = n.inflight[i]
        /\ \A i \in 1..Len(n.buf) : b[Len(n.inflight) + i] = n.buf[i]
    BY <2>d, Joined
  <2>5. w = [m EXCEPT !.buf = b]
    BY <1>1, <1>4, <2>1, <2>2, <2>3 DEF PutBack
  <2>6. /\ w \in NodeType /\ w.at = m.at /\ w.done = m.done /\ w.wrote = m.wrote
        /\ w.inflight = m.inflight /\ w.buf = b
    BY <2>2, <2>4, <2>5 DEF NodeType
  <2>7. First(w) = First(n)
    <3>1. w.wrote = x /\ Len(w.buf) = q + p /\ Len(w.inflight) = 0
      BY <1>0, <1>p, <2>2, <2>4, <2>6
    <3>2. First(w) = x + 1 - (q + p) - 0
      BY <3>1 DEF First
    <3> QED BY <1>f, <3>2
  <2>8. Held(n)
    BY <1>4
  <2>9. ASSUME NEW i \in 1..Len(b)
        PROVE  b[i] = First(n) + i - 1
    <3>1. CASE i \in 1..Len(n.inflight)
      BY <2>4, <2>8, <3>1 DEF Held, Straight
    <3>2. CASE i > Len(n.inflight)
      <4>0. i \in Int /\ i > q /\ i <= q + p
        <5>1. Len(b) = q + p
          BY <1>p, <2>4
        <5>2. i \in 1..(q + p)
          BY <5>1
        <5>3. i \in Int /\ i <= q + p
          BY <5>2
        <5>4. i > q
          BY <1>p, <3>2
        <5> QED BY <5>3, <5>4
      <4>1. PICK j \in Int : j = i - q
        BY <4>0
      <4>2. j \in 1..p /\ i = q + j
        BY <4>0, <4>1
      <4>3. b[i] = n.buf[j] /\ n.buf[j] = First(n) + Len(n.inflight) + j - 1
        BY <1>p, <2>4, <2>8, <4>2 DEF Held, Straight
      <4>4. First(n) + Len(n.inflight) + j - 1 = First(n) + i - 1
        BY <1>0, <1>p, <4>2
      <4> QED BY <4>3, <4>4
    <3>3. i \in 1..Len(n.inflight) \/ i > Len(n.inflight)
      BY <1>0
    <3> QED BY <3>1, <3>2, <3>3
  <2>10. Held(w)
    <3>1. First(w) + Len(w.inflight) = First(n)
      BY <1>0, <2>2, <2>6, <2>7
    <3>2. Straight(w.inflight, First(w))
      BY <1>0, <2>2, <2>6 DEF Straight
    <3>3. Straight(w.buf, First(n))
      BY <2>6, <2>9 DEF Straight
    <3> QED BY <2>7, <2>8, <3>1, <3>2, <3>3 DEF Held
  <2> QED BY <1>1, <1>4, <2>2, <2>6, <2>7, <2>10
<1> QED BY <1>2, <1>3, <1>4

-----------------------------------------------------------------------------
(* Requests that come, change and go, and the nodes that wait for them.    *)

\* One node changes where nobody's answer is at stake.
LEMMA NodeMoves ==
    ASSUME NEW N \in [Attempts -> NodeType], NEW R \in SUBSET RequestType, NEW a \in Attempts, NEW w \in NodeType,
           OneAwaited(N, R), Uploads(N, R), w.inflight = N[a].inflight,
           \A r \in R : r.wait /\ r.att = a => Fits(r, w), ~w.done => ~N[a].done /\ Held(w)
    PROVE  OneAwaited([N EXCEPT ![a] = w], R) /\ Uploads([N EXCEPT ![a] = w], R)
<1>1. PICK M : M = [N EXCEPT ![a] = w]
  OBVIOUS
<1>2. M[a] = w /\ \A b \in Attempts \ {a} : M[b] = N[b]
  BY <1>1
<1>3. \A r \in R : r.att \in Attempts
  BY DEF RequestType
<1>4. OneAwaited(M, R)
  BY <1>2, <1>3 DEF OneAwaited
<1>5. Uploads(M, R)
  BY <1>2 DEF Uploads
<1> QED BY <1>1, <1>4, <1>5

\* A request is answered, to its node if it waits.
Answers(N, r, w) == IF r.wait THEN [N EXCEPT ![r.att] = w] ELSE N

LEMMA Answered ==
    ASSUME NEW N \in [Attempts -> NodeType], NEW R \in SUBSET RequestType, NEW r \in R, NEW w \in NodeType,
           OneAwaited(N, R), Uploads(N, R),
           r.kind = "chunk" => w.inflight = <<>>, r.kind # "chunk" => w.inflight = N[r.att].inflight,
           r.wait /\ ~w.done => ~N[r.att].done /\ Held(w)
    PROVE  /\ Answers(N, r, w) \in [Attempts -> NodeType]
           /\ OneAwaited(Answers(N, r, w), R \ {r}) /\ Uploads(Answers(N, r, w), R \ {r})
           /\ \A a \in Attempts : Answers(N, r, w)[a] = IF r.wait /\ a = r.att THEN w ELSE N[a]
<1>1. PICK M : M = Answers(N, r, w)
  OBVIOUS
<1>2. r.att \in Attempts /\ \A q \in R : q.att \in Attempts
  BY DEF RequestType
<1>3. M \in [Attempts -> NodeType] /\ \A a \in Attempts : M[a] = IF r.wait /\ a = r.att THEN w ELSE N[a]
  BY <1>1, <1>2 DEF Answers
<1>4. \A q \in R \ {r} : q.wait => ~(r.wait /\ q.att = r.att)
  BY DEF OneAwaited
<1>5. OneAwaited(M, R \ {r})
  <2>1. \A q \in R \ {r} : q.wait => M[q.att] = N[q.att]
    BY <1>2, <1>3, <1>4
  <2> QED BY <2>1 DEF OneAwaited
<1>6. ASSUME NEW a \in Attempts, ~M[a].done
      PROVE  /\ Held(M[a]) /\ \A q \in Out(a, R \ {r}) : M[a].inflight = q.body
             /\ Out(a, R \ {r}) = {} => M[a].inflight = <<>>
  <2>1. CASE r.wait /\ a = r.att
    <3>1. M[a] = w /\ Held(w) /\ ~N[a].done
      BY <1>3, <1>6, <2>1
    <3>2. Out(a, R \ {r}) = {}
      BY <1>4, <2>1 DEF Out
    <3>3. CASE r.kind = "chunk"
      BY <3>1, <3>2, <3>3
    <3>4. CASE r.kind # "chunk"
      <4>1. Out(a, R) = {}
        BY <2>1, <3>2, <3>4 DEF Out
      <4>2. w.inflight = <<>>
        BY <2>1, <3>1, <3>4, <4>1 DEF Uploads
      <4> QED BY <3>1, <3>2, <4>2
    <3> QED BY <3>3, <3>4
  <2>2. CASE ~(r.wait /\ a = r.att)
    <3>1. Out(a, R \ {r}) = Out(a, R)
      BY <2>2 DEF Out
    <3>2. M[a] = N[a]
      BY <1>3, <2>2
    <3> QED BY <1>6, <3>1, <3>2 DEF Uploads
  <2> QED BY <2>1, <2>2
<1>7. Uploads(M, R \ {r})
  BY <1>6 DEF Uploads
<1> QED BY <1>1, <1>3, <1>5, <1>7

\* A node that waits for nothing sends a request.
LEMMA Asked ==
    ASSUME NEW N \in [Attempts -> NodeType], NEW R \in SUBSET RequestType, NEW q \in RequestType, NEW w \in NodeType,
           OneAwaited(N, R), Uploads(N, R), \A r \in R : ~(r.wait /\ r.att = q.att), q.wait, Fits(q, w),
           q.kind = "chunk" => w.inflight = q.body, q.kind # "chunk" => w.inflight = N[q.att].inflight,
           ~w.done => ~N[q.att].done /\ Held(w)
    PROVE  /\ OneAwaited([N EXCEPT ![q.att] = w], R \cup {q})
           /\ Uploads([N EXCEPT ![q.att] = w], R \cup {q})
<1>1. PICK M : M = [N EXCEPT ![q.att] = w]
  OBVIOUS
<1>2. q.att \in Attempts /\ \A r \in R : r.att \in Attempts
  BY DEF RequestType
<1>3. M[q.att] = w /\ \A b \in Attempts \ {q.att} : M[b] = N[b]
  BY <1>1, <1>2
<1>4. OneAwaited(M, R \cup {q})
  BY <1>2, <1>3 DEF OneAwaited
<1>5. ASSUME NEW a \in Attempts, ~M[a].done
      PROVE  /\ Held(M[a]) /\ \A r \in Out(a, R \cup {q}) : M[a].inflight = r.body
             /\ Out(a, R \cup {q}) = {} => M[a].inflight = <<>>
  <2>1. CASE a = q.att /\ q.kind = "chunk"
    <3>1. Out(a, R \cup {q}) = {q}
      BY <2>1 DEF Out
    <3> QED BY <1>3, <1>5, <2>1, <3>1
  <2>2. CASE a = q.att /\ q.kind # "chunk"
    <3>1. Out(a, R \cup {q}) = {} /\ Out(a, R) = {}
      BY <2>2 DEF Out
    <3> QED BY <1>3, <1>5, <2>2, <3>1 DEF Uploads
  <2>3. CASE a # q.att
    <3>1. Out(a, R \cup {q}) = Out(a, R) /\ M[a] = N[a]
      BY <1>3, <2>3 DEF Out
    <3> QED BY <1>5, <3>1 DEF Uploads
  <2> QED BY <2>1, <2>2, <2>3
<1>6. Uploads(M, R \cup {q})
  BY <1>5 DEF Uploads
<1> QED BY <1>1, <1>4, <1>6

\* A request goes on, with the same chunk and the same node.
LEMMA RequestGoesOn ==
    ASSUME NEW N \in [Attempts -> NodeType], NEW R \in SUBSET RequestType, NEW r \in R, NEW q \in RequestType,
           OneAwaited(N, R), Uploads(N, R),
           q.kind = r.kind, q.att = r.att, q.body = r.body, q.wait = r.wait
    PROVE  OneAwaited(N, (R \ {r}) \cup {q}) /\ Uploads(N, (R \ {r}) \cup {q})
<1>1. OneAwaited(N, (R \ {r}) \cup {q})
  BY DEF OneAwaited, Fits
<1>2. ASSUME NEW a \in Attempts, ~N[a].done
      PROVE  /\ Held(N[a]) /\ \A p \in Out(a, (R \ {r}) \cup {q}) : N[a].inflight = p.body
             /\ Out(a, (R \ {r}) \cup {q}) = {} => N[a].inflight = <<>>
  <2>1. Held(N[a]) /\ (\A p \in Out(a, R) : N[a].inflight = p.body) /\ (Out(a, R) = {} => N[a].inflight = <<>>)
    BY <1>2 DEF Uploads
  <2>2. q \in Out(a, (R \ {r}) \cup {q}) <=> r \in Out(a, R)
    BY DEF Out
  <2>3. \A p \in R \ {r} : p \in Out(a, (R \ {r}) \cup {q}) <=> p \in Out(a, R)
    BY DEF Out
  <2>4. Out(a, (R \ {r}) \cup {q}) \subseteq (R \ {r}) \cup {q} /\ Out(a, R) \subseteq R
    BY DEF Out
  <2> QED BY <2>1, <2>2, <2>3, <2>4
<1> QED BY <1>1, <1>2 DEF Uploads

\* A request whose answer nobody waits for.
LEMMA NotAwaited ==
    ASSUME NEW N \in [Attempts -> NodeType], NEW R \in SUBSET RequestType, NEW q \in RequestType,
           OneAwaited(N, R), Uploads(N, R), ~q.wait
    PROVE  OneAwaited(N, R \cup {q}) /\ Uploads(N, R \cup {q})
<1>1. OneAwaited(N, R \cup {q})
  BY DEF OneAwaited
<1>2. \A a \in Attempts : Out(a, R \cup {q}) = Out(a, R)
  BY DEF Out
<1> QED BY <1>1, <1>2 DEF Uploads

\* Files that reach as far as before, chunks that were there or have all before them, nodes
\* that hold what they held or whose next byte has all before it.
LEMMA FlowsOn ==
    ASSUME NEW F, NEW G, NEW N \in [Attempts -> NodeType], NEW M, NEW R \in SUBSET RequestType,
           NEW Q, Q \subseteq RequestType,
           Flows(F, N, R), Pieces(R), \A a \in Attempts : Smooth(G[a].bytes),
           \A a \in Attempts : \A k \in Int : Ahead(a, F, k) => Ahead(a, G, k),
           \A q \in Q : q.kind = "chunk" =>
               \/ \E r \in R : r.kind = "chunk" /\ r.att = q.att /\ r.body = q.body
               \/ Ahead(q.att, G, q.body[1]),
           \A a \in Attempts : ~M[a].done =>
               (~N[a].done /\ First(M[a]) = First(N[a])) \/ Ahead(a, G, First(M[a]))
    PROVE  Flows(G, M, Q)
<1>1. ASSUME NEW q \in Q, q.kind = "chunk"
      PROVE  Ahead(q.att, G, q.body[1])
  <2>1. CASE \E r \in R : r.kind = "chunk" /\ r.att = q.att /\ r.body = q.body
    <3>1. PICK r \in R : r.kind = "chunk" /\ r.att = q.att /\ r.body = q.body
      BY <2>1
    <3>2. r.att \in Attempts /\ r.body[1] \in Int
      BY <3>1 DEF Pieces, RequestType
    <3>3. Ahead(r.att, F, r.body[1])
      BY <3>1 DEF Flows
    <3> QED BY <3>1, <3>2, <3>3
  <2> QED BY <1>1, <2>1
<1>2. ASSUME NEW a \in Attempts, ~M[a].done
      PROVE  Ahead(a, G, First(M[a]))
  <2>1. CASE ~N[a].done /\ First(M[a]) = First(N[a])
    <3>1. First(N[a]) \in Int /\ Ahead(a, F, First(N[a]))
      BY <2>1, NodeFields DEF Flows
    <3> QED BY <2>1, <3>1
  <2> QED BY <1>2, <2>1
<1> QED BY <1>1, <1>2 DEF Flows

-----------------------------------------------------------------------------
(* Each action keeps the invariant.                                        *)

LEMMA RecordStarts == RecordInit => RecordInv
<1> SUFFICES ASSUME RecordInit PROVE RecordInv
  OBVIOUS
<1>1. PICK n : n = [at |-> "idle", wrote |-> 0, buf |-> <<>>, inflight |-> <<>>, done |-> FALSE]
  OBVIOUS
<1>2. n \in NodeType /\ n.at = "idle" /\ n.wrote = 0 /\ n.buf = <<>> /\ n.inflight = <<>>
  BY <1>1 DEF NodeType, Places
<1>3. First(n) = 1 /\ Held(n)
  BY <1>2 DEF First, Held, Straight
<1>4. NoFile \in FileType /\ ~NoFile.on /\ NoFile.bytes = <<>>
  BY DEF NoFile, FileType
<1>5. /\ node = [a \in Attempts |-> n] /\ file = [a \in Attempts |-> NoFile] /\ reqs = {} /\ recorded = "none"
      /\ seal = "none" /\ attempt = 0
  BY <1>1 DEF RecordInit
<1>6. RecordTyped
  <2>1. 0 \in Attempts
    BY RecordAssumption DEF Attempts
  <2> QED BY <1>2, <1>4, <1>5, <2>1 DEF RecordInit, RecordTyped, HarmType, SweepType
<1>7. NothingBefore
  BY <1>2, <1>4, <1>5 DEF NothingBefore
<1>8. Files(file, reqs) /\ OneAwaited(node, reqs) /\ Pieces(reqs)
  BY <1>4, <1>5 DEF Files, OneAwaited, Pieces
<1>9. Uploads(node, reqs)
  BY <1>2, <1>3, <1>5 DEF Uploads, Out
<1>10. Flows(file, node, reqs)
  <2>1. Smooth(<<>>) /\ Reaches(<<>>, 1)
    BY DEF Smooth, Reaches
  <2> QED BY <1>3, <1>4, <1>5, <2>1 DEF Flows, Ahead
<1> QED BY <1>6, <1>7, <1>8, <1>9, <1>10 DEF RecordInv

LEMMA QuietStep ==
    ASSUME RecordInv, UNCHANGED <<node, reqs, file>>, RecordTyped', NothingBefore', Unharmed' => Unharmed
    PROVE  RecordInv'
BY DEF RecordInv

LEMMA SubmitKeeps ==
    ASSUME RecordInv, Submit
    PROVE  RecordInv'
<1>1. UNCHANGED <<attempt, node, reqs, file, sweep, seal, harmed>> /\ recorded = "none" /\ recorded' = "running"
  BY DEF Submit, tree
<1>2. RecordTyped'
  BY <1>1 DEF RecordInv, RecordTyped
<1>3. NothingBefore'
  BY <1>1 DEF RecordInv, NothingBefore
<1>4. Unharmed' => Unharmed
  BY <1>1 DEF Unharmed
<1> QED BY <1>1, <1>2, <1>3, <1>4, QuietStep

LEMMA CancelKeeps ==
    ASSUME RecordInv, Cancel
    PROVE  RecordInv'
<1>1. UNCHANGED <<attempt, node, reqs, file, sweep, harmed>> /\ recorded' = "cancelled"
  BY DEF Cancel, tree
<1>2. RecordTyped'
  BY <1>1 DEF RecordInv, RecordTyped
<1>3. NothingBefore' /\ ~Unharmed'
  BY <1>1 DEF NothingBefore, Unharmed
<1> QED BY <1>1, <1>2, <1>3, QuietStep

LEMMA TakenOverKeeps ==
    ASSUME RecordInv, TakenOver
    PROVE  RecordInv'
<1>1. /\ UNCHANGED <<recorded, node, reqs, file, sweep, seal>> /\ Live /\ attempt < MaxAttempt
      /\ attempt' = attempt + 1 /\ harmed' = [harmed EXCEPT !.astray = @ \cup {attempt}]
  BY DEF TakenOver, tree
<1>2. attempt \in Attempts /\ attempt' \in Attempts
  <2>1. attempt \in Attempts /\ MaxAttempt \in Nat
    BY RecordAssumption DEF RecordInv, RecordTyped
  <2> QED BY <1>1, <2>1 DEF Attempts
<1>3. harmed' \in HarmType /\ harmed'.swept = harmed.swept
  BY <1>1, <1>2 DEF RecordInv, RecordTyped, HarmType
<1>4. RecordTyped'
  BY <1>1, <1>2, <1>3 DEF RecordInv, RecordTyped
<1>5. NothingBefore' /\ (Unharmed' => Unharmed)
  BY <1>1, <1>3 DEF RecordInv, NothingBefore, Unharmed, Live
<1> QED BY <1>1, <1>4, <1>5, QuietStep

LEMMA SealKeeps ==
    ASSUME RecordInv, SealWrite \/ SealFiles \/ SealDirs
    PROVE  RecordInv'
<1>1. /\ UNCHANGED <<recorded, attempt, node, reqs, file, sweep, harmed>>
      /\ seal # "none"
  BY DEF SealWrite, SealFiles, SealDirs, tree, db
<1>2. RecordTyped'
  BY <1>1 DEF RecordInv, RecordTyped
<1>3. NothingBefore' /\ (Unharmed' => Unharmed)
  BY <1>1 DEF RecordInv, NothingBefore, Unharmed
<1> QED BY <1>1, <1>2, <1>3, QuietStep

LEMMA SweepLooksKeeps ==
    ASSUME RecordInv, SweepList \/ SweepLook
    PROVE  RecordInv'
<1>1. UNCHANGED <<recorded, attempt, node, reqs, file, seal, harmed>>
  BY DEF SweepList, SweepLook, tree, db
<1>2. sweep \in SweepType /\ NoSweep \in SweepType /\ NoSweep.pc = "idle"
  BY DEF RecordInv, RecordTyped, NoSweep, SweepType
<1>3. sweep' \in SweepType /\ (sweep'.pc = "remove" => sweep'.doomed \in Attempts)
  <2>1. CASE SweepList
    <3>1. sweep' = [NoSweep EXCEPT !.pc = "listed", !.live = Listed] /\ Listed \in BOOLEAN
      BY <2>1 DEF SweepList, Listed, Live
    <3> QED BY <1>2, <3>1 DEF SweepType
  <2>2. CASE SweepLook
    <3>1. CASE sweep' = NoSweep
      BY <1>2, <3>1
    <3>2. CASE sweep' = [sweep EXCEPT !.pc = "drop"]
      BY <1>2, <3>2 DEF SweepType
    <3>3. CASE /\ \E a \in Attempts : file[a].old
               /\ sweep' = [sweep EXCEPT !.pc = "remove", !.doomed = CHOOSE a \in Attempts : file[a].old]
      <4>1. PICK d : d = CHOOSE a \in Attempts : file[a].old
        OBVIOUS
      <4>2. d \in Attempts
        BY <3>3, <4>1
      <4>3. sweep' = [sweep EXCEPT !.pc = "remove", !.doomed = d]
        BY <3>3, <4>1
      <4> QED BY <1>2, <4>2, <4>3 DEF SweepType
    <3> QED BY <2>2, <3>1, <3>2, <3>3 DEF SweepLook
  <2> QED BY <2>1, <2>2
<1>4. RecordTyped'
  BY <1>1, <1>3 DEF RecordInv, RecordTyped
<1>5. NothingBefore' /\ (Unharmed' => Unharmed)
  BY <1>1 DEF RecordInv, NothingBefore, Unharmed
<1> QED BY <1>1, <1>4, <1>5, QuietStep

\* A step that changes one node only, and nobody's answer is at stake.
LEMMA NodeStep ==
    ASSUME RecordInv, NEW a \in Attempts, NEW w \in NodeType, node' = [node EXCEPT ![a] = w],
           UNCHANGED <<reqs, file, sweep, harmed>>, w.inflight = node[a].inflight, recorded # "none",
           \A r \in reqs : r.wait /\ r.att = a => Fits(r, w),
           ~w.done => ~node[a].done /\ Held(w) /\ First(w) = First(node[a]),
           attempt' \in Attempts,
           UNCHANGED <<recorded, seal>> \/ recorded' = "reported"
    PROVE  RecordInv'
<1>1. RecordTyped'
  BY DEF RecordInv, RecordTyped
<1>2. NothingBefore' /\ (Unharmed' => Unharmed)
  BY DEF RecordInv, NothingBefore, Unharmed
<1>3. OneAwaited(node', reqs') /\ Uploads(node', reqs')
  <2>1. node \in [Attempts -> NodeType] /\ reqs \in SUBSET RequestType /\ OneAwaited(node, reqs) /\ Uploads(node, reqs)
    BY DEF RecordInv, RecordTyped
  <2> QED BY <2>1, NodeMoves
<1>4. Files(file', reqs') /\ Pieces(reqs')
  BY DEF RecordInv
<1>5. Flows(file, node, reqs) => Flows(file', node', reqs')
  <2>1. node \in [Attempts -> NodeType]
    BY DEF RecordInv, RecordTyped
  <2>2. \A b \in Attempts : ~node'[b].done => ~node[b].done /\ First(node'[b]) = First(node[b])
    BY <2>1
  <2> QED BY <2>2 DEF Flows
<1> QED BY <1>1, <1>2, <1>3, <1>4, <1>5 DEF RecordInv

LEMMA NodeKnown ==
    ASSUME RecordInv, NEW a \in Attempts
    PROVE  /\ node[a] \in NodeType /\ (node[a].done \/ Held(node[a]))
           /\ node[a].at # "idle" => recorded # "none"
           /\ \A r \in reqs : r.att \in Attempts /\ (r.wait /\ r.att = a => Fits(r, node[a]))
BY DEF RecordInv, RecordTyped, NothingBefore, Uploads, OneAwaited, RequestType

LEMMA WriteKeeps ==
    ASSUME RecordInv, NEW a \in Attempts, Write(a)
    PROVE  RecordInv'
<1>1. /\ node' = [node EXCEPT ![a] = Written(node[a])] /\ node[a].at = "on"
      /\ UNCHANGED <<recorded, attempt, reqs, file, sweep, seal, harmed>>
  BY DEF Write, db, tree
<1>2. /\ Written(node[a]) \in NodeType /\ Written(node[a]).at = node[a].at
      /\ Written(node[a]).inflight = node[a].inflight
      /\ ~Written(node[a]).done =>
            ~node[a].done /\ Held(Written(node[a])) /\ First(Written(node[a])) = First(node[a])
  BY NodeKnown, WrittenHolds
<1>3. /\ recorded # "none" /\ attempt' \in Attempts
      /\ \A r \in reqs : r.wait /\ r.att = a => Fits(r, Written(node[a]))
  BY <1>1, <1>2, NodeKnown DEF Fits, RecordInv, RecordTyped
<1> QED BY <1>1, <1>2, <1>3, NodeStep

\* A node goes elsewhere while it waits for nothing that does not fit there.
LEMMA PlaceStep ==
    ASSUME RecordInv, NEW a \in Attempts, NEW p \in Places, node' = [node EXCEPT ![a] = At(node[a], p)],
           UNCHANGED <<reqs, file, sweep, harmed>>, recorded # "none",
           \A r \in reqs : r.wait /\ r.att = a => r.kind = "chunk" /\ p = "closing",
           attempt' \in Attempts,
           UNCHANGED <<recorded, seal>> \/ recorded' = "reported"
    PROVE  RecordInv'
<1>1. node[a] \in NodeType /\ (node[a].done \/ Held(node[a]))
  BY NodeKnown
<1>2. PICK w \in NodeType :
        /\ w = At(node[a], p) /\ w.at = p /\ w.inflight = node[a].inflight
        /\ w.done = node[a].done /\ First(w) = First(node[a]) /\ (Held(w) <=> Held(node[a]))
  BY <1>1, AtElsewhere
<1>3. \A r \in reqs : r.wait /\ r.att = a => Fits(r, w)
  BY <1>2 DEF Fits
<1>4. ~w.done => ~node[a].done /\ Held(w) /\ First(w) = First(node[a])
  BY <1>1, <1>2
<1> QED BY <1>2, <1>3, <1>4, NodeStep

LEMMA BeginKeeps ==
    ASSUME RecordInv, NEW a \in Attempts, Begin(a)
    PROVE  RecordInv'
<1>1. /\ node' = [node EXCEPT ![a] = At(node[a], "on")] /\ node[a].at = "idle" /\ recorded = "running"
      /\ UNCHANGED <<recorded, attempt, reqs, file, sweep, seal, harmed>>
  BY DEF Begin, db, tree, At, Live
<1>2. \A r \in reqs : ~(r.wait /\ r.att = a)
  <2>1. \A r \in reqs : r.kind \in {"chunk", "log", "blob"}
    BY DEF RecordInv, RecordTyped, RequestType
  <2> QED BY <1>1, <2>1, NodeKnown DEF Fits
<1>3. attempt' \in Attempts /\ "on" \in Places
  BY <1>1 DEF RecordInv, RecordTyped, Places
<1> QED BY <1>1, <1>2, <1>3, PlaceStep

LEMMA CloseKeeps ==
    ASSUME RecordInv, NEW a \in Attempts, Close(a)
    PROVE  RecordInv'
<1>1. /\ node' = [node EXCEPT ![a] = At(node[a], "closing")] /\ node[a].at = "on"
      /\ UNCHANGED <<recorded, attempt, reqs, file, sweep, seal, harmed>>
  BY DEF Close, db, tree, At
<1>2. \A r \in reqs : r.wait /\ r.att = a => r.kind = "chunk"
  <2>1. \A r \in reqs : r.kind \in {"chunk", "log", "blob"}
    BY DEF RecordInv, RecordTyped, RequestType
  <2> QED BY <1>1, <2>1, NodeKnown DEF Fits
<1>3. attempt' \in Attempts /\ "closing" \in Places /\ recorded # "none"
  BY <1>1, NodeKnown DEF RecordInv, RecordTyped, Places
<1> QED BY <1>1, <1>2, <1>3, PlaceStep

LEMMA PostResultKeeps ==
    ASSUME RecordInv, NEW a \in Attempts, PostResult(a)
    PROVE  RecordInv'
<1>1. /\ node' = [node EXCEPT ![a] = At(node[a], "over")] /\ node[a].at \in {"blob", "report"}
      /\ UNCHANGED <<reqs, file, sweep, harmed>>
  BY DEF PostResult, tree, At
<1>2. \A r \in reqs : ~(r.wait /\ r.att = a)
  <2>1. \A r \in reqs : r.kind \in {"chunk", "log", "blob"}
    BY DEF RecordInv, RecordTyped, RequestType
  <2> QED BY <1>1, <2>1, NodeKnown DEF Fits
<1>3. "over" \in Places /\ recorded # "none"
  BY <1>1, NodeKnown DEF Places
<1>4. attempt' \in Attempts
  <2>1. attempt \in Attempts /\ MaxAttempt \in Nat
    BY RecordAssumption DEF RecordInv, RecordTyped
  <2>2. a < MaxAttempt => a + 1 \in Attempts
    BY <2>1 DEF Attempts
  <2> QED BY <2>1, <2>2 DEF PostResult, db
<1>5. UNCHANGED <<recorded, seal>> \/ recorded' = "reported"
  BY DEF PostResult, db
<1> QED BY <1>1, <1>2, <1>3, <1>4, <1>5, PlaceStep

\* What is said of a request that is new.
LEMMA RequestTyped ==
    ASSUME NEW a \in Attempts, NEW kind \in {"chunk", "log", "blob"}, NEW body \in Seq(Nat)
    PROVE  /\ Request(a, kind, body) \in RequestType
           /\ Request(a, kind, body).kind = kind /\ Request(a, kind, body).att = a
           /\ Request(a, kind, body).body = body /\ Request(a, kind, body).wait
           /\ Request(a, kind, body).pc = "checked"
BY DEF Request, RequestType

\* A new request leaves the files as they are.
LEMMA AskStep ==
    ASSUME RecordInv, NEW a \in Attempts, NEW q \in RequestType, NEW w \in NodeType,
           node' = [node EXCEPT ![a] = w], reqs' = reqs \cup {q},
           UNCHANGED <<recorded, attempt, file, sweep, seal, harmed>>, recorded # "none",
           q.att = a, q.wait, q.pc = "checked", Fits(q, w), \A r \in reqs : ~(r.wait /\ r.att = a),
           q.kind = "chunk" =>
               /\ w.inflight = q.body /\ ~node[a].done
               /\ Len(q.body) > 0 /\ q.body[1] = First(node[a]) /\ Straight(q.body, First(node[a])),
           q.kind # "chunk" => w.inflight = node[a].inflight,
           ~w.done => ~node[a].done /\ Held(w) /\ First(w) = First(node[a])
    PROVE  RecordInv'
<1>0. node \in [Attempts -> NodeType] /\ reqs \in SUBSET RequestType
  BY DEF RecordInv, RecordTyped
<1>1. RecordTyped' /\ NothingBefore' /\ (Unharmed' => Unharmed)
  BY DEF RecordInv, RecordTyped, NothingBefore, Unharmed
<1>2. OneAwaited(node', reqs') /\ Uploads(node', reqs')
  BY <1>0, Asked DEF RecordInv
<1>3. Files(file', reqs')
  BY DEF RecordInv, Files
<1>4. First(node[a]) \in Nat \ {0} \/ node[a].done
  BY NodeKnown DEF Held
<1>5. Pieces(reqs')
  BY <1>4 DEF RecordInv, Pieces
<1>6. ASSUME Flows(file, node, reqs)
      PROVE  Flows(file', node', reqs')
  <2>1. \A b \in Attempts : ~node'[b].done => ~node[b].done /\ First(node'[b]) = First(node[b])
    BY <1>0
  <2>2. q.kind = "chunk" => Ahead(a, file, q.body[1])
    BY <1>6 DEF Flows
  <2> QED BY <1>6, <2>1, <2>2 DEF Flows
<1> QED BY <1>1, <1>2, <1>3, <1>5, <1>6 DEF RecordInv

LEMMA FlushKeeps ==
    ASSUME RecordInv, NEW a \in Attempts, Flush(a)
    PROVE  RecordInv'
<1>1. /\ node[a].at \in {"on", "closing"} /\ Awaited(a) = {} /\ ~node[a].done /\ node[a].buf # <<>>
      /\ UNCHANGED <<recorded, attempt, file, sweep, seal, harmed>>
  BY DEF Flush, db, tree, CanTake
<1>2. PICK p : p = IF node[a].at = "closing" THEN "last" ELSE "on"
  OBVIOUS
<1>3. p \in {"on", "last"} /\ p \in Places /\ After(p) \in Places
  BY <1>2 DEF Places, After
<1>4. recorded # "none" /\ attempt' \in Attempts /\ \A r \in reqs : ~(r.wait /\ r.att = a)
  BY <1>1, NodeKnown DEF RecordInv, RecordTyped, Awaited
<1>5. CASE ~Live
  <2>1. node' = [node EXCEPT ![a] = At(node[a], After(p))] /\ reqs' = reqs
    BY <1>2, <1>5 DEF Flush, At
  <2> QED BY <1>1, <1>3, <1>4, <2>1, PlaceStep
<1>6. CASE Live
  <2>1. /\ node' = [node EXCEPT ![a].inflight = node[a].buf, ![a].buf = <<>>, ![a].at = p]
        /\ reqs' = reqs \cup {Request(a, "chunk", node[a].buf)}
    BY <1>2, <1>6 DEF Flush
  <2>0. node \in [Attempts -> NodeType] /\ node[a] \in NodeType
    BY DEF RecordInv, RecordTyped
  <2>2. PICK w : w = [[[node[a] EXCEPT !.inflight = node[a].buf] EXCEPT !.buf = <<>>] EXCEPT !.at = p]
    OBVIOUS
  <2>3. /\ w \in NodeType /\ w.inflight = node[a].buf /\ w.buf = <<>> /\ w.at = p
        /\ w.done = node[a].done /\ w.wrote = node[a].wrote
    <3>1. PICK b \in Seq(Nat) : b = node[a].buf
      BY <2>0, NodeFields
    <3>2. <<>> \in Seq(Nat)
      OBVIOUS
    <3>3. PICK u : u = [node[a] EXCEPT !.inflight = b]
      OBVIOUS
    <3>4. u \in NodeType /\ u.inflight = b /\ u.done = node[a].done /\ u.wrote = node[a].wrote
      BY <2>0, <3>1, <3>3 DEF NodeType
    <3>5. PICK v : v = [u EXCEPT !.buf = <<>>]
      OBVIOUS
    <3>6. v \in NodeType /\ v.inflight = b /\ v.buf = <<>> /\ v.done = u.done /\ v.wrote = u.wrote
      BY <3>2, <3>4, <3>5 DEF NodeType
    <3>7. w = [v EXCEPT !.at = p]
      BY <2>2, <3>1, <3>3, <3>5
    <3>8. w \in NodeType /\ w.inflight = b /\ w.buf = <<>> /\ w.at = p /\ w.done = v.done /\ w.wrote = v.wrote
      BY <1>3, <3>6, <3>7 DEF NodeType
    <3> QED BY <3>1, <3>4, <3>6, <3>8
  <2>4. node' = [node EXCEPT ![a] = w]
    BY <2>0, <2>1, <2>2
  <2>5. PICK q : q = Request(a, "chunk", node[a].buf)
    OBVIOUS
  <2>6. /\ q \in RequestType /\ q.kind = "chunk" /\ q.att = a /\ q.body = node[a].buf /\ q.wait /\ q.pc = "checked"
    BY <2>0, <2>5, NodeFields, RequestTyped
  <2>7. Held(node[a]) /\ node[a].inflight = <<>>
    <3>1. Out(a, reqs) = {}
      BY <1>4 DEF Out
    <3> QED BY <1>1, <3>1 DEF RecordInv, Uploads
  <2>8. /\ Len(q.body) > 0 /\ q.body[1] = First(node[a]) /\ Straight(q.body, First(node[a]))
    <3>1. node[a].buf \in Seq(Nat) /\ Len(node[a].buf) > 0 /\ First(node[a]) \in Int
      BY <1>1, <2>0, NodeFields
    <3>2. Straight(node[a].buf, First(node[a]) + Len(<<>>)) /\ Len(<<>>) = 0
      BY <2>7 DEF Held
    <3>3. Straight(node[a].buf, First(node[a]))
      BY <3>1, <3>2
    <3>4. node[a].buf[1] = First(node[a])
      BY <3>1, <3>3 DEF Straight
    <3> QED BY <2>6, <3>1, <3>3, <3>4
  <2>9. First(w) = First(node[a])
    <3>1. PICK x \in Int, y \in Int : x = node[a].wrote /\ y = Len(node[a].buf)
      BY <2>0, NodeFields
    <3>2. First(node[a]) = x + 1 - y - 0 /\ First(w) = x + 1 - 0 - y
      BY <2>3, <2>7, <3>1 DEF First
    <3> QED BY <3>1, <3>2
  <2>10. Held(w)
    <3>1. Straight(w.inflight, First(w)) /\ First(w) \in Nat \ {0}
      BY <2>3, <2>6, <2>7, <2>8, <2>9 DEF Held
    <3>2. Straight(w.buf, First(w) + Len(w.inflight))
      BY <2>3 DEF Straight
    <3> QED BY <3>1, <3>2 DEF Held
  <2>11. Fits(q, w)
    BY <1>3, <2>3, <2>6 DEF Fits
  <2>12. reqs' = reqs \cup {q}
    BY <2>1, <2>5
  <2> QED BY <1>1, <1>4, <2>3, <2>4, <2>6, <2>8, <2>9, <2>10, <2>11, <2>12, AskStep
<1> QED BY <1>5, <1>6

LEMMA UploadKeeps ==
    ASSUME RecordInv, NEW a \in Attempts, Upload(a)
    PROVE  RecordInv'
<1>1. PICK kind \in {"log", "blob"}, p \in {"logging", "blobbing"} :
        /\ PutFile(a, kind, p)
        /\ (kind = "log" /\ p = "logging") \/ (kind = "blob" /\ p = "blobbing")
        /\ (Closed(node[a]) /\ Awaited(a) = {}) \/ node[a].at = "blob"
  <2>1. CASE Closed(node[a]) /\ Awaited(a) = {} /\ PutFile(a, "log", "logging")
    BY <2>1
  <2>2. CASE node[a].at = "blob" /\ PutFile(a, "blob", "blobbing")
    BY <2>2
  <2> QED BY <2>1, <2>2 DEF Upload
<1>2. UNCHANGED <<recorded, attempt, file, sweep, seal, harmed>>
  BY DEF Upload, db, tree
<1>3. \A r \in reqs : ~(r.wait /\ r.att = a)
  <2>1. \A r \in reqs : r.kind \in {"chunk", "log", "blob"}
    BY DEF RecordInv, RecordTyped, RequestType
  <2> QED BY <1>1, <2>1, NodeKnown DEF Fits, Awaited
<1>4. node[a].at # "idle" /\ recorded # "none"
  BY <1>1, NodeKnown DEF Closed
<1>5. p \in Places /\ After(p) \in Places /\ attempt' \in Attempts
  BY <1>2 DEF Places, After, RecordInv, RecordTyped
<1>6. CASE ~Live
  <2>1. node' = [node EXCEPT ![a] = At(node[a], After(p))] /\ reqs' = reqs
    BY <1>1, <1>6 DEF PutFile, At
  <2> QED BY <1>2, <1>3, <1>4, <1>5, <2>1, PlaceStep
<1>7. CASE Live
  <2>1. PICK q : q = Request(a, kind, <<>>)
    OBVIOUS
  <2>2. node' = [node EXCEPT ![a] = At(node[a], p)] /\ reqs' = reqs \cup {q}
    BY <1>1, <1>7, <2>1 DEF PutFile, At
  <2>3. q \in RequestType /\ q.kind = kind /\ q.att = a /\ q.wait /\ q.pc = "checked"
    <3>0. <<>> \in Seq(Nat)
      OBVIOUS
    <3>1. PICK e : e \in Seq(Nat) /\ e = <<>>
      BY <3>0
    <3>2. q = Request(a, kind, e) /\ kind \in {"chunk", "log", "blob"}
      BY <2>1, <3>1
    <3> QED BY <3>1, <3>2 DEF Request, RequestType
  <2>4. node[a] \in NodeType /\ (node[a].done \/ Held(node[a]))
    BY NodeKnown
  <2>5. PICK w \in NodeType :
        /\ w = At(node[a], p) /\ w.at = p /\ w.inflight = node[a].inflight
        /\ w.done = node[a].done /\ First(w) = First(node[a]) /\ (Held(w) <=> Held(node[a]))
    BY <1>5, <2>4, AtElsewhere
  <2>6. Fits(q, w)
    BY <1>1, <2>3, <2>5 DEF Fits
  <2>7. q.kind # "chunk"
    BY <2>3
  <2> QED BY <1>2, <1>3, <1>4, <2>2, <2>3, <2>4, <2>5, <2>6, <2>7, AskStep
<1> QED BY <1>6, <1>7

LEMMA RequestKnown ==
    ASSUME RecordInv, NEW r \in reqs
    PROVE  /\ r \in RequestType /\ r.att \in Attempts /\ recorded # "none"
           /\ node[r.att] \in NodeType /\ (node[r.att].done \/ Held(node[r.att]))
           /\ r.kind = "chunk" => /\ r.body \in Seq(Nat) /\ Len(r.body) > 0 /\ r.body[1] \in Nat \ {0}
                                  /\ Straight(r.body, r.body[1])
BY DEF RecordInv, RecordTyped, NothingBefore, RequestType, Uploads, Pieces

\* An answer to a request that is not a chunk's.
LEMMA PlainAnswer ==
    ASSUME RecordInv, NEW r \in reqs, r.kind # "chunk", Told(r, node[r.att]),
           UNCHANGED <<recorded, attempt, file, sweep, seal, harmed>>
    PROVE  RecordInv'
<1>0. node \in [Attempts -> NodeType] /\ reqs \in SUBSET RequestType /\ r.att \in Attempts /\ node[r.att] \in NodeType
  BY RequestKnown DEF RecordInv, RecordTyped
<1>1. After(node[r.att].at) \in Places
  BY <1>0, NodeFields, AfterIsPlace
<1>2. PICK w \in NodeType :
        /\ w = At(node[r.att], After(node[r.att].at)) /\ w.inflight = node[r.att].inflight
        /\ w.done = node[r.att].done /\ First(w) = First(node[r.att]) /\ (Held(w) <=> Held(node[r.att]))
  BY <1>0, <1>1, AtElsewhere
<1>3. reqs' = reqs \ {r} /\ node' = Answers(node, r, w)
  BY <1>2 DEF Told, Answers, At
<1>4. ~w.done => ~node[r.att].done /\ Held(w)
  BY <1>2, RequestKnown
<1>5. /\ node' \in [Attempts -> NodeType] /\ OneAwaited(node', reqs') /\ Uploads(node', reqs')
      /\ \A a \in Attempts : node'[a] = IF r.wait /\ a = r.att THEN w ELSE node[a]
  <2>1. OneAwaited(node, reqs) /\ Uploads(node, reqs)
    BY DEF RecordInv
  <2>2. (r.kind = "chunk" => w.inflight = <<>>) /\ (r.kind # "chunk" => w.inflight = node[r.att].inflight)
    BY <1>2
  <2>3. r.wait /\ ~w.done => ~node[r.att].done /\ Held(w)
    BY <1>4
  <2> QED BY <1>0, <1>3, <2>1, <2>2, <2>3, Answered
<1>6. RecordTyped' /\ NothingBefore' /\ (Unharmed' => Unharmed)
  BY <1>3, <1>5, RequestKnown DEF RecordInv, RecordTyped, NothingBefore, Unharmed
<1>7. Files(file', reqs') /\ Pieces(reqs')
  BY <1>3 DEF RecordInv, Files, Pieces
<1>8. \A a \in Attempts : ~node'[a].done => ~node[a].done /\ First(node'[a]) = First(node[a])
  BY <1>2, <1>5
<1>9. Flows(file, node, reqs) => Flows(file', node', reqs')
  BY <1>3, <1>8 DEF Flows
<1> QED BY <1>5, <1>6, <1>7, <1>9 DEF RecordInv

\* A request goes on; the files reach as far as before.
LEMMA EntersStep ==
    ASSUME RecordInv, NEW r \in reqs, NEW q \in RequestType,
           q.kind = r.kind, q.att = r.att, q.body = r.body, q.wait = r.wait, reqs' = (reqs \ {r}) \cup {q},
           UNCHANGED <<recorded, attempt, node, sweep, seal, harmed>>,
           file' \in [Attempts -> FileType], Files(file', reqs'),
           Flows(file, node, reqs) =>
               /\ \A a \in Attempts : Smooth(file'[a].bytes)
               /\ \A a \in Attempts : \A k \in Int : Ahead(a, file, k) => Ahead(a, file', k)
    PROVE  RecordInv'
<1>0. node \in [Attempts -> NodeType] /\ reqs \in SUBSET RequestType /\ reqs' \subseteq RequestType
  BY DEF RecordInv, RecordTyped
<1>1. RecordTyped' /\ NothingBefore' /\ (Unharmed' => Unharmed)
  BY <1>0, RequestKnown DEF RecordInv, RecordTyped, NothingBefore, Unharmed
<1>2. OneAwaited(node', reqs') /\ Uploads(node', reqs')
  BY <1>0, RequestGoesOn DEF RecordInv
<1>3. Pieces(reqs')
  BY DEF RecordInv, Pieces
<1>4. ASSUME Flows(file, node, reqs)
      PROVE  Flows(file', node', reqs')
  <2>1. \A p \in reqs' : p.kind = "chunk" => \E s \in reqs : s.kind = "chunk" /\ s.att = p.att /\ s.body = p.body
    OBVIOUS
  <2>2. Pieces(reqs)
    BY DEF RecordInv
  <2>3. Flows(file', node, reqs')
    BY <1>0, <1>4, <2>1, <2>2, FlowsOn
  <2> QED BY <2>3
<1> QED BY <1>1, <1>2, <1>3, <1>4 DEF RecordInv

\* A request that is not a chunk's goes on.
LEMMA PlainEnters ==
    ASSUME RecordInv, NEW r \in reqs, r.kind # "chunk", NEW s, s = r \/ s = [r EXCEPT !.as = attempt], Enters(r, s),
           UNCHANGED <<recorded, attempt, file, sweep, seal, harmed>>
    PROVE  RecordInv'
<1>0. r \in RequestType /\ attempt \in Attempts /\ file \in [Attempts -> FileType]
  BY RequestKnown DEF RecordInv, RecordTyped
<1>1. s \in RequestType /\ s.kind = r.kind /\ s.att = r.att /\ s.body = r.body /\ s.wait = r.wait
  BY <1>0 DEF RequestType
<1>2. PICK q : q = [s EXCEPT !.pc = "in"]
  OBVIOUS
<1>3. q \in RequestType /\ q.kind = r.kind /\ q.att = r.att /\ q.body = r.body /\ q.wait = r.wait
  BY <1>1, <1>2 DEF RequestType
<1>4. reqs' = (reqs \ {r}) \cup {q} /\ node' = node
  BY <1>2 DEF Enters
<1>5. Files(file', reqs')
  BY <1>3, <1>4 DEF RecordInv, Files
<1>6. Flows(file, node, reqs) => \A a \in Attempts : Smooth(file'[a].bytes)
  BY DEF Flows
<1> QED BY <1>0, <1>3, <1>4, <1>5, <1>6, EntersStep

LEMMA EnterLogKeeps ==
    ASSUME RecordInv, EnterLog
    PROVE  RecordInv'
<1>1. PICK r \in reqs :
        /\ r.kind = "log"
        /\ IF rec.locked \/ (DirLocked /\ rec.log = <<>>) THEN Refuse(r) ELSE Enters(r, r)
  BY DEF EnterLog
<1>2. UNCHANGED <<recorded, attempt, file, sweep, seal, harmed>>
  BY DEF EnterLog, db, tree
<1>3. CASE Refuse(r)
  <2>1. Told(r, node[r.att])
    BY <1>1, <1>3 DEF Refuse
  <2> QED BY <1>1, <1>2, <2>1, PlainAnswer
<1>4. CASE Enters(r, r)
  BY <1>1, <1>2, <1>4, PlainEnters
<1> QED BY <1>1, <1>3, <1>4

LEMMA AppendLogKeeps ==
    ASSUME RecordInv, AppendLog
    PROVE  RecordInv'
<1>1. PICK r \in reqs : r.kind = "log" /\ Told(r, node[r.att])
  BY DEF AppendLog, Inside, Accept
<1>2. UNCHANGED <<recorded, attempt, file, sweep, seal, harmed>>
  BY DEF AppendLog, db, tree
<1> QED BY <1>1, <1>2, PlainAnswer

LEMMA EnterBlobKeeps ==
    ASSUME RecordInv, EnterBlob
    PROVE  RecordInv'
<1>1. PICK r \in reqs : r.kind = "blob" /\ (Refuse(r) \/ Enters(r, [r EXCEPT !.as = attempt]))
  BY DEF EnterBlob
<1>2. UNCHANGED <<recorded, attempt, file, sweep, seal, harmed>>
  BY DEF EnterBlob, db, tree
<1>3. CASE Refuse(r)
  <2>1. Told(r, node[r.att])
    BY <1>1, <1>3 DEF Refuse
  <2> QED BY <1>1, <1>2, <2>1, PlainAnswer
<1>4. CASE Enters(r, [r EXCEPT !.as = attempt])
  BY <1>1, <1>2, <1>4, PlainEnters
<1> QED BY <1>1, <1>3, <1>4

LEMMA RenameBlobKeeps ==
    ASSUME RecordInv, RenameBlob
    PROVE  RecordInv'
<1>1. PICK r \in reqs : r.kind = "blob" /\ (Refuse(r) \/ Accept(r))
  BY DEF RenameBlob, Inside
<1>2. UNCHANGED <<recorded, attempt, file, sweep, seal, harmed>>
  BY DEF RenameBlob, db, tree
<1>3. Told(r, node[r.att])
  BY <1>1 DEF Refuse, Accept
<1> QED BY <1>1, <1>2, <1>3, PlainAnswer

\* An answer to a chunk, and what the handler made of the files.
LEMMA ChunkAnswer ==
    ASSUME RecordInv, NEW r \in reqs, r.kind = "chunk", NEW v \in NodeType, Told(r, v), v.inflight = <<>>,
           r.wait /\ ~v.done => ~node[r.att].done /\ Held(v),
           UNCHANGED <<recorded, attempt, sweep, seal>>, harmed' \in HarmType, harmed'.swept = harmed.swept,
           file' \in [Attempts -> FileType], Files(file', reqs \ {r}),
           Flows(file, node, reqs) =>
               /\ \A a \in Attempts : Smooth(file'[a].bytes)
               /\ \A a \in Attempts : \A k \in Int : Ahead(a, file, k) => Ahead(a, file', k)
               /\ r.wait /\ ~v.done => First(v) = First(node[r.att]) \/ Ahead(r.att, file', First(v))
    PROVE  RecordInv'
<1>0. node \in [Attempts -> NodeType] /\ reqs \in SUBSET RequestType /\ r.att \in Attempts
  BY RequestKnown DEF RecordInv, RecordTyped
<1>1. After(v.at) \in Places
  BY NodeFields, AfterIsPlace
<1>2. PICK w \in NodeType :
        /\ w = At(v, After(v.at)) /\ w.inflight = v.inflight
        /\ w.done = v.done /\ First(w) = First(v) /\ (Held(w) <=> Held(v))
  BY <1>1, AtElsewhere
<1>3. reqs' = reqs \ {r} /\ node' = Answers(node, r, w)
  BY <1>2 DEF Told, Answers, At
<1>4. r.wait /\ ~w.done => ~node[r.att].done /\ Held(w)
  BY <1>2
<1>5. /\ node' \in [Attempts -> NodeType] /\ OneAwaited(node', reqs') /\ Uploads(node', reqs')
      /\ \A a \in Attempts : node'[a] = IF r.wait /\ a = r.att THEN w ELSE node[a]
  <2>1. OneAwaited(node, reqs) /\ Uploads(node, reqs)
    BY DEF RecordInv
  <2>2. (r.kind = "chunk" => w.inflight = <<>>) /\ (r.kind # "chunk" => w.inflight = node[r.att].inflight)
    BY <1>2
  <2>3. r.wait /\ ~w.done => ~node[r.att].done /\ Held(w)
    BY <1>4
  <2> QED BY <1>0, <1>3, <2>1, <2>2, <2>3, Answered
<1>6. RecordTyped' /\ NothingBefore' /\ (Unharmed' => Unharmed)
  BY <1>0, <1>3, <1>5, RequestKnown DEF RecordInv, RecordTyped, NothingBefore, Unharmed
<1>7. Files(file', reqs') /\ Pieces(reqs')
  BY <1>3 DEF RecordInv, Pieces
<1>8. ASSUME Flows(file, node, reqs)
      PROVE  Flows(file', node', reqs')
  <2>1. \A a \in Attempts : ~node'[a].done =>
            (~node[a].done /\ First(node'[a]) = First(node[a])) \/ Ahead(a, file', First(node'[a]))
    BY <1>2, <1>4, <1>5, <1>8
  <2>2. \A p \in reqs' : p.kind = "chunk" => \E s \in reqs : s.kind = "chunk" /\ s.att = p.att /\ s.body = p.body
    BY <1>3
  <2>3. Pieces(reqs) /\ reqs' \subseteq RequestType
    BY <1>0, <1>3 DEF RecordInv
  <2> QED BY <1>0, <1>8, <2>1, <2>2, <2>3, FlowsOn
<1> QED BY <1>5, <1>6, <1>7, <1>8 DEF RecordInv

\* The newest attempt by the names of the files is the one that has a file.
LEMMA LateIsStale ==
    ASSUME Files(file, reqs), NEW a \in Attempts
    PROVE  /\ Stale(a, file) => Shown > a
           /\ TooLate(a) <=> Stale(a, file)
<1>0. Attempts \subseteq Nat /\ a \in Nat
  BY DEF Attempts
<1>1. CASE \A b \in Attempts : ~file[b].on
  <2>1. Shown = -1
    BY <1>1 DEF Shown, None
  <2> QED BY <1>0, <1>1, <2>1 DEF TooLate, Stale
<1>2. CASE \E b \in Attempts : file[b].on
  <2>1. PICK b \in Attempts : file[b].on
    BY <1>2
  <2>2. \A d \in Attempts : file[d].on => d = b
    BY <2>1 DEF Files
  <2>3. b <= b
    BY <1>0, <2>1
  <2>4. PICK s : s = CHOOSE e \in Attempts : file[e].on /\ \A d \in Attempts : file[d].on => d <= e
    OBVIOUS
  <2>5. s \in Attempts /\ file[s].on
    BY <2>1, <2>2, <2>3, <2>4
  <2>6. Shown = b
    BY <2>1, <2>2, <2>4, <2>5 DEF Shown
  <2>7. Stale(a, file) <=> a < b
    BY <2>1, <2>2 DEF Stale
  <2> QED BY <1>0, <2>1, <2>6, <2>7 DEF TooLate
<1> QED BY <1>1, <1>2

LEMMA EnterProgressKeeps ==
    ASSUME RecordInv, EnterProgress
    PROVE  RecordInv'
<1>1. PICK r \in reqs :
        /\ r.kind = "chunk" /\ Inside("chunk") = {}
        /\ IF TooLate(r.att)
           THEN /\ Acknowledge(r, [att |-> Shown, capped |-> Capped(file[Shown].bytes)])
                /\ UNCHANGED file
           ELSE /\ Enters(r, r)
                /\ file' = [a \in Attempts |-> IF a < r.att THEN NoFile
                                               ELSE IF a = r.att THEN [file[a] EXCEPT !.on = TRUE] ELSE file[a]]
  BY DEF EnterProgress
<1>2. UNCHANGED <<recorded, attempt, sweep, seal, harmed>>
  BY DEF EnterProgress, db
<1>3. r \in RequestType /\ r.att \in Attempts /\ node[r.att] \in NodeType /\ (node[r.att].done \/ Held(node[r.att]))
  BY RequestKnown
<1>4. file \in [Attempts -> FileType] /\ Files(file, reqs) /\ harmed \in HarmType
  BY DEF RecordInv, RecordTyped
<1>5. CASE TooLate(r.att)
  <2>1. PICK ack : ack = [att |-> Shown, capped |-> Capped(file[Shown].bytes)]
    OBVIOUS
  <2>2. ack.att > r.att
    BY <1>3, <1>4, <1>5, <2>1, LateIsStale
  <2>3. PICK v : v = Heard(node[r.att], r.att, ack)
    OBVIOUS
  <2>4. v \in NodeType /\ v.inflight = <<>> /\ v.done
    BY <1>3, <2>2, <2>3, HeardHolds
  <2>5. Told(r, v) /\ file' = file
    BY <1>1, <1>5, <2>1, <2>3 DEF Acknowledge
  <2>6. Files(file', reqs \ {r})
    BY <1>4, <2>5 DEF Files
  <2>7. Flows(file, node, reqs) => \A a \in Attempts : Smooth(file'[a].bytes)
    BY <2>5 DEF Flows
  <2> QED BY <1>1, <1>2, <1>4, <2>4, <2>5, <2>6, <2>7, ChunkAnswer
<1>6. CASE ~TooLate(r.att)
  <2>1. PICK q : q = [r EXCEPT !.pc = "in"]
    OBVIOUS
  <2>2. /\ q \in RequestType /\ q.kind = r.kind /\ q.att = r.att /\ q.body = r.body /\ q.wait = r.wait /\ q.pc = "in"
    BY <1>3, <2>1 DEF RequestType
  <2>3. reqs' = (reqs \ {r}) \cup {q} /\ node' = node
    BY <1>1, <1>6, <2>1 DEF Enters
  <2>4. ~Stale(r.att, file)
    BY <1>3, <1>4, <1>6, LateIsStale
  <2>5. NoFile \in FileType /\ ~NoFile.on /\ NoFile.bytes = <<>>
    BY DEF NoFile, FileType
  <2>6. PICK g : g = [file[r.att] EXCEPT !.on = TRUE]
    OBVIOUS
  <2>7. g \in FileType /\ g.on /\ g.bytes = file[r.att].bytes
    BY <1>3, <1>4, <2>6 DEF FileType
  <2>8. /\ file' \in [Attempts -> FileType]
        /\ \A a \in Attempts : /\ a < r.att => file'[a] = NoFile
                               /\ a = r.att => file'[a] = g
                               /\ ~(a < r.att) /\ a # r.att => file'[a] = file[a]
    <3>1. file' = [a \in Attempts |-> IF a < r.att THEN NoFile ELSE IF a = r.att THEN g ELSE file[a]]
      BY <1>1, <1>6, <2>6
    <3>2. ~(r.att < r.att)
      BY <1>3 DEF Attempts
    <3> QED BY <1>4, <2>5, <2>7, <3>1, <3>2
  <2>9. \A a \in Attempts : ~(a < r.att) /\ a # r.att => r.att < a
    BY <1>3 DEF Attempts
  <2>10. \A a \in Attempts : file'[a].on <=> a = r.att
    <3>1. \A a \in Attempts : r.att < a => ~file[a].on
      BY <2>4 DEF Stale
    <3>2. ~(r.att < r.att)
      BY <1>3 DEF Attempts
    <3> QED BY <2>5, <2>7, <2>8, <2>9, <3>1, <3>2
  <2>11. Files(file', reqs')
    <3>1. \A p \in reqs : ~(p.kind = "chunk" /\ p.pc = "in")
      BY <1>1 DEF Inside
    <3>2. \A p \in reqs' : p.kind = "chunk" /\ p.pc = "in" => p = q
      BY <2>3, <3>1
    <3>3. \A a \in Attempts : ~file'[a].on => file'[a].bytes = <<>>
      BY <1>4, <2>5, <2>8, <2>10 DEF Files
    <3>4. \A a, b \in Attempts : file'[a].on /\ file'[b].on => a = b
      BY <2>10
    <3>5. file'[q.att].on
      BY <1>3, <2>2, <2>10
    <3> QED BY <3>2, <3>3, <3>4, <3>5 DEF Files
  <2>12. ASSUME Flows(file, node, reqs), NEW a \in Attempts
         PROVE  Smooth(file'[a].bytes)
    <3>1. Smooth(<<>>)
      BY DEF Smooth
    <3> QED BY <2>5, <2>7, <2>8, <2>12, <3>1 DEF Flows
  <2>13. ASSUME NEW a \in Attempts, NEW k \in Int, Ahead(a, file, k)
         PROVE  Ahead(a, file', k)
    <3>1. CASE a < r.att
      BY <1>3, <2>10, <3>1 DEF Ahead, Stale
    <3>2. CASE ~(a < r.att)
      <4>1. file'[a].bytes = file[a].bytes
        BY <2>7, <2>8, <3>2
      <4>2. ~Stale(a, file)
        <5>1. \A b \in Attempts : a < b => r.att < b
          BY <1>3, <3>2 DEF Attempts
        <5> QED BY <2>4, <5>1 DEF Stale
      <4> QED BY <2>13, <4>1, <4>2 DEF Ahead
    <3> QED BY <3>1, <3>2
  <2> QED BY <1>2, <2>2, <2>3, <2>8, <2>11, <2>12, <2>13, EntersStep
<1> QED BY <1>5, <1>6

\* A chunk that is being read is of the attempt that has the file.
LEMMA ReadsItsFile ==
    ASSUME RecordInv, NEW r \in Inside("chunk")
    PROVE  /\ r \in reqs /\ r.kind = "chunk" /\ r.att \in Attempts /\ file[r.att] \in FileType
           /\ ~Stale(r.att, file)
           /\ Flows(file, node, reqs) => Reaches(file[r.att].bytes, r.body[1]) /\ Smooth(file[r.att].bytes)
<1>1. r \in reqs /\ r.kind = "chunk" /\ r.pc = "in"
  BY DEF Inside
<1>2. r.att \in Attempts /\ file[r.att].on /\ file[r.att] \in FileType
  BY <1>1, RequestKnown DEF RecordInv, RecordTyped, Files
<1>3. ~Stale(r.att, file)
  <2>1. ~(r.att < r.att)
    BY <1>2 DEF Attempts
  <2>2. \A b \in Attempts : file[b].on => b = r.att
    BY <1>2 DEF RecordInv, Files
  <2> QED BY <2>1, <2>2 DEF Stale
<1>4. Flows(file, node, reqs) => Reaches(file[r.att].bytes, r.body[1]) /\ Smooth(file[r.att].bytes)
  BY <1>1, <1>2, <1>3 DEF Flows, Ahead
<1> QED BY <1>1, <1>2, <1>3, <1>4

\* What the handler of a chunk leaves in the file.
LEMMA LeavesBytes ==
    ASSUME RecordInv, NEW r \in Inside("chunk"), NEW bytes \in Seq(Int), Leaves(r.att, bytes),
           Flows(file, node, reqs) =>
               Smooth(bytes) /\ \A k \in Int : Reaches(file[r.att].bytes, k) => Reaches(bytes, k)
    PROVE  /\ file' \in [Attempts -> FileType] /\ file'[r.att].bytes = bytes
           /\ \A R \in SUBSET reqs : Files(file', R)
           /\ Flows(file, node, reqs) =>
                /\ \A a \in Attempts : Smooth(file'[a].bytes)
                /\ \A a \in Attempts : \A k \in Int : Ahead(a, file, k) => Ahead(a, file', k)
<1>1. file \in [Attempts -> FileType] /\ Files(file, reqs) /\ r.att \in Attempts /\ file[r.att].on
  <2>1. r \in reqs /\ r.kind = "chunk" /\ r.pc = "in"
    BY DEF Inside
  <2> QED BY <2>1, RequestKnown DEF RecordInv, RecordTyped, Files
<1>2. PICK g : g = [on |-> TRUE, bytes |-> bytes, old |-> file[r.att].old /\ bytes = file[r.att].bytes]
  OBVIOUS
<1>3. g \in FileType /\ g.on /\ g.bytes = bytes
  BY <1>2 DEF FileType
<1>4. file' = [file EXCEPT ![r.att] = g]
  BY <1>2 DEF Leaves
<1>5. file' \in [Attempts -> FileType] /\ file'[r.att] = g /\ \A a \in Attempts \ {r.att} : file'[a] = file[a]
  BY <1>1, <1>3, <1>4
<1>6. \A a \in Attempts : file'[a].on <=> file[a].on
  BY <1>1, <1>3, <1>5
<1>7. ASSUME NEW R \in SUBSET reqs
      PROVE  Files(file', R)
  <2>1. \A a \in Attempts : ~file'[a].on => file'[a].bytes = <<>>
    BY <1>1, <1>5, <1>6 DEF Files
  <2>2. \A p \in R : p.att \in Attempts
    BY DEF RecordInv, RecordTyped, RequestType
  <2> QED BY <1>1, <1>6, <2>1, <2>2 DEF Files
<1>8. \A a \in Attempts : Stale(a, file') <=> Stale(a, file)
  BY <1>6 DEF Stale
<1>9. ASSUME Flows(file, node, reqs)
      PROVE  /\ \A a \in Attempts : Smooth(file'[a].bytes)
             /\ \A a \in Attempts : \A k \in Int : Ahead(a, file, k) => Ahead(a, file', k)
  <2>1. \A a \in Attempts : Smooth(file'[a].bytes)
    BY <1>3, <1>5, <1>9 DEF Flows
  <2>2. \A a \in Attempts : \A k \in Int : Reaches(file[a].bytes, k) => Reaches(file'[a].bytes, k)
    BY <1>3, <1>5, <1>9
  <2> QED BY <1>8, <2>1, <2>2 DEF Ahead
<1> QED BY <1>3, <1>5, <1>7, <1>9

LEMMA AppendProgressKeeps ==
    ASSUME RecordInv, AppendProgress
    PROVE  RecordInv'
<1>1. PICK r \in Inside("chunk") :
        LET u == AppendWithinLimit(file[r.att].bytes, r.body) IN
        Leaves(r.att, u) /\ Acknowledge(r, [att |-> r.att, capped |-> Capped(u)])
  BY DEF AppendProgress
<1>2. UNCHANGED <<recorded, attempt, sweep, seal, harmed>>
  BY DEF AppendProgress, db
<1>3. PICK f, s : f = file[r.att].bytes /\ s = r.body
  OBVIOUS
<1>4. PICK u : u = AppendWithinLimit(f, s)
  OBVIOUS
<1>5. PICK n : n = node[r.att]
  OBVIOUS
<1>6. PICK v : v = Heard(n, r.att, [att |-> r.att, capped |-> Capped(u)])
  OBVIOUS
<1>7. Leaves(r.att, u) /\ Told(r, v)
  BY <1>1, <1>3, <1>4, <1>5, <1>6 DEF Acknowledge
<1>8. /\ r \in reqs /\ r.kind = "chunk" /\ r.att \in Attempts /\ f \in Seq(Int)
      /\ Flows(file, node, reqs) => Reaches(f, s[1]) /\ Smooth(f)
  BY <1>3, ReadsItsFile DEF FileType
<1>9. s \in Seq(Nat) /\ Len(s) > 0 /\ s[1] \in Nat \ {0} /\ Straight(s, s[1])
  BY <1>3, <1>8, RequestKnown
<1>10. /\ u \in Seq(Int)
       /\ Flows(file, node, reqs) =>
            /\ Smooth(u) /\ Reaches(u, s[1] + Len(s))
            /\ \A x \in Int : Reaches(f, x) => Reaches(u, x)
  BY <1>4, <1>8, <1>9, WithinLimit
<1>11. n \in NodeType /\ (n.done \/ Held(n))
  BY <1>5, <1>8, RequestKnown
<1>12. /\ v \in NodeType /\ v.inflight = <<>>
       /\ ~v.done => ~n.done /\ Held(v) /\ First(v) = First(n) + Len(n.inflight)
  BY <1>6, <1>11, HeardHolds
<1>13. /\ file' \in [Attempts -> FileType] /\ file'[r.att].bytes = u
       /\ Files(file', reqs \ {r})
       /\ Flows(file, node, reqs) =>
            /\ \A a \in Attempts : Smooth(file'[a].bytes)
            /\ \A a \in Attempts : \A k \in Int : Ahead(a, file, k) => Ahead(a, file', k)
  BY <1>3, <1>7, <1>10, LeavesBytes
<1>14. ASSUME Flows(file, node, reqs), r.wait, ~v.done
       PROVE  Ahead(r.att, file', First(v))
  <2>1. r \in Out(r.att, reqs)
    BY <1>8, <1>14 DEF Out
  <2>2. n.inflight = s /\ Held(n)
    BY <1>3, <1>5, <1>8, <1>11, <1>12, <1>14, <2>1 DEF RecordInv, Uploads
  <2>3. First(n) = s[1]
    <3>1. First(n) \in Int /\ s[1] = First(n) + 1 - 1
      BY <1>9, <1>11, <2>2, NodeFields DEF Held, Straight
    <3> QED BY <3>1
  <2>4. First(v) = s[1] + Len(s)
    BY <1>12, <1>14, <2>2, <2>3
  <2> QED BY <1>10, <1>13, <1>14, <2>4 DEF Ahead
<1>15. harmed' \in HarmType /\ harmed'.swept = harmed.swept
  BY <1>2 DEF RecordInv, RecordTyped
<1> QED BY <1>2, <1>5, <1>7, <1>8, <1>12, <1>13, <1>14, <1>15, ChunkAnswer

\* What a body that breaks off leaves.
LEMMA PartsKeep ==
    ASSUME NEW f \in Seq(Int), NEW s \in Seq(Nat), Len(s) > 0, s[1] \in Nat \ {0}, Straight(s, s[1]),
           NEW u \in Parts(f, s)
    PROVE  /\ u \in Seq(Int)
           /\ Reaches(f, s[1]) /\ Smooth(f) => Smooth(u) /\ \A x \in Int : Reaches(f, x) => Reaches(u, x)
<1>1. CASE Capped(f)
  <2>1. u = f
    BY <1>1 DEF Parts
  <2> QED BY <2>1
<1>2. CASE ~Capped(f)
  <2>1. PICK k \in 0..(Len(s) - 1) : u = Grown(f, s, k)
    BY <1>2 DEF Parts, Grown
  <2>2. k \in 0..Len(s)
    BY <2>1
  <2>3. Grown(f, s, k) \in Seq(Int)
    BY <2>2, FileGrows
  <2>4. Reaches(f, s[1]) /\ Smooth(f) =>
            Smooth(Grown(f, s, k)) /\ \A x \in Int : Reaches(f, x) => Reaches(Grown(f, s, k), x)
    BY <1>2, <2>2, StaysSmooth
  <2> QED BY <2>1, <2>3, <2>4
<1> QED BY <1>1, <1>2

LEMMA BreaksBytes ==
    ASSUME RecordInv, NEW r \in Inside("chunk"), NEW u \in Parts(file[r.att].bytes, r.body), Leaves(r.att, u)
    PROVE  /\ file' \in [Attempts -> FileType]
           /\ \A R \in SUBSET reqs : Files(file', R)
           /\ Flows(file, node, reqs) =>
                /\ \A a \in Attempts : Smooth(file'[a].bytes)
                /\ \A a \in Attempts : \A k \in Int : Ahead(a, file, k) => Ahead(a, file', k)
<1>1. PICK f, s : f = file[r.att].bytes /\ s = r.body
  OBVIOUS
<1>2. /\ r \in reqs /\ r.kind = "chunk" /\ f \in Seq(Int)
      /\ Flows(file, node, reqs) => Reaches(f, s[1]) /\ Smooth(f)
  BY <1>1, ReadsItsFile DEF FileType
<1>3. s \in Seq(Nat) /\ Len(s) > 0 /\ s[1] \in Nat \ {0} /\ Straight(s, s[1])
  BY <1>1, <1>2, RequestKnown
<1>4. /\ u \in Seq(Int)
      /\ Flows(file, node, reqs) => Smooth(u) /\ \A x \in Int : Reaches(f, x) => Reaches(u, x)
  BY <1>1, <1>2, <1>3, PartsKeep
<1> QED BY <1>1, <1>4, LeavesBytes

LEMMA BreakProgressKeeps ==
    ASSUME RecordInv, BreakProgress
    PROVE  RecordInv'
<1>1. PICK r \in Inside("chunk") :
        /\ \E u \in Parts(file[r.att].bytes, r.body) : Leaves(r.att, u)
        /\ Refuse(r) /\ harmed' = [harmed EXCEPT !.twice = @ \cup {r.att}]
  BY DEF BreakProgress
<1>2. UNCHANGED <<recorded, attempt, sweep, seal>>
  BY DEF BreakProgress, db
<1>3. PICK u \in Parts(file[r.att].bytes, r.body) : Leaves(r.att, u)
  BY <1>1
<1>4. r \in reqs /\ r.kind = "chunk" /\ r.att \in Attempts
  BY ReadsItsFile
<1>5. PICK n : n = node[r.att]
  OBVIOUS
<1>6. n \in NodeType /\ (n.done \/ Held(n))
  BY <1>4, <1>5, RequestKnown
<1>7. PICK v : v = PutBack(n)
  OBVIOUS
<1>8. Told(r, v)
  BY <1>1, <1>4, <1>5, <1>7 DEF Refuse
<1>9. /\ v \in NodeType /\ v.inflight = <<>>
      /\ ~v.done => ~n.done /\ Held(v) /\ First(v) = First(n)
  BY <1>6, <1>7, PutBackHolds
<1>10. harmed' \in HarmType /\ harmed'.swept = harmed.swept
  BY <1>1, <1>4 DEF RecordInv, RecordTyped, HarmType
<1>11. /\ file' \in [Attempts -> FileType] /\ Files(file', reqs \ {r})
       /\ Flows(file, node, reqs) =>
            /\ \A a \in Attempts : Smooth(file'[a].bytes)
            /\ \A a \in Attempts : \A k \in Int : Ahead(a, file, k) => Ahead(a, file', k)
  BY <1>3, BreaksBytes
<1> QED BY <1>2, <1>4, <1>5, <1>8, <1>9, <1>10, <1>11, ChunkAnswer

LEMMA AbandonKeeps ==
    ASSUME RecordInv, NEW a \in Attempts, Abandon(a)
    PROVE  RecordInv'
<1>1. PICK r \in Awaited(a) :
        /\ LET n == [node[a] EXCEPT !.at = After(@)] IN
           node' = [node EXCEPT ![a] = IF r.kind = "chunk" THEN PutBack(n) ELSE n]
        /\ reqs' = (reqs \ {r}) \cup {[r EXCEPT !.wait = FALSE]}
        /\ harmed' = CASE r.kind = "chunk" -> [harmed EXCEPT !.twice = @ \cup {a}]
                       [] r.kind = "blob" -> [harmed EXCEPT !.astray = @ \cup {a}] [] OTHER -> harmed
  BY DEF Abandon
<1>2. UNCHANGED <<recorded, attempt, file, sweep, seal>>
  BY DEF Abandon, db, tree
<1>3. r \in reqs /\ r.att = a /\ r.wait
  BY DEF Awaited
<1>4. r \in RequestType /\ node[a] \in NodeType /\ (node[a].done \/ Held(node[a]))
  BY <1>3, RequestKnown
<1>5. After(node[a].at) \in Places
  BY <1>4, NodeFields, AfterIsPlace
<1>6. PICK n \in NodeType :
        /\ n = At(node[a], After(node[a].at)) /\ n.inflight = node[a].inflight
        /\ n.done = node[a].done /\ First(n) = First(node[a]) /\ (Held(n) <=> Held(node[a]))
  BY <1>4, <1>5, AtElsewhere
<1>7. PICK w : w = IF r.kind = "chunk" THEN PutBack(n) ELSE n
  OBVIOUS
<1>8. /\ w \in NodeType /\ (r.kind = "chunk" => w.inflight = <<>>)
      /\ r.kind # "chunk" => w.inflight = node[a].inflight
      /\ ~w.done => ~node[a].done /\ Held(w) /\ First(w) = First(node[a])
  BY <1>4, <1>6, <1>7, PutBackHolds
<1>9. node' = Answers(node, r, w)
  BY <1>1, <1>3, <1>6, <1>7 DEF Answers, At
<1>10. PICK q : q = [r EXCEPT !.wait = FALSE]
  OBVIOUS
<1>11. /\ q \in RequestType /\ q.kind = r.kind /\ q.att = r.att /\ q.body = r.body /\ q.pc = r.pc /\ ~q.wait
       /\ reqs' = (reqs \ {r}) \cup {q}
  BY <1>1, <1>4, <1>10 DEF RequestType
<1>0. node \in [Attempts -> NodeType] /\ reqs \in SUBSET RequestType /\ OneAwaited(node, reqs) /\ Uploads(node, reqs)
  BY DEF RecordInv, RecordTyped
<1>12. /\ node' \in [Attempts -> NodeType] /\ OneAwaited(node', reqs \ {r}) /\ Uploads(node', reqs \ {r})
       /\ \A b \in Attempts : node'[b] = IF r.wait /\ b = r.att THEN w ELSE node[b]
  <2>1. r.wait /\ ~w.done => ~node[r.att].done /\ Held(w)
    BY <1>3, <1>8
  <2>2. (r.kind = "chunk" => w.inflight = <<>>) /\ (r.kind # "chunk" => w.inflight = node[r.att].inflight)
    BY <1>3, <1>8
  <2>3. w \in NodeType
    BY <1>8
  <2>4. /\ Answers(node, r, w) \in [Attempts -> NodeType]
        /\ OneAwaited(Answers(node, r, w), reqs \ {r}) /\ Uploads(Answers(node, r, w), reqs \ {r})
        /\ \A b \in Attempts : Answers(node, r, w)[b] = IF r.wait /\ b = r.att THEN w ELSE node[b]
    <3>1. r \in reqs
      BY <1>3
    <3> QED BY <1>0, <2>1, <2>2, <2>3, <3>1, Answered
  <2> QED BY <1>9, <2>4
<1>13. OneAwaited(node', reqs') /\ Uploads(node', reqs')
  <2>1. reqs \ {r} \in SUBSET RequestType
    BY <1>0
  <2> QED BY <1>11, <1>12, <2>1, NotAwaited
<1>14. harmed' \in HarmType /\ harmed'.swept = harmed.swept
  BY <1>1 DEF RecordInv, RecordTyped, HarmType
<1>15. RecordTyped' /\ NothingBefore' /\ (Unharmed' => Unharmed)
  BY <1>0, <1>2, <1>3, <1>11, <1>12, <1>14, RequestKnown DEF RecordInv, RecordTyped, NothingBefore, Unharmed
<1>16. Files(file', reqs')
  <2>1. Files(file, reqs)
    BY DEF RecordInv
  <2> QED BY <1>2, <1>3, <1>11, <2>1 DEF Files
<1>17. Pieces(reqs')
  BY <1>3, <1>11 DEF RecordInv, Pieces
<1>18. ASSUME Flows(file, node, reqs)
       PROVE  Flows(file', node', reqs')
  <2>1. \A b \in Attempts : ~node'[b].done => ~node[b].done /\ First(node'[b]) = First(node[b])
    BY <1>3, <1>8, <1>12
  <2> QED BY <1>2, <1>3, <1>11, <1>18, <2>1 DEF Flows
<1> QED BY <1>13, <1>15, <1>16, <1>17, <1>18 DEF RecordInv

\* A step that changes files only.
LEMMA FileStep ==
    ASSUME RecordInv, UNCHANGED <<recorded, attempt, node, reqs>>, harmed' \in HarmType, sweep' \in SweepType,
           sweep'.pc = "remove" => sweep'.doomed \in Attempts,
           file' \in [Attempts -> FileType], Files(file', reqs),
           \A a \in Attempts : file'[a].on => file[a].on, seal' = "none" \/ ~(recorded \in {"none", "running"}),
           Unharmed' => Unharmed /\
               (Flows(file, node, reqs) =>
                   /\ \A a \in Attempts : Smooth(file'[a].bytes)
                   /\ \A a \in Attempts : \A k \in Int : Ahead(a, file, k) => Ahead(a, file', k))
    PROVE  RecordInv'
<1>1. RecordTyped' /\ NothingBefore'
  BY DEF RecordInv, RecordTyped, NothingBefore
<1>2. Files(file', reqs') /\ OneAwaited(node', reqs') /\ Uploads(node', reqs') /\ Pieces(reqs')
  BY DEF RecordInv
<1>3. ASSUME Unharmed'
      PROVE  Flows(file', node', reqs')
  <2>1. Flows(file, node, reqs) /\ Pieces(reqs) /\ node \in [Attempts -> NodeType] /\ reqs \in SUBSET RequestType
    BY <1>3 DEF RecordInv, RecordTyped
  <2>2. Flows(file', node, reqs)
    BY <1>3, <2>1, FlowsOn
  <2> QED BY <2>2
<1> QED BY <1>1, <1>2, <1>3 DEF RecordInv

\* All files removed.
LEMMA GoneFiles ==
    ASSUME RecordInv, Gone, Inside("chunk") = {}
    PROVE  /\ file' \in [Attempts -> FileType] /\ Files(file', reqs)
           /\ \A a \in Attempts : ~file'[a].on /\ file'[a].bytes = <<>>
<1>1. NoFile \in FileType /\ ~NoFile.on /\ NoFile.bytes = <<>>
  BY DEF NoFile, FileType
<1>2. file' = [a \in Attempts |-> NoFile]
  BY DEF Gone
<1> QED BY <1>1, <1>2 DEF Files, Inside

LEMMA SealDropKeeps ==
    ASSUME RecordInv, SealDrop
    PROVE  RecordInv'
<1>1. /\ UNCHANGED <<recorded, attempt, node, reqs, sweep, harmed>> /\ seal = "due"
      /\ Inside("chunk") = {} /\ Gone
  BY DEF SealDrop, db
<1>2. ~(recorded \in {"none", "running"})
  BY <1>1 DEF RecordInv, NothingBefore
<1>3. ~Unharmed'
  BY <1>1, <1>2 DEF Unharmed
<1>4. /\ harmed' \in HarmType /\ sweep' \in SweepType /\ (sweep'.pc = "remove" => sweep'.doomed \in Attempts)
  BY <1>1 DEF RecordInv, RecordTyped
<1> QED BY <1>1, <1>2, <1>3, <1>4, GoneFiles, FileStep

LEMMA SweepDropKeeps ==
    ASSUME RecordInv, SweepDrop
    PROVE  RecordInv'
<1>1. /\ UNCHANGED <<recorded, attempt, node, reqs, seal>> /\ Inside("chunk") = {} /\ Gone /\ sweep' = NoSweep
      /\ harmed' = [harmed EXCEPT !.swept = @ \cup {a \in Attempts : Live /\ file[a].on}]
  BY DEF SweepDrop, db
<1>2. harmed \in HarmType
  BY DEF RecordInv, RecordTyped
<1>3. harmed' \in HarmType /\ harmed'.swept = harmed.swept \cup {a \in Attempts : Live /\ file[a].on}
  BY <1>1, <1>2 DEF HarmType
<1>4. sweep' \in SweepType /\ sweep'.pc = "idle"
  BY <1>1 DEF NoSweep, SweepType
<1>5. /\ file' \in [Attempts -> FileType] /\ Files(file', reqs)
      /\ \A a \in Attempts : ~file'[a].on /\ file'[a].bytes = <<>>
  BY <1>1, GoneFiles
<1>6. ASSUME Unharmed'
      PROVE  Unharmed /\ \A a \in Attempts : ~file[a].on /\ file[a].bytes = <<>>
  <2>1. Unharmed /\ {a \in Attempts : Live /\ file[a].on} = {}
    BY <1>1, <1>3, <1>6 DEF Unharmed
  <2>2. \A a \in Attempts : ~file[a].on
    BY <2>1 DEF Unharmed, Live, RecordInv, NothingBefore
  <2>3. \A a \in Attempts : file[a].bytes = <<>>
    BY <2>2 DEF RecordInv, Files
  <2> QED BY <2>1, <2>2, <2>3
<1>7. ASSUME Unharmed'
      PROVE  /\ \A a \in Attempts : Smooth(file'[a].bytes)
             /\ \A a \in Attempts : \A k \in Int : Ahead(a, file, k) => Ahead(a, file', k)
  <2>1. Smooth(<<>>)
    BY DEF Smooth
  <2>2. \A a \in Attempts : ~Stale(a, file) /\ file'[a].bytes = file[a].bytes
    BY <1>5, <1>6, <1>7 DEF Stale
  <2> QED BY <1>5, <2>1, <2>2 DEF Ahead
<1>8. seal' = "none" \/ ~(recorded \in {"none", "running"})
  BY <1>1 DEF RecordInv, NothingBefore
<1> QED BY <1>1, <1>3, <1>4, <1>5, <1>6, <1>7, <1>8, FileStep

LEMMA SweepRemoveKeeps ==
    ASSUME RecordInv, SweepRemove
    PROVE  RecordInv'
<1>1. /\ UNCHANGED <<recorded, attempt, node, reqs, seal>> /\ sweep.pc = "remove" /\ Inside("chunk") = {}
      /\ file' = [file EXCEPT ![sweep.doomed] = NoFile] /\ sweep' = NoSweep
      /\ harmed' = [harmed EXCEPT !.swept = @ \cup {sweep.doomed}]
  BY DEF SweepRemove, db
<1>2. harmed \in HarmType /\ sweep.doomed \in Attempts /\ file \in [Attempts -> FileType] /\ Files(file, reqs)
  BY <1>1 DEF RecordInv, RecordTyped
<1>3. harmed' \in HarmType /\ sweep.doomed \in harmed'.swept
  BY <1>1, <1>2 DEF HarmType
<1>4. sweep' \in SweepType /\ sweep'.pc = "idle"
  BY <1>1 DEF NoSweep, SweepType
<1>5. NoFile \in FileType /\ ~NoFile.on /\ NoFile.bytes = <<>>
  BY DEF NoFile, FileType
<1>6. /\ file' \in [Attempts -> FileType]
      /\ \A a \in Attempts : file'[a] = IF a = sweep.doomed THEN NoFile ELSE file[a]
  BY <1>1, <1>2, <1>5
<1>7. Files(file', reqs) /\ \A a \in Attempts : file'[a].on => file[a].on
  BY <1>1, <1>2, <1>5, <1>6 DEF Files, Inside
<1>8. ~Unharmed'
  BY <1>3 DEF Unharmed
<1>9. seal' = "none" \/ ~(recorded \in {"none", "running"})
  BY <1>1 DEF RecordInv, NothingBefore
<1> QED BY <1>1, <1>3, <1>4, <1>6, <1>7, <1>8, <1>9, FileStep

LEMMA SilenceKeeps ==
    ASSUME RecordInv, Silence
    PROVE  RecordInv'
<1>1. PICK a \in Attempts : file[a].on /\ file' = [file EXCEPT ![a].old = TRUE]
  BY DEF Silence
<1>2. UNCHANGED <<recorded, attempt, node, reqs, sweep, seal, harmed>>
  BY DEF Silence, db
<1>3. file \in [Attempts -> FileType] /\ Files(file, reqs)
  BY DEF RecordInv, RecordTyped
<1>4. PICK g : g = [file[a] EXCEPT !.old = TRUE]
  OBVIOUS
<1>5. g \in FileType /\ g.on = file[a].on /\ g.bytes = file[a].bytes
  BY <1>3, <1>4 DEF FileType
<1>6. /\ file' \in [Attempts -> FileType]
      /\ \A b \in Attempts : file'[b].bytes = file[b].bytes /\ (file'[b].on <=> file[b].on)
  <2>1. file' = [file EXCEPT ![a] = g]
    BY <1>1, <1>4
  <2> QED BY <1>3, <1>5, <2>1
<1>7. Files(file', reqs)
  <2>1. \A r \in reqs : r.att \in Attempts
    BY RequestKnown
  <2> QED BY <1>3, <1>6, <2>1 DEF Files
<1>8. \A b \in Attempts : Stale(b, file) <=> Stale(b, file')
  BY <1>6 DEF Stale
<1>9. Flows(file, node, reqs) =>
          /\ \A b \in Attempts : Smooth(file'[b].bytes)
          /\ \A b \in Attempts : \A k \in Int : Ahead(b, file, k) => Ahead(b, file', k)
  BY <1>6, <1>8 DEF Flows, Ahead
<1>10. /\ harmed' \in HarmType /\ sweep' \in SweepType /\ (sweep'.pc = "remove" => sweep'.doomed \in Attempts)
  BY <1>2 DEF RecordInv, RecordTyped
<1>11. (Unharmed' => Unharmed) /\ (seal' = "none" \/ ~(recorded \in {"none", "running"}))
  BY <1>2 DEF RecordInv, NothingBefore, Unharmed
<1> QED BY <1>2, <1>6, <1>7, <1>9, <1>10, <1>11, FileStep

LEMMA RestartKeeps ==
    ASSUME RecordInv, Restart
    PROVE  RecordInv'
<1>1. /\ reqs' = {} /\ sweep' = NoSweep /\ UNCHANGED <<recorded, attempt>>
      /\ node' = [a \in Attempts |-> IF Awaited(a) = {} THEN node[a]
                    ELSE At(IF \E r \in Awaited(a) : r.kind = "chunk" THEN PutBack(node[a]) ELSE node[a],
                            After((IF \E r \in Awaited(a) : r.kind = "chunk" THEN PutBack(node[a]) ELSE node[a]).at))]
      /\ harmed' = [harmed EXCEPT !.twice = @ \cup {r.att : r \in Inside("chunk")}]
  BY DEF Restart, db, At
<1>2. ASSUME NEW a \in Attempts
      PROVE  /\ node'[a] \in NodeType
             /\ node[a].at = "idle" => node'[a].at = "idle"
             /\ ~node'[a].done => /\ ~node[a].done /\ Held(node'[a]) /\ node'[a].inflight = <<>>
                                  /\ First(node'[a]) = First(node[a])
  <2>1. node[a] \in NodeType /\ (node[a].done \/ Held(node[a]))
    BY NodeKnown
  <2>2. Out(a, reqs) = {} /\ ~node[a].done => node[a].inflight = <<>>
    BY DEF RecordInv, Uploads
  <2>3. CASE Awaited(a) = {}
    <3>1. Out(a, reqs) = {}
      BY <2>3 DEF Out, Awaited
    <3>2. node'[a] = node[a]
      BY <1>1, <2>3
    <3> QED BY <2>1, <2>2, <3>1, <3>2
  <2>4. CASE Awaited(a) # {}
    <3>1. PICK v : v = IF \E r \in Awaited(a) : r.kind = "chunk" THEN PutBack(node[a]) ELSE node[a]
      OBVIOUS
    <3>2. node'[a] = At(v, After(v.at))
      BY <1>1, <2>4, <3>1
    <3>3. /\ v \in NodeType /\ v.at = node[a].at
          /\ ~v.done => ~node[a].done /\ Held(v) /\ v.inflight = <<>> /\ First(v) = First(node[a])
      <4>1. CASE \E r \in Awaited(a) : r.kind = "chunk"
        <5>1. v = PutBack(node[a])
          BY <3>1, <4>1
        <5> QED BY <2>1, <5>1, PutBackHolds
      <4>2. CASE ~\E r \in Awaited(a) : r.kind = "chunk"
        <5>1. Out(a, reqs) = {}
          BY <4>2 DEF Out, Awaited
        <5>2. v = node[a]
          BY <3>1, <4>2
        <5> QED BY <2>1, <2>2, <5>1, <5>2
      <4> QED BY <4>1, <4>2
    <3>4. After(v.at) \in Places
      BY <3>3, NodeFields, AfterIsPlace
    <3>5. node[a].at # "idle"
      <4>1. PICK r \in Awaited(a) : TRUE
        BY <2>4
      <4>2. r \in reqs /\ r.wait /\ r.att = a /\ r.kind \in {"chunk", "log", "blob"}
        BY <4>1 DEF Awaited, RecordInv, RecordTyped, RequestType
      <4> QED BY <4>2, NodeKnown DEF Fits
    <3> QED BY <3>2, <3>3, <3>4, <3>5, AtElsewhere
  <2> QED BY <2>3, <2>4
<1>3. node' \in [Attempts -> NodeType]
  BY <1>1, <1>2
<1>5. /\ file' \in [Attempts -> FileType] /\ Files(file', {})
      /\ recorded = "none" => file' = file
      /\ Flows(file, node, reqs) =>
            /\ \A a \in Attempts : Smooth(file'[a].bytes)
            /\ \A a \in Attempts : \A k \in Int : Ahead(a, file, k) => Ahead(a, file', k)
  <2>1. CASE Inside("chunk") = {}
    <3>1. file' = file
      BY <2>1 DEF Restart
    <3>2. file \in [Attempts -> FileType] /\ Files(file, {})
      BY DEF RecordInv, RecordTyped, Files
    <3>3. Flows(file, node, reqs) => \A a \in Attempts : Smooth(file[a].bytes)
      BY DEF Flows
    <3> QED BY <3>1, <3>2, <3>3
  <2>2. CASE Inside("chunk") # {}
    <3>1. PICK r \in Inside("chunk") : \E u \in Parts(file[r.att].bytes, r.body) : Leaves(r.att, u)
      BY <2>2 DEF Restart
    <3>2. PICK u \in Parts(file[r.att].bytes, r.body) : Leaves(r.att, u)
      BY <3>1
    <3>3. recorded # "none"
      BY ReadsItsFile, RequestKnown
    <3>4. {} \in SUBSET reqs
      OBVIOUS
    <3> QED BY <3>2, <3>3, <3>4, BreaksBytes
  <2> QED BY <2>1, <2>2
<1>6. harmed' \in HarmType /\ harmed'.swept = harmed.swept
  <2>1. {r.att : r \in Inside("chunk")} \subseteq Attempts
    BY ReadsItsFile
  <2> QED BY <1>1, <2>1 DEF RecordInv, RecordTyped, HarmType
<1>7. sweep' \in SweepType /\ sweep'.pc = "idle"
  BY <1>1 DEF NoSweep, SweepType
<1>8. RecordTyped'
  BY <1>1, <1>3, <1>5, <1>6, <1>7 DEF RecordInv, RecordTyped
<1>9. NothingBefore'
  <2>1. seal = "none" => seal' = "none"
    BY DEF Restart
  <2> QED BY <1>1, <1>2, <1>5, <2>1 DEF RecordInv, NothingBefore
<1>10. Files(file', reqs') /\ OneAwaited(node', reqs') /\ Pieces(reqs')
  BY <1>1, <1>5 DEF OneAwaited, Pieces
<1>11. Uploads(node', reqs')
  BY <1>1, <1>2 DEF Uploads, Out
<1>12. ASSUME Unharmed'
       PROVE  Flows(file', node', reqs')
  <2>1. Unharmed
    BY <1>1, <1>6, <1>12 DEF Unharmed
  <2>2. Flows(file, node, reqs) /\ Pieces(reqs) /\ node \in [Attempts -> NodeType] /\ reqs \in SUBSET RequestType
    BY <2>1 DEF RecordInv, RecordTyped
  <2> QED BY <1>1, <1>2, <1>5, <2>2, FlowsOn
<1> QED BY <1>8, <1>9, <1>10, <1>11, <1>12 DEF RecordInv

LEMMA RecordStep ==
    ASSUME RecordInv, [RecordNext]_recordVars
    PROVE  RecordInv'
<1>1. CASE UNCHANGED recordVars
  <2>1. UNCHANGED <<recorded, attempt, node, reqs, file, sweep, seal, harmed>>
    BY <1>1 DEF recordVars
  <2>2. RecordTyped' /\ NothingBefore' /\ (Unharmed' => Unharmed)
    BY <2>1 DEF RecordInv, RecordTyped, NothingBefore, Unharmed
  <2> QED BY <2>1, <2>2, QuietStep
<1>2. CASE Submit \/ Cancel \/ TakenOver
  BY <1>2, SubmitKeeps, CancelKeeps, TakenOverKeeps
<1>3. CASE Handler
  BY <1>3, EnterProgressKeeps, AppendProgressKeeps, EnterLogKeeps, AppendLogKeeps, EnterBlobKeeps, RenameBlobKeeps
     DEF Handler
<1>4. CASE Seal
  BY <1>4, SealDropKeeps, SealKeeps DEF Seal
<1>5. CASE Sweep
  BY <1>5, SweepLooksKeeps, SweepRemoveKeeps, SweepDropKeeps DEF Sweep
<1>6. CASE BreakProgress \/ Restart \/ Silence
  BY <1>6, BreakProgressKeeps, RestartKeeps, SilenceKeeps
<1>7. ASSUME NEW a \in Attempts, Begin(a) \/ Write(a) \/ NodeGoesOn(a) \/ Abandon(a)
      PROVE  RecordInv'
  BY <1>7, BeginKeeps, WriteKeeps, FlushKeeps, CloseKeeps, UploadKeeps, PostResultKeeps, AbandonKeeps DEF NodeGoesOn
<1> QED BY <1>1, <1>2, <1>3, <1>4, <1>5, <1>6, <1>7 DEF RecordNext

LEMMA RecordInvariant == RecordSpec => []RecordInv
<1>1. RecordInv /\ [RecordNext]_recordVars => RecordInv'
  BY RecordStep
<1> QED BY <1>1, RecordStarts, PTL DEF RecordSpec

THEOREM TranscriptHasNoHole == RecordSpec => []NoHole
<1>1. RecordInv => NoHole
  <2> SUFFICES ASSUME RecordInv, Live, NEW a \in Attempts, file[a].on
               PROVE  /\ \A b \in Attempts \ {a} : ~file[b].on
                      /\ harmed.swept = {} =>
                            \A i \in 1..Len(file[a].bytes) : file[a].bytes[i] > 1 =>
                                \E j \in 1..(i - 1) : file[a].bytes[j] = file[a].bytes[i] - 1
    BY DEF NoHole
  <2>1. \A b \in Attempts \ {a} : ~file[b].on
    BY DEF RecordInv, Files
  <2>2. harmed.swept = {} => Smooth(file[a].bytes)
    BY DEF RecordInv, Unharmed, Live, Flows
  <2> QED BY <2>1, <2>2 DEF Smooth
<1> QED BY <1>1, RecordInvariant, PTL
=============================================================================
