--------------------------- MODULE SideParts_proofs ---------------------------
(***************************************************************************)
(* Proofs about the parts beside the Runs. Each has an inductive invariant *)
(* of its own: AdapterInv, IdentityInv, EnvInv and HarvestInv.             *)
(***************************************************************************)
EXTENDS IssueAdapter, LowerIdentity, PreparedEnvironment, Harvest, TLAPS

-----------------------------------------------------------------------------
(* IssueAdapter: an issue has one Run open, and somebody minds it.          *)

Goroutine == [at : {"idle", "probe", "find", "start", "ready", "submit", "follow", "handoff", "finish", "failout", "answer", "latest",
                    "result", "leave"},
              job : Jobs \cup {NoJob}, gen : 0..MaxGen, q : Nat, proc : Procs \cup {0}, say : {"none", "success", "failed"}]
RunRow == [st : {"none", "running", "succeeded", "failed"}, asks : Nat, open : BOOLEAN]

AdapterTyped == runs \in [Gens -> RunRow] /\ hs \in [Handlers -> Goroutine] /\ faults \in Nat

IsOver(r) == r.st \in {"succeeded", "failed"}

\* In rs all generations before g are over.
AllBefore(g, rs) == \A e \in 1..(g - 1) : IsOver(rs[e])

\* A goroutine at m about to submit a Run is the next after those that are over.
InTurn(m, rs) ==
    /\ m.at \in {"start", "ready", "submit", "follow", "handoff", "answer"} => m.gen \in Gens
    /\ m.at \in {"start", "ready", "submit"} => AllBefore(m.gen, rs)

\* A goroutine at m minds the Run g, whose row is r: it will see what comes, or posts its open question.
Minds(m, g, r) == m.gen = g /\ (m.at = "follow" \/ (m.at = "handoff" /\ r.open /\ m.q = r.asks))

IsMinded(g) == (\E h \in Handlers : Minds(hs[h], g, runs[g])) \/ (runs[g].open /\ <<g, runs[g].asks>> \in comments)

AdapterInv ==
    /\ AdapterTyped
    /\ \A h \in Handlers : InTurn(hs[h], runs)
    /\ \A g \in Gens : runs[g].st # "none" => AllBefore(g, runs)
    /\ faults = 0 => \A g \in Gens : runs[g].st = "running" => IsMinded(g)

LEMMA AdapterStarts == Init => AdapterInv
<1>1. SUFFICES ASSUME Init
               PROVE  AdapterInv
  OBVIOUS
<1>2. Idle \in Goroutine /\ Idle.at = "idle"
  BY GenerationsAreCounted DEF Idle, Goroutine
<1>3. AdapterTyped
  BY <1>1, <1>2 DEF Init, AdapterTyped, RunRow
<1>4. \A g \in Gens : runs[g].st = "none"
  BY <1>1 DEF Init
<1>5. \A h \in Handlers : InTurn(hs[h], runs)
  BY <1>1, <1>2 DEF Init, InTurn
<1>6. QED
  BY <1>3, <1>4, <1>5 DEF AdapterInv

\* Rows that are over stay over.
RowsGoOn(rs, ss) == \A e \in Gens : IsOver(rs[e]) => IsOver(ss[e])

LEMMA StillBefore ==
    ASSUME NEW rs, NEW ss, RowsGoOn(rs, ss), NEW g \in Gens, AllBefore(g, rs)
    PROVE  AllBefore(g, ss)
BY GenerationsAreCounted DEF RowsGoOn, AllBefore, Gens

\* A step of one goroutine.
LEMMA OneGoroutine ==
    ASSUME AdapterInv, NEW h \in Handlers, hs' = [hs EXCEPT ![h] = hs'[h]], hs'[h] \in Goroutine, InTurn(hs'[h], runs'),
           runs' \in [Gens -> RunRow], RowsGoOn(runs, runs'), faults' \in Nat, faults' = 0 => faults = 0,
           \A g \in Gens : runs'[g].st # "none" => AllBefore(g, runs'),
           comments \subseteq comments',
           faults' = 0 => \A g \in Gens : runs'[g].st = "running" =>
               \/ Minds(hs'[h], g, runs'[g])
               \/ /\ runs'[g] = runs[g]
                  /\ Minds(hs[h], g, runs[g]) => runs[g].open /\ <<g, runs[g].asks>> \in comments'
    PROVE  AdapterInv'
<1>1. AdapterTyped'
  BY DEF AdapterInv, AdapterTyped
<1>2. ASSUME NEW k \in Handlers
      PROVE  InTurn(hs'[k], runs')
  <2>1. CASE k = h
    BY <2>1
  <2>2. CASE k # h
    <3>1. hs'[k] = hs[k] /\ InTurn(hs[k], runs)
      BY <2>2 DEF AdapterInv, AdapterTyped
    <3>2. QED
      BY <3>1, StillBefore DEF InTurn
  <2>3. QED
    BY <2>1, <2>2
<1>3. ASSUME faults' = 0, NEW g \in Gens, runs'[g].st = "running"
      PROVE  IsMinded(g)'
  <2>1. CASE Minds(hs'[h], g, runs'[g])
    BY <2>1 DEF IsMinded
  <2>2. CASE runs'[g] = runs[g] /\ (Minds(hs[h], g, runs[g]) => runs[g].open /\ <<g, runs[g].asks>> \in comments')
    <3>1. IsMinded(g)
      BY <1>3, <2>2 DEF AdapterInv
    <3>2. CASE runs[g].open /\ <<g, runs[g].asks>> \in comments
      BY <2>2, <3>2 DEF IsMinded
    <3>3. ASSUME NEW k \in Handlers, Minds(hs[k], g, runs[g])
          PROVE  IsMinded(g)'
      <4>1. CASE k = h
        BY <2>2, <3>3, <4>1 DEF IsMinded
      <4>2. CASE k # h
        <5>1. hs'[k] = hs[k]
          BY <4>2 DEF AdapterInv, AdapterTyped
        <5>2. QED
          BY <2>2, <3>3, <5>1 DEF IsMinded
      <4>3. QED
        BY <4>1, <4>2
    <3>4. QED
      BY <3>1, <3>2, <3>3 DEF IsMinded
  <2>3. QED
    BY <1>3, <2>1, <2>2
<1>4. QED
  BY <1>1, <1>2, <1>3 DEF AdapterInv

LEMMA AdapterGoesOn ==
    ASSUME AdapterInv, Next
    PROVE  AdapterInv'
<1>0. /\ AdapterTyped /\ runs \in [Gens -> RunRow] /\ hs \in [Handlers -> Goroutine] /\ faults \in Nat
      /\ \A h \in Handlers : hs[h] \in Goroutine /\ InTurn(hs[h], runs)
      /\ \A g \in Gens : runs[g] \in RunRow
      /\ \A g \in Gens : runs[g].st # "none" => AllBefore(g, runs)
      /\ faults = 0 => \A g \in Gens : runs[g].st = "running" => IsMinded(g)
      /\ MaxGen \in Nat
  BY GenerationsAreCounted DEF AdapterInv, AdapterTyped
<1>i. Idle \in Goroutine /\ Idle.at = "idle"
  BY GenerationsAreCounted DEF Idle, Goroutine
<1>c. \A fails : Count(fails) => faults' \in Nat /\ (faults' = 0 => faults = 0 /\ ~fails)
  BY <1>0 DEF Count
\* A goroutine that goes to m, where nothing of a Run changes and none is followed any less.
<1>g. ASSUME NEW h \in Handlers, NEW m \in Goroutine, hs' = [hs EXCEPT ![h] = m], UNCHANGED runs, comments \subseteq comments',
             faults' \in Nat, faults' = 0 => faults = 0, InTurn(m, runs),
             faults' = 0 => \A g \in Gens : runs[g].st = "running" /\ Minds(hs[h], g, runs[g]) =>
                                 Minds(m, g, runs[g]) \/ (runs[g].open /\ <<g, runs[g].asks>> \in comments')
      PROVE  AdapterInv'
  <2>1. hs'[h] = m
    BY <1>0, <1>g
  <2>2. RowsGoOn(runs, runs')
    BY <1>g DEF RowsGoOn
  <2>3. QED
    BY <1>0, <1>g, <2>1, <2>2, OneGoroutine
\* The tracker, people and the orchestrators.
<1>1. ASSUME UNCHANGED <<runs, hs, comments>>, faults' \in Nat, faults' = 0 => faults = 0
      PROVE  AdapterInv'
  BY <1>0, <1>1 DEF AdapterInv, AdapterTyped, IsMinded
<1>2. ASSUME NEW j \in Jobs, Delegate(j) \/ Mention(j) \/ LeaseEnds(j)
      PROVE  AdapterInv'
  BY <1>0, <1>1, <1>2, <1>c DEF Delegate, Mention, LeaseEnds
<1>3. ASSUME NEW p \in Procs, OnceExits(p) \/ Reap(p)
      PROVE  AdapterInv'
  BY <1>0, <1>1, <1>3 DEF OnceExits, Reap
<1>4. ASSUME NEW g \in Gens, RunAsks(g) \/ RunEnds(g)
      PROVE  AdapterInv'
  <2> DEFINE r == runs'[g]
  <2>1. UNCHANGED <<hs, comments, faults>> /\ runs[g].st = "running" /\ runs' = [runs EXCEPT ![g] = r] /\ r \in RunRow
        /\ (r.st = "running" => ~runs[g].open) /\ r.st # "none"
    <3>1. CASE RunAsks(g)
      <4> DEFINE a == [runs[g] EXCEPT !.open = TRUE, !.asks = @ + 1]
      <4>1. runs' = [runs EXCEPT ![g] = a] /\ ~runs[g].open /\ runs[g].st = "running"
        BY <3>1 DEF RunAsks, Live
      <4> DEFINE more == runs[g].asks + 1
      <4>a. more \in Nat /\ a = [runs[g] EXCEPT !.open = TRUE, !.asks = more]
        BY <1>0 DEF RunRow
      <4> HIDE DEF more
      <4>2. a \in RunRow /\ a.st = runs[g].st
        BY <1>0, <4>a DEF RunRow
      <4> HIDE DEF a
      <4>3. QED
        BY <1>0, <3>1, <4>1, <4>2 DEF RunAsks
    <3>2. CASE RunEnds(g)
      <4>1. PICK st \in {"succeeded", "failed"} : runs' = [runs EXCEPT ![g].st = st, ![g].open = FALSE]
        BY <3>2 DEF RunEnds
      <4> DEFINE a == [runs[g] EXCEPT !.st = st, !.open = FALSE]
      <4>2. runs' = [runs EXCEPT ![g] = a] /\ runs[g].st = "running"
        BY <3>2, <4>1 DEF RunEnds, Live
      <4>3. a \in RunRow /\ a.st = st
        BY <1>0 DEF RunRow
      <4> HIDE DEF a
      <4>4. QED
        BY <1>0, <3>2, <4>2, <4>3 DEF RunEnds
    <3>3. QED
      BY <1>4, <3>1, <3>2
  <2> HIDE DEF r
  <2>2. runs' \in [Gens -> RunRow] /\ runs'[g] = r /\ \A e \in Gens \ {g} : runs'[e] = runs[e]
    BY <1>0, <2>1
  <2>3. RowsGoOn(runs, runs')
    BY <2>1, <2>2 DEF RowsGoOn, IsOver
  <2>4. AdapterTyped'
    BY <1>0, <2>1, <2>2 DEF AdapterTyped
  <2>5. \A h \in Handlers : InTurn(hs'[h], runs')
    BY <1>0, <2>1, <2>3, StillBefore DEF InTurn
  <2>6. \A e \in Gens : runs'[e].st # "none" => AllBefore(e, runs')
    BY <1>0, <2>1, <2>2, <2>3, StillBefore
  <2>7. ASSUME faults' = 0, NEW e \in Gens, runs'[e].st = "running"
        PROVE  IsMinded(e)'
    <3>1. runs[e].st = "running" /\ IsMinded(e)
      BY <1>0, <2>1, <2>2, <2>7
    <3>2. CASE e = g
      BY <2>1, <2>2, <2>7, <3>1, <3>2 DEF IsMinded, Minds
    <3>3. CASE e # g
      BY <2>1, <2>2, <3>1, <3>3 DEF IsMinded
    <3>4. QED
      BY <3>2, <3>3
  <2>8. QED
    BY <2>4, <2>5, <2>6, <2>7 DEF AdapterInv
<1>5. CASE Crash
  <2>1. UNCHANGED <<runs, comments>> /\ hs' = [h \in Handlers |-> Idle] /\ faults' = faults + 1
    BY <1>5 DEF Crash, Count
  <2>2. QED
    BY <1>0, <1>i, <2>1 DEF AdapterInv, AdapterTyped, InTurn
<1>6. ASSUME NEW h \in Handlers, NEW j \in Jobs, Claim(h, j)
      PROVE  AdapterInv'
  <2>1. PICK fails \in BOOLEAN : Count(fails) /\ hs' = [hs EXCEPT ![h] = IF fails THEN Idle ELSE Handler(j)]
    BY <1>6 DEF Claim
  <2> DEFINE m == IF fails THEN Idle ELSE Handler(j)
  <2>2. m \in Goroutine /\ m.at \in {"idle", "probe", "find"}
    BY <1>i DEF Handler, Idle, Goroutine
  <2>3. UNCHANGED <<runs, comments>> /\ hs[h] = Idle
    BY <1>6 DEF Claim
  <2> HIDE DEF m
  <2>4. QED
    BY <1>c, <1>g, <1>i, <2>1, <2>2, <2>3 DEF InTurn, Minds, m
\* A goroutine that has no Run, or one it does not follow, and goes to say how its job ended.
<1>s. ASSUME NEW h \in Handlers, NEW at \in {"result", "failout"}, NEW say \in {"success", "failed"}, Says(h, at, say),
             hs[h].at \notin {"follow", "handoff"}, UNCHANGED <<runs, comments>>, faults' \in Nat, faults' = 0 => faults = 0
      PROVE  AdapterInv'
  <2> DEFINE m == [hs[h] EXCEPT !.at = at, !.say = say]
  <2>1. hs' = [hs EXCEPT ![h] = m]
    BY <1>s DEF Says
  <2>2. m \in Goroutine /\ m.at = at
    BY <1>0 DEF Goroutine
  <2> HIDE DEF m
  <2>3. QED
    BY <1>g, <1>s, <2>1, <2>2 DEF InTurn, Minds
<1>7. ASSUME NEW h \in Handlers, Probe(h)
      PROVE  AdapterInv'
  <2>1. UNCHANGED <<runs, comments>> /\ hs[h].at = "probe"
    BY <1>7 DEF Probe, outside, At
  <2>2. PICK fails \in BOOLEAN : Count(fails) /\ (Says(h, "result", "failed")
                                                  \/ \E g \in NextGen : hs' = [hs EXCEPT ![h].at = "start", ![h].gen = g])
    BY <1>7 DEF Probe
  <2>3. ASSUME NEW g \in NextGen, hs' = [hs EXCEPT ![h].at = "start", ![h].gen = g]
        PROVE  AdapterInv'
    <3> DEFINE m == [hs[h] EXCEPT !.at = "start", !.gen = g]
    <3>1. g \in Gens /\ AllBefore(g, runs)
      BY DEF NextGen, Blocked, AllBefore, IsOver, Ended
    <3>2. g \in 0..MaxGen
      BY <1>0, <3>1 DEF Gens
    <3>3. m \in Goroutine /\ m.at = "start" /\ m.gen = g /\ hs' = [hs EXCEPT ![h] = m]
      BY <1>0, <2>3, <3>2 DEF Goroutine
    <3> HIDE DEF m
    <3>4. QED
      BY <1>c, <1>g, <2>1, <2>2, <3>1, <3>3 DEF InTurn, Minds
  <2>4. QED
    BY <1>c, <1>s, <2>1, <2>2, <2>3
<1>8. ASSUME NEW h \in Handlers, StartOrchestrator(h) \/ WaitAdvertised(h)
      PROVE  AdapterInv'
  <2>1. CASE StartOrchestrator(h)
    <3>1. PICK p \in Procs : hs' = [hs EXCEPT ![h].at = "ready", ![h].proc = p]
      BY <2>1 DEF StartOrchestrator
    <3> DEFINE m == [hs[h] EXCEPT !.at = "ready", !.proc = p]
    <3>2. UNCHANGED <<runs, comments, faults>> /\ hs[h].at = "start" /\ hs' = [hs EXCEPT ![h] = m]
      BY <2>1, <3>1 DEF StartOrchestrator, At
    <3>3. m \in Goroutine /\ m.at = "ready" /\ m.gen = hs[h].gen
      BY <1>0 DEF Goroutine
    <3>4. InTurn(hs[h], runs)
      BY <1>0
    <3> HIDE DEF m
    <3>5. QED
      BY <1>0, <1>g, <3>2, <3>3, <3>4 DEF InTurn, Minds
  <2>2. CASE WaitAdvertised(h)
    <3>1. UNCHANGED <<runs, comments>> /\ hs[h].at = "ready"
      BY <2>2 DEF WaitAdvertised, outside, At
    <3>2. CASE Go(h, "submit") /\ UNCHANGED faults
      <4> DEFINE m == [hs[h] EXCEPT !.at = "submit"]
      <4>1. hs' = [hs EXCEPT ![h] = m] /\ m \in Goroutine /\ m.at = "submit" /\ m.gen = hs[h].gen
        BY <1>0, <3>2 DEF Go, Goroutine
      <4>2. InTurn(hs[h], runs)
        BY <1>0
      <4> HIDE DEF m
      <4>3. QED
        BY <1>0, <1>g, <3>1, <3>2, <4>1, <4>2 DEF InTurn, Minds
    <3>3. CASE Says(h, "failout", "failed") /\ faults' \in Nat /\ (faults' = 0 => faults = 0)
      BY <1>s, <3>1, <3>3
    <3>4. QED
      BY <1>c, <2>2, <3>2, <3>3 DEF WaitAdvertised
  <2>3. QED
    BY <1>8, <2>1, <2>2
<1>9. ASSUME NEW h \in Handlers, SubmitRun(h)
      PROVE  AdapterInv'
  <2> DEFINE g == hs[h].gen
  <2>1. UNCHANGED comments /\ hs[h].at = "submit" /\ g \in Gens /\ AllBefore(g, runs)
    BY <1>0, <1>9 DEF SubmitRun, At, InTurn
  <2>2. CASE UNCHANGED runs /\ Says(h, "failout", "failed") /\ Count(TRUE)
    BY <1>c, <1>s, <2>1, <2>2
  <2>3. ASSUME NEW st \in {"running", "failed"}, runs' = Created(g, st),
               \/ Says(h, "failout", "failed") /\ (st = "running" => Count(TRUE))
               \/ Go(h, "follow"),
               faults' \in Nat, faults' = 0 => faults = 0
        PROVE  AdapterInv'
    <3> DEFINE r == IF runs[g].st = "none" THEN [runs[g] EXCEPT !.st = st] ELSE runs[g]
    <3>1. r \in RunRow /\ r.st # "none" /\ (runs[g].st # "none" => r = runs[g]) /\ (runs[g].st = "none" => r.st = st)
      BY <1>0, <2>1 DEF RunRow
    <3>2. runs' = [runs EXCEPT ![g] = r]
      BY <1>0, <2>1, <2>3 DEF Created
    <3> HIDE DEF r
    <3>3. runs' \in [Gens -> RunRow] /\ runs'[g] = r /\ \A e \in Gens \ {g} : runs'[e] = runs[e]
      BY <1>0, <2>1, <3>1, <3>2
    <3>4. RowsGoOn(runs, runs')
      BY <3>1, <3>3 DEF RowsGoOn, IsOver
    <3>5. \A e \in Gens : runs'[e].st # "none" => AllBefore(e, runs')
      BY <1>0, <2>1, <3>3, <3>4, StillBefore
    <3>6. ASSUME NEW at \in {"failout", "follow"}, NEW m \in Goroutine, hs' = [hs EXCEPT ![h] = m], m.at = at, m.gen = g,
                 at = "failout" /\ st = "running" => faults' # 0
          PROVE  AdapterInv'
      <4>1. hs'[h] = m
        BY <1>0, <3>6
      <4>2. InTurn(m, runs')
        BY <2>1, <3>6 DEF InTurn
      <4>3. \A e \in Gens : faults' = 0 /\ runs'[e].st = "running" =>
               Minds(m, e, runs'[e]) \/ (runs'[e] = runs[e] /\ ~Minds(hs[h], e, runs[e]))
        BY <2>1, <3>1, <3>3, <3>6 DEF Minds
      <4> HIDE DEF g
      <4>4. QED
        BY <2>1, <2>3, <3>3, <3>4, <3>5, <3>6, <4>1, <4>2, <4>3, OneGoroutine
    <3>7. CASE Says(h, "failout", "failed") /\ (st = "running" => Count(TRUE))
      <4> DEFINE m == [hs[h] EXCEPT !.at = "failout", !.say = "failed"]
      <4>1. m \in Goroutine /\ m.at = "failout" /\ m.gen = g
        BY <1>0 DEF Goroutine
      <4>2. hs' = [hs EXCEPT ![h] = m] /\ (st = "running" => faults' # 0)
        BY <1>c, <3>7 DEF Says
      <4> HIDE DEF m, g
      <4>3. QED
        BY <3>6, <4>1, <4>2
    <3>8. CASE Go(h, "follow")
      <4> DEFINE m == [hs[h] EXCEPT !.at = "follow"]
      <4>1. m \in Goroutine /\ m.at = "follow" /\ m.gen = g
        BY <1>0 DEF Goroutine
      <4>2. hs' = [hs EXCEPT ![h] = m]
        BY <3>8 DEF Go
      <4> HIDE DEF m, g
      <4>3. QED
        BY <3>6, <4>1, <4>2
    <3>9. QED
      BY <2>3, <3>7, <3>8
  <2>4. QED
    <3>1. \/ \E gone \in BOOLEAN : /\ runs' = Created(g, "running") /\ Count(gone)
                                   /\ IF gone THEN Says(h, "failout", "failed") ELSE Go(h, "follow")
          \/ runs' = Created(g, "failed") /\ Says(h, "failout", "failed") /\ UNCHANGED faults
          \/ UNCHANGED runs /\ Says(h, "failout", "failed") /\ Count(TRUE)
      BY <1>9 DEF SubmitRun
    <3> HIDE DEF g
    <3>2. QED
      BY <1>0, <1>c, <2>2, <2>3, <3>1
<1>10. ASSUME NEW h \in Handlers, Follow(h)
       PROVE  AdapterInv'
  <2> DEFINE g == hs[h].gen
  <2>1. UNCHANGED <<runs, comments, faults>> /\ hs[h].at = "follow"
    BY <1>10 DEF Follow, outside, At
  <2>g. g \in Gens /\ runs[g].asks \in Nat
    BY <1>0, <2>1 DEF InTurn, RunRow
  <2>2. ASSUME NEW m \in Goroutine, hs' = [hs EXCEPT ![h] = m], m.gen = g,
               \/ m.at = "finish" /\ (g \in Gens => runs[g].st # "running")
               \/ m.at = "handoff" /\ runs[g].open /\ m.q = runs[g].asks
        PROVE  AdapterInv'
    <3>1. InTurn(m, runs)
      BY <2>g, <2>2 DEF InTurn
    <3>2. \A e \in Gens : runs[e].st = "running" /\ Minds(hs[h], e, runs[e]) => Minds(m, e, runs[e])
      BY <2>1, <2>2 DEF Minds
    <3> HIDE DEF g
    <3>3. QED
      BY <1>0, <1>g, <2>1, <2>2, <3>1, <3>2
  <2>3. CASE Ended(g) /\ Says(h, "finish", IF runs[g].st = "succeeded" THEN "success" ELSE "failed")
    <3> DEFINE say == IF runs[g].st = "succeeded" THEN "success" ELSE "failed"
               m == [hs[h] EXCEPT !.at = "finish", !.say = say]
    <3>1. say \in {"success", "failed"}
      OBVIOUS
    <3>2. hs' = [hs EXCEPT ![h] = m] /\ runs[g].st # "running"
      BY <2>3 DEF Says, Ended
    <3> HIDE DEF say
    <3>3. m \in Goroutine /\ m.gen = g /\ m.at = "finish"
      BY <1>0, <3>1 DEF Goroutine
    <3> HIDE DEF m, g
    <3>4. QED
      BY <2>2, <3>2, <3>3
  <2>4. CASE Asking(g) /\ hs' = [hs EXCEPT ![h].at = "handoff", ![h].q = runs[g].asks, ![h].say = "success"]
    <3> DEFINE m == [hs[h] EXCEPT !.at = "handoff", !.q = runs[g].asks, !.say = "success"]
    <3>1. hs' = [hs EXCEPT ![h] = m] /\ runs[g].open
      BY <2>4 DEF Asking
    <3>2. m \in Goroutine /\ m.gen = g /\ m.at = "handoff" /\ m.q = runs[g].asks
      BY <1>0, <2>g DEF Goroutine
    <3> HIDE DEF m, g
    <3>3. QED
      BY <2>2, <3>1, <3>2
  <2>5. QED
    BY <1>10, <2>3, <2>4 DEF Follow
<1>11. ASSUME NEW h \in Handlers, HandOff(h) \/ Finish(h)
       PROVE  AdapterInv'
  <2> DEFINE c == IF HandOff(h) THEN <<hs[h].gen, hs[h].q>> ELSE <<hs[h].gen, 0>>
  <2>1. PICK say \in {"none", "success", "failed"}, posted \in BOOLEAN, fails \in BOOLEAN :
            /\ UNCHANGED runs /\ (~posted => fails) /\ Count(fails)
            /\ comments' = IF posted THEN comments \cup {c} ELSE comments
            /\ hs' = [hs EXCEPT ![h].at = "result", ![h].say = say]
    <3>1. hs[h].say \in {"none", "success", "failed"}
      BY <1>0 DEF Goroutine
    <3>2. CASE HandOff(h)
      BY <3>2 DEF HandOff, Post
    <3>3. CASE ~HandOff(h)
      BY <1>11, <3>1, <3>3 DEF Finish, Post
    <3>4. QED
      BY <3>2, <3>3
  <2> DEFINE m == [hs[h] EXCEPT !.at = "result", !.say = say]
  <2>2. m \in Goroutine /\ m.at = "result" /\ hs' = [hs EXCEPT ![h] = m]
    BY <1>0, <2>1 DEF Goroutine
  <2>3. hs[h].at \in {"handoff", "finish"} /\ (hs[h].at = "handoff" => c = <<hs[h].gen, hs[h].q>>)
    BY <1>11 DEF HandOff, Finish, At
  <2>4. faults' \in Nat /\ (faults' = 0 => faults = 0 /\ comments' = comments \cup {c}) /\ comments \subseteq comments'
    BY <1>c, <2>1
  <2> HIDE DEF m, c
  <2>5. \A g \in Gens : faults' = 0 /\ Minds(hs[h], g, runs[g]) => runs[g].open /\ <<g, runs[g].asks>> \in comments'
    BY <2>3, <2>4 DEF Minds
  <2>6. InTurn(m, runs)
    BY <2>2 DEF InTurn
  <2>7. QED
    BY <1>g, <2>1, <2>2, <2>4, <2>5, <2>6
<1>12. ASSUME NEW h \in Handlers, FailOut(h)
       PROVE  AdapterInv'
  <2> DEFINE m == [hs[h] EXCEPT !.at = "result"]
  <2>1. UNCHANGED <<runs, comments, faults>> /\ hs[h].at = "failout" /\ hs' = [hs EXCEPT ![h] = m]
    BY <1>12 DEF FailOut, outside, At, Go
  <2>2. m \in Goroutine /\ m.at = "result"
    BY <1>0 DEF Goroutine
  <2> HIDE DEF m
  <2>3. QED
    BY <1>0, <1>g, <2>1, <2>2 DEF InTurn, Minds
<1>13. ASSUME NEW h \in Handlers, Result(h)
       PROVE  AdapterInv'
  <2> DEFINE m == [hs[h] EXCEPT !.at = "leave"]
  <2>1. UNCHANGED <<runs, comments>> /\ hs[h].at = "result" /\ hs' = [hs EXCEPT ![h] = m] /\ \E fails \in BOOLEAN : Count(fails)
    BY <1>13 DEF Result, At, Go
  <2>2. m \in Goroutine /\ m.at = "leave"
    BY <1>0 DEF Goroutine
  <2> HIDE DEF m
  <2>3. QED
    BY <1>c, <1>g, <2>1, <2>2 DEF InTurn, Minds
<1>l. ASSUME NEW h \in Handlers, Leave(h)
      PROVE  AdapterInv'
  <2>1. UNCHANGED <<runs, comments, faults>> /\ hs[h].at = "leave" /\ hs' = [hs EXCEPT ![h] = Idle]
    BY <1>l DEF Leave, At
  <2>2. QED
    BY <1>0, <1>g, <1>i, <2>1 DEF InTurn, Minds
<1>14. ASSUME NEW h \in Handlers, Find(h) \/ FindFails(h) \/ Report(h) \/ NothingToReport(h) \/ Unreadable(h)
       PROVE  AdapterInv'
  <2>1. UNCHANGED <<runs, comments>> /\ hs[h].at \in {"find", "latest", "answer"} /\ faults' \in Nat /\ (faults' = 0 => faults = 0)
    BY <1>0, <1>14, <1>c DEF Find, FindFails, Report, NothingToReport, Unreadable, outside, At
  <2>2. \/ \E g \in Gens : hs' = [hs EXCEPT ![h].at = "answer", ![h].gen = g]
        \/ \E g \in Gens, say \in {"success", "failed"} : hs' = [hs EXCEPT ![h].at = "finish", ![h].gen = g, ![h].say = say]
        \/ Says(h, "result", "success")
        \/ Go(h, "latest")
    BY <1>14 DEF Find, FindFails, Report, NothingToReport, Unreadable, AskingGens
  <2>3. Gens \subseteq 0..MaxGen
    BY <1>0 DEF Gens
  <2>4. ASSUME NEW m \in Goroutine, hs' = [hs EXCEPT ![h] = m], m.at \in {"answer", "finish"}, m.gen \in Gens
        PROVE  AdapterInv'
    BY <1>g, <2>1, <2>4 DEF InTurn, Minds
  <2>5. ASSUME NEW g \in Gens, hs' = [hs EXCEPT ![h].at = "answer", ![h].gen = g]
        PROVE  AdapterInv'
    <3> DEFINE m == [hs[h] EXCEPT !.at = "answer", !.gen = g]
    <3>1. m \in Goroutine /\ m.at = "answer" /\ m.gen \in Gens /\ hs' = [hs EXCEPT ![h] = m]
      BY <1>0, <2>3, <2>5 DEF Goroutine
    <3> HIDE DEF m
    <3>2. QED
      BY <2>4, <3>1
  <2>6. ASSUME NEW g \in Gens, NEW say \in {"success", "failed"}, hs' = [hs EXCEPT ![h].at = "finish", ![h].gen = g, ![h].say = say]
        PROVE  AdapterInv'
    <3> DEFINE m == [hs[h] EXCEPT !.at = "finish", !.gen = g, !.say = say]
    <3>1. m \in Goroutine /\ m.at = "finish" /\ m.gen \in Gens /\ hs' = [hs EXCEPT ![h] = m]
      BY <1>0, <2>3, <2>6 DEF Goroutine
    <3> HIDE DEF m
    <3>2. QED
      BY <2>4, <3>1
  <2>7. CASE Go(h, "latest")
    <3> DEFINE m == [hs[h] EXCEPT !.at = "latest"]
    <3>1. m \in Goroutine /\ m.at = "latest" /\ hs' = [hs EXCEPT ![h] = m]
      BY <1>0, <2>7 DEF Goroutine, Go
    <3> HIDE DEF m
    <3>2. QED
      BY <1>g, <2>1, <3>1 DEF InTurn, Minds
  <2>8. QED
    BY <1>s, <2>1, <2>2, <2>5, <2>6, <2>7
<1>15. ASSUME NEW h \in Handlers, Answer(h)
       PROVE  AdapterInv'
  <2> DEFINE g == hs[h].gen
  <2>1. UNCHANGED comments /\ hs[h].at = "answer"
    BY <1>15 DEF Answer, At
  <2>2. CASE ~Asking(g)
    BY <1>0, <1>15, <1>s, <2>1, <2>2 DEF Answer
  <2>3. CASE Asking(g)
    <3>1. PICK fails \in BOOLEAN : Count(fails) /\ runs' = [runs EXCEPT ![g].open = FALSE]
                                   /\ IF fails THEN Says(h, "result", "failed") ELSE Go(h, "follow")
      BY <1>15, <2>3 DEF Answer
    <3> DEFINE r == [runs[g] EXCEPT !.open = FALSE]
    <3>2. g \in Gens /\ runs' = [runs EXCEPT ![g] = r] /\ r \in RunRow /\ r.st = runs[g].st /\ runs[g].st = "running"
      BY <1>0, <2>1, <2>3, <3>1 DEF InTurn, RunRow, Asking, Live
    <3> HIDE DEF r
    <3>3. runs' \in [Gens -> RunRow] /\ runs'[g] = r /\ \A e \in Gens \ {g} : runs'[e] = runs[e]
      BY <1>0, <3>2
    <3>4. RowsGoOn(runs, runs')
      BY <3>2, <3>3 DEF RowsGoOn, IsOver
    <3>5. \A e \in Gens : runs'[e].st # "none" => AllBefore(e, runs')
      BY <1>0, <3>2, <3>3, <3>4, StillBefore
    <3>6. faults' \in Nat /\ (faults' = 0 => faults = 0 /\ ~fails)
      BY <1>c, <3>1
    <3> DEFINE m == IF fails THEN [hs[h] EXCEPT !.at = "result", !.say = "failed"] ELSE [hs[h] EXCEPT !.at = "follow"]
    <3>7. m \in Goroutine /\ m.at \in {"result", "follow"} /\ m.gen = g /\ (~fails => m.at = "follow")
      BY <1>0 DEF Goroutine
    <3>8. hs' = [hs EXCEPT ![h] = m]
      BY <3>1 DEF Says, Go
    <3> HIDE DEF m
    <3>9. hs'[h] = m
      BY <1>0, <3>8
    <3>10. InTurn(m, runs')
      BY <3>2, <3>7 DEF InTurn
    <3>11. \A e \in Gens : faults' = 0 =>
              Minds(m, e, runs'[e]) \/ (runs'[e] = runs[e] /\ ~Minds(hs[h], e, runs[e]))
      BY <2>1, <3>3, <3>6, <3>7 DEF Minds
    <3> HIDE DEF g
    <3>12. QED
      BY <2>1, <3>3, <3>4, <3>5, <3>6, <3>7, <3>8, <3>9, <3>10, <3>11, OneGoroutine
  <2>4. QED
    BY <2>2, <2>3
<1>16. QED
  BY <1>2, <1>3, <1>4, <1>5, <1>6, <1>7, <1>8, <1>9, <1>10, <1>11, <1>12, <1>13, <1>l, <1>14, <1>15 DEF Next, Steps, NewWork

LEMMA AdapterHolds == Spec => []AdapterInv
<1>1. AdapterInv /\ [Next]_vars => AdapterInv'
  <2>1. SUFFICES ASSUME AdapterInv, UNCHANGED vars
                 PROVE  AdapterInv'
    BY AdapterGoesOn
  <2>2. QED
    BY <2>1 DEF vars, AdapterInv, AdapterTyped, IsMinded
<1>2. QED
  BY <1>1, AdapterStarts, PTL DEF Spec

\* nextRunID: whichever jobs of an issue are handled at a time, and whatever calls fail or are gone, the
\* issue has one Run open at most.
THEOREM OneRunIsOpen == Spec => []OneOpenRun
<1>1. AdapterInv => OneOpenRun
  <2> SUFFICES ASSUME AdapterInv, NEW g \in Gens, NEW e \in Gens, Live(g), Live(e), g # e
               PROVE  FALSE
    BY DEF OneOpenRun
  <2>1. g \in 1..(e - 1) \/ e \in 1..(g - 1)
    BY GenerationsAreCounted DEF Gens
  <2>2. AllBefore(g, runs) /\ AllBefore(e, runs)
    BY DEF AdapterInv, Live
  <2>3. QED
    BY <2>1, <2>2 DEF AllBefore, IsOver, Live
<1>2. QED
  BY <1>1, AdapterHolds, PTL

\* follow, handOff, handleAnswer: as long as no call fails and the adapter does not die, a Run that is open
\* is followed, or its question stands on the issue.
THEOREM AllAreMinded == Spec => []NobodyIsForgotten
<1>1. AdapterInv => NobodyIsForgotten
  BY DEF AdapterInv, NobodyIsForgotten, IsMinded, Minds, Follows, Live, Asking
<1>2. QED
  BY <1>1, AdapterHolds, PTL

-----------------------------------------------------------------------------
(* LowerIdentity: the state of a lower is not taken for that of another.    *)

Births == Nat \ {0}
Records == {Nobody, Broken} \cup Births
State == [phase : {"committed", "building", "pending", "merging"}, of : Nat, last : Nat]
Reader == [pc : {"down", "opening", "phase", "verdict", "last", "clear", "open", "building", "pending", "merging"},
           birth : Nat, recorded : Records, state : State]

IdentityTyped ==
    /\ lower \in [birth : Births, half : BOOLEAN]
    /\ place \in {"absent", "ok", "loose", "foreign"}
    /\ recorded \in Records /\ recorded <= lower.birth
    /\ state \in State
    /\ node \in [Nodes -> Reader]
    /\ lost \in BOOLEAN

\* The state st is of the lower b: it is of no bake, or of one of b.
OfLower(st, b) == st.phase = "committed" \/ st.of = b

Baker == {"building", "pending", "merging"}

\* What a node n that is up, at m, may rely on, with a lower of birth b and what there is: u: its state
\* can be used, told: by lower.json, st: the state, lock: the bake lock.
\* A node reads lower.json and the phase at different times: what it has read lets it go on only if the
\* state is of the lower, and stays so.
Sound(n, m, b, u, told, st, lock) ==
    /\ m.pc # "down" => m.birth = b /\ u
    /\ m.pc = "phase" => m.recorded \notin {Nobody, Broken, b}
    /\ m.pc = "verdict" => m.recorded # Broken
    /\ m.pc = "verdict" /\ (m.recorded \in {Nobody, b} \/ m.state.phase = "committed") => OfLower(st, b)
    /\ m.pc = "verdict" /\ m.recorded = b => told = b
    /\ m.pc \in {"last", "clear", "open"} \cup Baker => told = b
    /\ m.pc = "clear" => OfLower(m.state, b)
    /\ m.pc \in Baker => lock = n /\ st.phase = m.pc

SoundNow(n) == Sound(n, node[n], lower.birth, Usable, recorded, state, bakeLock)

IdentityInv ==
    /\ IdentityTyped
    /\ \A n \in Nodes : SoundNow(n)
    /\ recorded = Nobody => state.phase = "committed"
    /\ recorded = lower.birth => OfLower(state, lower.birth)
    /\ lower.half => recorded = lower.birth /\ Usable
    /\ lower.half /\ ~lost => state.phase = "merging"

LEMMA IdentityStarts == IdentityInit => IdentityInv
<1>1. SUFFICES ASSUME IdentityInit
               PROVE  IdentityInv
  OBVIOUS
<1>2. Committed \in State /\ Committed.phase = "committed" /\ CommittedAfter(1) \in State /\ CommittedAfter(1).phase = "committed"
  BY DEF Committed, CommittedAfter, State, Nobody
<1>3. Down \in Reader /\ Down.pc = "down"
  BY <1>2 DEF Down, Anew, Reader, Records, Nobody
<1>4. \A p \in {"building", "pending", "merging"} : [phase |-> p, of |-> 1, last |-> Nobody] \in State
  BY DEF State, Nobody
<1>5. state \in State /\ (recorded # 1 => state.phase = "committed")
  BY <1>1, <1>2, <1>4 DEF IdentityInit
<1>6. recorded \in {Broken, Nobody, 1, 2} /\ lower = [birth |-> 2, half |-> FALSE]
  BY <1>1 DEF IdentityInit
<1>a. recorded \in Records /\ recorded <= lower.birth /\ lower \in [birth : Births, half : BOOLEAN]
  BY <1>6 DEF Records, Births, Nobody, Broken
<1>7. IdentityTyped
  BY <1>1, <1>3, <1>5, <1>a DEF IdentityInit, IdentityTyped
<1>8. \A n \in Nodes : SoundNow(n)
  BY <1>1, <1>3 DEF IdentityInit, SoundNow, Sound, Baker
<1>9. QED
  BY <1>5, <1>6, <1>7, <1>8 DEF IdentityInv, OfLower, Nobody

\* A step of one node that leaves the directory at the path as it is.
LEMMA OneNodeMoves ==
    ASSUME IdentityInv, NEW n \in Nodes, node' = [node EXCEPT ![n] = node'[n]], node'[n] \in Reader, SoundNow(n)',
           lower' \in [birth : Births, half : BOOLEAN], lower'.birth = lower.birth,
           place' \in {"absent", "ok", "loose", "foreign"}, Usable => Usable', state' \in State, lost' \in BOOLEAN,
           recorded' = recorded \/ recorded' = lower.birth,
           OfLower(state, lower.birth) => OfLower(state', lower.birth),
           recorded' = lower.birth => OfLower(state', lower.birth),
           recorded' = Nobody => state'.phase = "committed",
           lost => lost',
           \A k \in Nodes \ {n} : node[k].pc \in Baker => bakeLock' = bakeLock /\ state'.phase = state.phase,
           lower'.half => recorded' = lower.birth /\ Usable',
           lower'.half /\ ~lost' => state'.phase = "merging"
    PROVE  IdentityInv'
<1>1. IdentityTyped /\ \A k \in Nodes : SoundNow(k)
  BY DEF IdentityInv
<1>2. node' \in [Nodes -> Reader]
  BY <1>1 DEF IdentityTyped
<1>3. recorded' \in Records /\ recorded' <= lower'.birth
  BY <1>1 DEF IdentityTyped, Records, Births
<1>4. IdentityTyped'
  BY <1>2, <1>3 DEF IdentityTyped
<1>5. ASSUME NEW k \in Nodes
      PROVE  SoundNow(k)'
  <2>1. CASE k = n
    BY <2>1
  <2>2. CASE k # n
    <3>1. node'[k] = node[k] /\ SoundNow(k)
      BY <1>1, <2>2 DEF IdentityTyped
    <3>2. node[k].pc \in Baker => bakeLock' = bakeLock /\ state'.phase = state.phase
      BY <2>2
    <3>3. QED
      BY <3>1, <3>2 DEF SoundNow, Sound, Baker
  <2>3. QED
    BY <2>1, <2>2
<1>6. QED
  BY <1>4, <1>5 DEF IdentityInv

LEMMA IdentityMoves ==
    ASSUME IdentityInv, IdentityNext
    PROVE  IdentityInv'
<1>0. /\ IdentityTyped /\ \A k \in Nodes : SoundNow(k) /\ node[k] \in Reader
      /\ lower \in [birth : Births, half : BOOLEAN] /\ recorded \in Records /\ recorded <= lower.birth
      /\ place \in {"absent", "ok", "loose", "foreign"} /\ state \in State /\ lost \in BOOLEAN
      /\ lower.birth \in Births /\ lower.half \in BOOLEAN
      /\ recorded = Nobody => state.phase = "committed"
      /\ recorded = lower.birth => OfLower(state, lower.birth)
      /\ lower.half => recorded = lower.birth /\ Usable
      /\ lower.half /\ ~lost => state.phase = "merging"
  BY DEF IdentityInv, IdentityTyped
<1>c. Committed \in State /\ Committed.phase = "committed"
  BY DEF Committed, CommittedAfter, State, Nobody
<1>n. ASSUME NEW k \in Nodes
      PROVE  k # NoNode
  BY NoNodeIsNone
\* A node that only reads, opens or stops.
<1>r. ASSUME NEW n \in Nodes, NEW m \in Reader, node' = [node EXCEPT ![n] = m], UNCHANGED <<lower, recorded, state, bakeLock, lost>>,
             place' = place \/ (place' = "ok" /\ Usable), Sound(n, m, lower.birth, Usable, recorded, state, bakeLock)
      PROVE  IdentityInv'
  <2>1. Usable' = Usable
    BY <1>r DEF Usable
  <2>2. place' \in {"absent", "ok", "loose", "foreign"}
    BY <1>0, <1>r
  <2>3. node'[n] = m
    BY <1>0, <1>r DEF IdentityTyped
  <2>4. SoundNow(n)'
    BY <1>r, <2>1, <2>3 DEF SoundNow
  <2>5. QED
    BY <1>0, <1>r, <2>1, <2>2, <2>3, <2>4, OneNodeMoves
<1>1. ASSUME NEW n \in Nodes, Start(n)
      PROVE  IdentityInv'
  <2> DEFINE m == Anew("opening", lower.birth)
  <2>1. m \in Reader /\ m.pc = "opening" /\ m.birth = lower.birth
    BY <1>0, <1>c DEF Anew, Reader, Records, Births
  <2>2. node' = [node EXCEPT ![n] = m] /\ UNCHANGED <<lower, recorded, state, bakeLock, lost, place>> /\ Usable
    BY <1>1 DEF Start
  <2> HIDE DEF m
  <2>3. Sound(n, m, lower.birth, Usable, recorded, state, bakeLock)
    BY <2>1, <2>2 DEF Sound, Baker
  <2>4. QED
    BY <1>r, <2>1, <2>2, <2>3
<1>2. ASSUME NEW n \in Nodes, ReadIdentity(n)
      PROVE  IdentityInv'
  <2>1. UNCHANGED <<lower, recorded, state, bakeLock, lost>> /\ place' = "ok" /\ Usable /\ node[n].pc = "opening"
    BY <1>2 DEF ReadIdentity, NodeAt
  <2>2. node[n].birth = lower.birth /\ node[n] \in Reader
    BY <1>0, <2>1 DEF SoundNow, Sound
  <2>3. CASE recorded = Broken
    <3>1. node' = [node EXCEPT ![n] = node[n]]
      BY <1>0, <1>2, <2>3 DEF ReadIdentity, IdentityTyped
    <3>2. Sound(n, node[n], lower.birth, Usable, recorded, state, bakeLock)
      BY <1>0 DEF SoundNow
    <3>3. QED
      BY <1>r, <2>1, <2>2, <3>1, <3>2
  <2>4. CASE recorded # Broken
    <3> DEFINE to == IF recorded \in {Nobody, node[n].birth} THEN "verdict" ELSE "phase"
               m == [node[n] EXCEPT !.recorded = recorded, !.pc = to]
    <3>1. node' = [node EXCEPT ![n] = m]
      BY <1>0, <1>2, <2>4 DEF ReadIdentity, IdentityTyped
    <3>2. m \in Reader /\ m.pc = to /\ m.recorded = recorded /\ m.birth = lower.birth /\ to \in {"verdict", "phase"}
          /\ m.state = node[n].state
      BY <1>0, <2>2 DEF Reader
    <3>3. to = "verdict" <=> recorded \in {Nobody, lower.birth}
      BY <2>2
    <3> HIDE DEF m, to
    <3>4. to = "verdict" => OfLower(state, lower.birth)
      BY <1>0, <3>3 DEF OfLower
    <3>5. Sound(n, m, lower.birth, Usable, recorded, state, bakeLock)
      BY <2>1, <2>4, <3>2, <3>3, <3>4 DEF Sound, Baker
    <3>6. QED
      BY <1>r, <2>1, <3>1, <3>2, <3>5
  <2>5. QED
    BY <2>3, <2>4
<1>3. ASSUME NEW n \in Nodes, ReadPhase(n)
      PROVE  IdentityInv'
  <2> DEFINE m == [node[n] EXCEPT !.state = state, !.pc = "verdict"]
  <2>1. UNCHANGED <<lower, recorded, state, bakeLock, lost, place>> /\ node[n].pc = "phase" /\ node' = [node EXCEPT ![n] = m]
    BY <1>3 DEF ReadPhase, NodeAt
  <2>2. m \in Reader /\ m.pc = "verdict" /\ m.state = state /\ m.birth = node[n].birth /\ m.recorded = node[n].recorded
    BY <1>0 DEF Reader
  <2>3. node[n].birth = lower.birth /\ Usable /\ node[n].recorded \notin {Nobody, Broken, lower.birth}
    BY <1>0, <2>1 DEF SoundNow, Sound
  <2> HIDE DEF m
  <2>4. Sound(n, m, lower.birth, Usable, recorded, state, bakeLock)
    BY <2>1, <2>2, <2>3 DEF Sound, Baker, OfLower
  <2>5. QED
    BY <1>r, <2>1, <2>2, <2>4
<1>4. ASSUME NEW n \in Nodes, Stop(n) \/ NodeDies(n)
      PROVE  IdentityInv'
  <2>1. Down \in Reader /\ Down.pc = "down"
    BY <1>c DEF Down, Anew, Reader, Records, Nobody
  <2>2. node' = [node EXCEPT ![n] = Down] /\ node'[n] = Down /\ UNCHANGED <<lower, place, recorded, state, lost>> /\ Usable' = Usable
    BY <1>0, <1>4 DEF Stop, NodeDies, IdentityTyped, Usable
  <2>3. SoundNow(n)'
    BY <2>1, <2>2 DEF SoundNow, Sound, Baker
  <2>4. \A k \in Nodes \ {n} : node[k].pc \in Baker => bakeLock' = bakeLock
    BY <1>0, <1>4 DEF Stop, NodeDies, SoundNow, Sound
  <2>5. QED
    BY <1>0, <2>1, <2>2, <2>3, <2>4, OneNodeMoves
\* A step that leaves the node at a place where lower.json is of the lower.
<1>o. ASSUME NEW n \in Nodes, NEW m \in Reader, node' = [node EXCEPT ![n] = m], UNCHANGED <<place, lost>>, Usable,
             m.birth = lower.birth, m.pc \in {"last", "clear", "open"} \cup Baker, m.pc = "clear" => OfLower(m.state, lower.birth),
             m.pc \in Baker => bakeLock' = n /\ state'.phase = m.pc,
             recorded' = lower.birth, lower' \in [birth : Births, half : BOOLEAN], lower'.birth = lower.birth, state' \in State,
             OfLower(state', lower.birth),
             \A k \in Nodes \ {n} : node[k].pc \in Baker => bakeLock' = bakeLock /\ state'.phase = state.phase,
             lower'.half /\ ~lost => state'.phase = "merging"
      PROVE  IdentityInv'
  <2>1. Usable' = Usable
    BY <1>o DEF Usable
  <2>2. node'[n] = m
    BY <1>0, <1>o DEF IdentityTyped
  <2>3. SoundNow(n)'
    BY <1>o, <2>1, <2>2 DEF SoundNow, Sound, Baker
  <2>4. lower.birth # Nobody
    BY <1>0 DEF Births, Nobody
  <2>5. QED
    BY <1>0, <1>o, <2>1, <2>2, <2>3, <2>4, OneNodeMoves
<1>5. ASSUME NEW n \in Nodes, Record(n)
      PROVE  IdentityInv'
  <2> DEFINE me == node[n]
             verdict == Verdict(me.recorded, me.birth, me.state.phase)
  <2>1. UNCHANGED <<lower, place, state, bakeLock, lost>> /\ me.pc = "verdict" /\ me \in Reader
    BY <1>0, <1>5 DEF Record, NodeAt
  <2>2. SoundNow(n) /\ me.birth = lower.birth /\ Usable /\ me.recorded # Broken
    BY <1>0, <2>1 DEF SoundNow, Sound
  <2>3. \A to \in {"open", "last", "opening"} :
           /\ [me EXCEPT !.pc = to] \in Reader /\ [me EXCEPT !.pc = to].pc = to /\ [me EXCEPT !.pc = to].birth = lower.birth
    BY <2>1, <2>2 DEF Reader
  <2>4. verdict \in {"new", "match", "reused", "foreign"}
    BY <2>2 DEF Verdict
  <2>5. verdict # "foreign" => OfLower(state, lower.birth)
    BY <2>1, <2>2 DEF Verdict, SoundNow, Sound
  <2>6. \/ verdict # "foreign" /\ recorded' = lower.birth /\ (GoTo(n, "open") \/ GoTo(n, "last"))
        \/ UNCHANGED recorded /\ GoTo(n, "opening")
    <3>1. CASE verdict = "match"
      BY <1>5, <2>1, <2>2, <3>1 DEF Record, Verdict, SoundNow, Sound
    <3>2. CASE verdict = "new"
      BY <1>5, <2>2, <3>2 DEF Record
    <3>3. CASE verdict = "reused"
      BY <1>5, <2>2, <3>3 DEF Record
    <3>4. CASE verdict = "foreign"
      BY <1>5, <2>2, <3>4 DEF Record
    <3>5. QED
      BY <2>4, <3>1, <3>2, <3>3, <3>4
  <2>7. \A to \in {"open", "last", "opening"} : GoTo(n, to) => node' = [node EXCEPT ![n] = [me EXCEPT !.pc = to]]
    BY DEF GoTo
  <2>8. CASE UNCHANGED recorded /\ GoTo(n, "opening")
    <3> DEFINE m == [me EXCEPT !.pc = "opening"]
    <3>1. m \in Reader /\ m.pc = "opening" /\ m.birth = lower.birth /\ node' = [node EXCEPT ![n] = m]
      BY <2>3, <2>7, <2>8
    <3> HIDE DEF m, me, verdict
    <3>2. Sound(n, m, lower.birth, Usable, recorded, state, bakeLock)
      BY <2>2, <3>1 DEF Sound, Baker
    <3>3. QED
      BY <1>r, <2>1, <2>8, <3>1, <3>2
  <2>9. ASSUME NEW to \in {"open", "last"}, verdict # "foreign", recorded' = lower.birth, GoTo(n, to)
        PROVE  IdentityInv'
    <3> DEFINE m == [me EXCEPT !.pc = to]
    <3>1. m \in Reader /\ m.pc = to /\ m.birth = lower.birth /\ node' = [node EXCEPT ![n] = m]
      BY <2>3, <2>7, <2>9
    <3> HIDE DEF m, me, verdict
    <3>2. m.pc \notin Baker /\ m.pc # "clear" /\ m.pc \in {"last", "clear", "open"} \cup Baker
      BY <3>1 DEF Baker
    <3>3. QED
      BY <1>0, <1>o, <2>1, <2>2, <2>5, <2>9, <3>1, <3>2
  <2>10. QED
    BY <2>6, <2>8, <2>9
<1>6. ASSUME NEW n \in Nodes, ReadLast(n)
      PROVE  IdentityInv'
  <2> DEFINE to == IF state.last = Nobody THEN "open" ELSE "clear"
             m == [node[n] EXCEPT !.state = state, !.pc = to]
  <2>1. UNCHANGED <<lower, place, recorded, state, bakeLock, lost>> /\ node[n].pc = "last" /\ node' = [node EXCEPT ![n] = m]
    BY <1>6 DEF ReadLast, NodeAt
  <2>2. node[n].birth = lower.birth /\ Usable /\ recorded = lower.birth
    BY <1>0, <2>1 DEF SoundNow, Sound
  <2>3. m \in Reader /\ m.pc \in {"open", "clear"} /\ m.state = state /\ m.birth = lower.birth
    BY <1>0, <2>2 DEF Reader
  <2> HIDE DEF m
  <2>4. QED
    BY <1>0, <1>o, <2>1, <2>2, <2>3 DEF Baker
\* The state is written as it was read, unless somebody bakes.
<1>7. ASSUME NEW n \in Nodes, ClearLastAttempt(n)
      PROVE  IdentityInv'
  <2> DEFINE me == node[n]
             m == [me EXCEPT !.pc = "open"]
  <2>1. UNCHANGED <<lower, place, recorded, bakeLock>> /\ me.pc = "clear" /\ node' = [node EXCEPT ![n] = m] /\ Clear(n)
    BY <1>7 DEF ClearLastAttempt, NodeAt, GoTo
  <2>2. me.birth = lower.birth /\ Usable /\ recorded = lower.birth /\ OfLower(me.state, lower.birth) /\ me \in Reader
    BY <1>0, <2>1 DEF SoundNow, Sound
  <2>3. m \in Reader /\ m.pc = "open" /\ m.birth = lower.birth
    BY <2>2 DEF Reader
  <2>4. node'[n] = m /\ Usable' = Usable
    BY <1>0, <2>1 DEF IdentityTyped, Usable
  <2> HIDE DEF m
  <2>5. SoundNow(n)'
    BY <2>1, <2>2, <2>3, <2>4 DEF SoundNow, Sound, Baker
  <2>6. CASE bakeLock # NoNode
    <3>1. UNCHANGED <<state, lost>>
      BY <2>1, <2>6 DEF Clear
    <3>2. QED
      BY <1>0, <2>1, <2>3, <2>4, <2>5, <3>1, OneNodeMoves
  <2>7. CASE bakeLock = NoNode
    <3> DEFINE st == [me.state EXCEPT !.last = Nobody]
    <3>1. state' = st /\ lost' = (lost \/ state # me.state)
      BY <2>1, <2>7 DEF Clear
    <3>2. st \in State /\ st.phase = me.state.phase /\ st.of = me.state.of
      BY <2>2 DEF Reader, State, Nobody
    <3>3. \A k \in Nodes : node[k].pc \notin Baker
      BY <1>0, <1>n, <2>7 DEF SoundNow, Sound
    <3> HIDE DEF st, me
    <3>4. OfLower(state', lower.birth) /\ lost' \in BOOLEAN /\ (lost => lost') /\ (~lost' => ~lost /\ state'.phase = state.phase)
      BY <1>0, <2>2, <3>1, <3>2 DEF OfLower
    <3>5. lower.birth # Nobody
      BY <1>0 DEF Births, Nobody
    <3>6. QED
      BY <1>0, <2>1, <2>2, <2>3, <2>4, <2>5, <3>1, <3>2, <3>3, <3>4, <3>5, OneNodeMoves
  <2>8. QED
    BY <2>6, <2>7
\* A node that bakes has the lock, and until then what it finds is cleaned.
<1>8. ASSUME NEW n \in Nodes, Baking(n)
      PROVE  IdentityInv'
  <2> DEFINE me == node[n]
             to(at) == [me EXCEPT !.pc = at]
  <2>1. UNCHANGED <<place, recorded, lost>> /\ me \in Reader /\ me.pc \in {"open"} \cup Baker
    BY <1>0, <1>8 DEF Baking, Clean, Build, KeepUpper, Abandon, Merge, Merged, NodeAt, Baker
  <2>2. me.birth = lower.birth /\ Usable /\ recorded = lower.birth /\ OfLower(state, lower.birth)
        /\ (me.pc \in Baker => bakeLock = n /\ state.phase = me.pc)
    BY <1>0, <2>1 DEF SoundNow, Sound, Baker
  <2>3. \A at \in {"open"} \cup Baker : to(at) \in Reader /\ to(at).pc = at /\ to(at).birth = lower.birth
    BY <2>1, <2>2 DEF Reader, Baker
  <2>4. \A at \in {"open"} \cup Baker : GoTo(n, at) => node' = [node EXCEPT ![n] = to(at)]
    BY DEF GoTo
  <2>5. node' = node => node' = [node EXCEPT ![n] = me]
    BY <1>0 DEF IdentityTyped
  <2>6. \A k \in Nodes \ {n} : node[k].pc \in Baker => bakeLock # NoNode /\ bakeLock # n
    BY <1>0, <1>n DEF SoundNow, Sound
  <2>7. lower.birth \in Nat /\ state.of \in Nat /\ state.last \in Nat
    BY <1>0 DEF Births, State
  <2>8. \A b \in Nat : CommittedAfter(b) \in State /\ CommittedAfter(b).phase = "committed"
    BY DEF CommittedAfter, State, Nobody
  <2>9. ASSUME NEW at \in {"open"} \cup Baker, GoTo(n, at), at \in Baker => bakeLock' = n /\ state'.phase = at,
               lower' \in [birth : Births, half : BOOLEAN], lower'.birth = lower.birth, state' \in State, OfLower(state', lower.birth),
               \A k \in Nodes \ {n} : node[k].pc \in Baker => bakeLock' = bakeLock /\ state'.phase = state.phase,
               lower'.half /\ ~lost => state'.phase = "merging"
        PROVE  IdentityInv'
    <3> DEFINE m == to(at)
    <3>1. m \in Reader /\ m.pc = at /\ m.birth = lower.birth /\ node' = [node EXCEPT ![n] = m]
      BY <2>3, <2>4, <2>9
    <3> HIDE DEF m, me, to
    <3>2. m.pc # "clear" /\ m.pc \in {"last", "clear", "open"} \cup Baker
      BY <3>1 DEF Baker
    <3>3. QED
      BY <1>o, <2>1, <2>2, <2>9, <3>1, <3>2
  <2>10. CASE Clean(n)
    <3>1. UNCHANGED <<lower, bakeLock, node>> /\ state' = CommittedAfter(state.of) /\ state.phase # "merging" /\ bakeLock = NoNode /\ me.pc = "open"
      BY <2>10 DEF Clean, Cleaned, Stale, NodeAt
    <3>2. QED
      BY <1>0, <1>o, <2>1, <2>2, <2>5, <2>6, <2>7, <2>8, <3>1 DEF OfLower, Baker
  <2>11. CASE Build(n)
    <3> DEFINE st == [Cleaned EXCEPT !.phase = "building", !.of = lower.birth]
    <3>1. UNCHANGED lower /\ bakeLock = NoNode /\ bakeLock' = n /\ state.phase # "merging" /\ GoTo(n, "building") /\ state' = st
      BY <2>11 DEF Build
    <3>2. Cleaned \in State
      BY <1>0, <2>7, <2>8 DEF Cleaned
    <3>3. st \in State /\ st.phase = "building" /\ st.of = lower.birth
      BY <2>7, <3>2 DEF State
    <3> HIDE DEF st
    <3>4. QED
      BY <1>0, <2>6, <2>9, <3>1, <3>3 DEF OfLower, Baker
  <2>12. CASE KeepUpper(n)
    <3> DEFINE st == [state EXCEPT !.phase = "pending"]
    <3>1. UNCHANGED <<lower, bakeLock>> /\ me.pc = "building" /\ GoTo(n, "pending") /\ state' = st
      BY <2>12 DEF KeepUpper, NodeAt
    <3>2. st \in State /\ st.phase = "pending" /\ st.of = state.of
      BY <1>0 DEF State
    <3> HIDE DEF st
    <3>3. QED
      BY <1>0, <2>2, <2>6, <2>9, <3>1, <3>2 DEF OfLower, Baker
  <2>13. CASE Abandon(n)
    <3>1. UNCHANGED lower /\ me.pc \in {"building", "pending"} /\ GoTo(n, "open") /\ state' = CommittedAfter(lower.birth)
      BY <2>13 DEF Abandon
    <3>2. QED
      BY <1>0, <2>2, <2>6, <2>7, <2>8, <2>9, <3>1 DEF OfLower, Baker
  <2>14. CASE Merge(n)
    <3> DEFINE st == [state EXCEPT !.phase = "merging"]
               lw == [lower EXCEPT !.half = TRUE]
    <3>0. state.phase = "merging" => st = state
      BY <1>0 DEF State
    <3>1. GoTo(n, "merging") /\ bakeLock' = n /\ state' = st /\ lower' = lw
          /\ (me.pc = "pending" \/ (state.phase = "merging" /\ bakeLock = NoNode))
      <4>1. \/ me.pc = "pending" /\ state' = st /\ UNCHANGED bakeLock
            \/ me.pc = "open" /\ bakeLock = NoNode /\ state.phase = "merging" /\ bakeLock' = n /\ UNCHANGED state
        BY <2>14 DEF Merge, NodeAt
      <4>2. GoTo(n, "merging") /\ lower' = lw
        BY <2>14 DEF Merge
      <4> HIDE DEF st, lw
      <4>3. bakeLock' = n
        BY <2>2, <4>1 DEF Baker
      <4>4. state' = st
        BY <3>0, <4>1
      <4>5. QED
        BY <4>1, <4>2, <4>3, <4>4
    <3>2. st \in State /\ st.phase = "merging" /\ st.of = state.of
      BY <1>0 DEF State
    <3>3. lw \in [birth : Births, half : BOOLEAN] /\ lw.birth = lower.birth
      BY <1>0
    <3> HIDE DEF st, lw
    <3>4. QED
      BY <1>0, <2>2, <2>6, <2>9, <3>1, <3>2, <3>3 DEF OfLower, Baker
  <2>15. CASE Merged(n)
    <3> DEFINE lw == [lower EXCEPT !.half = FALSE]
    <3>1. GoTo(n, "open") /\ me.pc = "merging" /\ state' = Committed /\ lower' = lw
      BY <2>15 DEF Merged, NodeAt
    <3>2. lw \in [birth : Births, half : BOOLEAN] /\ lw.birth = lower.birth /\ ~lw.half
      BY <1>0
    <3> HIDE DEF lw
    <3>3. QED
      BY <1>c, <2>2, <2>6, <2>9, <3>1, <3>2 DEF OfLower, Baker
  <2>16. QED
    BY <1>8, <2>10, <2>11, <2>12, <2>13, <2>14, <2>15 DEF Baking
\* With no node up, the directory is made anew, or a person removes what no node may use.
<1>9. CASE Replace
  <2>1. UNCHANGED <<place, recorded, state, bakeLock, node, lost>> /\ lower' = [birth |-> lower.birth + 1, half |-> FALSE]
        /\ (\A n \in Nodes : node[n].pc = "down") /\ Usable' = Usable
    BY <1>9 DEF Replace, NoneUp, NodeAt, Usable
  <2>2. lower'.birth = lower.birth + 1 /\ ~lower'.half /\ lower' \in [birth : Births, half : BOOLEAN]
    BY <1>0, <2>1 DEF Births
  <2>3. recorded # lower'.birth /\ recorded <= lower'.birth
    BY <1>0, <2>2 DEF Births, Records, Nobody, Broken
  <2>4. IdentityTyped'
    BY <1>0, <2>1, <2>2, <2>3 DEF IdentityTyped
  <2>5. \A n \in Nodes : SoundNow(n)'
    BY <2>1 DEF SoundNow, Sound, Baker
  <2>6. QED
    BY <1>0, <2>1, <2>2, <2>3, <2>4, <2>5 DEF IdentityInv
<1>10. CASE Remove
  <2>1. UNCHANGED <<lower, bakeLock, node, lost>> /\ place' = "absent" /\ recorded' = Nobody /\ state' = Committed
        /\ (\A n \in Nodes : node[n].pc = "down")
    BY <1>10 DEF Remove, NoneUp, NodeAt
  <2>2. ~lower.half
    BY <1>0, <1>10 DEF Remove, Verdict, Broken, Births
  <2>3. IdentityTyped'
    BY <1>0, <1>c, <2>1 DEF IdentityTyped, Records, Births, Nobody
  <2>4. \A n \in Nodes : SoundNow(n)'
    BY <2>1 DEF SoundNow, Sound, Baker
  <2>5. QED
    BY <1>0, <1>c, <2>1, <2>2, <2>3, <2>4 DEF IdentityInv, OfLower
<1>11. QED
  BY <1>1, <1>2, <1>3, <1>4, <1>5, <1>6, <1>7, <1>8, <1>9, <1>10 DEF IdentityNext, Opening

\* lowerguard.go, lower/dir, lower/judge: what a node merges into the lower was built on that lower and
\* not on one that had its inode before, whichever nodes read lower.json, the phase and the last attempt
\* at whatever times; a half-merged lower says so.
THEOREM TheHalfIsTold == IdentitySpec => []HalfIsTold
<1>1. IdentityInv /\ [IdentityNext]_identityVars => IdentityInv'
  <2>1. SUFFICES ASSUME IdentityInv, UNCHANGED identityVars
                 PROVE  IdentityInv'
    BY IdentityMoves
  <2>2. QED
    BY <2>1 DEF identityVars, IdentityInv, IdentityTyped, SoundNow, Usable
<1>2. IdentityInv => HalfIsTold
  BY DEF IdentityInv, HalfIsTold, OfLower
<1>3. QED
  BY <1>1, <1>2, IdentityStarts, PTL DEF IdentitySpec

-----------------------------------------------------------------------------
(* PreparedEnvironment: a node starts in an environment of its profile.     *)

Ids == (Hashes \X Seq(Nat)) \cup {<<>>}
Process == [pc : {"load", "facts", "smoke", "current", "plan", "build", "seal", "verify", "publish", "discard", "rename",
                  "index", "answered", "started", "failed"},
            hash : Hashes \cup {""}, check : {"first", "second", "last"}, host : BOOLEAN, rootfs : BOOLEAN,
            build : [packages : Seq(Nat), sealed : BOOLEAN, smoked : BOOLEAN], id : Ids]

EnvTyped ==
    /\ profile \in Hashes /\ mirror \in Nat
    /\ index.id \in Ids
    /\ proc \in [Processes -> Process]

\* The store es has an environment of that name.
Has(es, id) == \E e \in es : e.id = id

\* What is in the store was built to the end, sealed and tried.
StoreIsWhole == \A e \in envs : Len(e.id[2]) = RootOps /\ e.sealed /\ (e.smoked \/ Native)

\* What process p, at q, may rely on, with the store es and the index ix.
MayGoOn(p, q, es, ix) ==
    /\ q.pc \notin {"load", "failed"} => q.hash \in Hashes
    /\ q.pc \in {"seal", "verify", "publish", "discard", "rename", "index"} => Len(q.build.packages) = RootOps
    /\ q.pc \in {"verify", "publish", "discard", "rename", "index"} => q.build.sealed
    /\ q.pc \in {"publish", "discard", "rename", "index"} => q.build.smoked \/ Native
    /\ q.pc \in {"discard", "index"} => Has(es, <<q.hash, q.build.packages>>)
    /\ q.pc \in {"smoke", "current"} => Has(es, ix.id)
    /\ p \in Starters => q.pc \in {"load", "facts", "smoke", "current", "answered", "started", "failed"}
    /\ q.pc = "started" /\ ~Native => q.id[1] = q.hash /\ Has(es, q.id)

EnvInv == EnvTyped /\ StoreIsWhole /\ \A p \in Processes : MayGoOn(p, proc[p], envs, index)

\* The store only grows, and what the index names stays in it.
LEMMA StillMayGoOn ==
    ASSUME NEW p, NEW q, NEW es, NEW fs, NEW ix, NEW jx, MayGoOn(p, q, es, ix), es \subseteq fs, Has(es, ix.id) => Has(fs, jx.id)
    PROVE  MayGoOn(p, q, fs, jx)
<1>1. \A id : Has(es, id) => Has(fs, id)
  BY DEF Has
<1>2. QED
  BY <1>1 DEF MayGoOn

LEMMA EnvStarts == EnvInit => EnvInv
<1>1. SUFFICES ASSUME EnvInit
               PROVE  EnvInv
  OBVIOUS
<1>2. NoBuild \in [packages : Seq(Nat), sealed : BOOLEAN, smoked : BOOLEAN]
  BY DEF NoBuild
<1>3. Waiting \in Process /\ Waiting.pc = "load"
  BY <1>2 DEF Waiting, Process, Ids
<1>4. EnvTyped
  BY <1>1, <1>3 DEF EnvInit, EnvTyped, NoIndex, Ids
<1>5. \A p \in Processes : proc[p] = Waiting
  BY <1>1 DEF EnvInit
<1>6. QED
  BY <1>1, <1>3, <1>4, <1>5 DEF EnvInv, EnvInit, StoreIsWhole, MayGoOn

\* A step of one process.
LEMMA OneGoesOn ==
    ASSUME EnvInv, NEW p \in Processes, proc' = [proc EXCEPT ![p] = proc'[p]], proc'[p] \in Process,
           MayGoOn(p, proc'[p], envs', index'), envs \subseteq envs', StoreIsWhole',
           Has(envs, index.id) => Has(envs', index'.id),
           index'.id \in Ids, profile' \in Hashes, mirror' \in Nat
    PROVE  EnvInv'
<1>1. EnvTyped'
  BY DEF EnvInv, EnvTyped
<1>2. ASSUME NEW r \in Processes
      PROVE  MayGoOn(r, proc'[r], envs', index')
  <2>1. CASE r = p
    BY <2>1
  <2>2. CASE r # p
    <3>1. proc'[r] = proc[r] /\ MayGoOn(r, proc[r], envs, index)
      BY <2>2 DEF EnvInv, EnvTyped
    <3>2. QED
      BY <3>1, StillMayGoOn
  <2>3. QED
    BY <2>1, <2>2
<1>3. QED
  BY <1>1, <1>2 DEF EnvInv

LEMMA EnvGoesOn ==
    ASSUME EnvInv, EnvNext
    PROVE  EnvInv'
<1>0. /\ EnvTyped /\ StoreIsWhole
      /\ \A p \in Processes : proc[p] \in Process /\ MayGoOn(p, proc[p], envs, index)
  BY DEF EnvInv, EnvTyped
<1>p. \A id : Published(id) <=> Has(envs, id)
  BY DEF Published, Has
<1>s. UNCHANGED envs => StoreIsWhole'
  BY <1>0 DEF StoreIsWhole
<1>e. profile' \in Hashes /\ mirror' \in Nat
  <2>1. profile \in Hashes /\ mirror \in Nat
    BY <1>0 DEF EnvTyped
  <2>2. ASSUME NEW p \in Processes, Checking(p)
        PROVE  UNCHANGED <<profile, mirror>>
    BY <2>2 DEF Checking, Load, Facts, Smoke, Current
  <2>3. ASSUME NEW p \in Processes, Applying(p)
        PROVE  UNCHANGED <<profile, mirror>>
    BY <2>3 DEF Applying, Plan, RootFSOperation, Manifest, Seal, Verify, Look, Discard, Rename, WriteIndex
  <2>4. ASSUME NEW p \in Processes, Dies(p)
        PROVE  UNCHANGED <<profile, mirror>>
    BY <2>4 DEF Dies
  <2>5. CASE Edit
    BY <2>1, <2>5 DEF Edit
  <2>6. CASE MirrorMoves
    BY <2>1, <2>6 DEF MirrorMoves
  <2>7. CASE HostBreaks
    BY <2>1, <2>7 DEF HostBreaks
  <2>8. QED
    BY <2>1, <2>2, <2>3, <2>4, <2>5, <2>6, <2>7 DEF EnvNext
<1>f. ASSUME NEW p \in Processes, Fail(p)
      PROVE  proc'[p] \in Process /\ MayGoOn(p, proc'[p], envs', index') /\ proc' = [proc EXCEPT ![p] = proc'[p]]
  <2>1. proc'[p] = [proc[p] EXCEPT !.pc = "failed"] /\ proc' = [proc EXCEPT ![p] = proc'[p]]
    BY <1>0, <1>f DEF Fail, Become, EnvTyped
  <2>2. proc'[p] \in Process /\ proc'[p].pc = "failed"
    BY <1>0, <2>1 DEF Process
  <2>3. QED
    BY <2>1, <2>2 DEF MayGoOn
\* A process that goes on to read or to check.
<1>1. ASSUME NEW p \in Processes, UNCHANGED <<envs, index>>, NEW q \in Process, Become(p, q), MayGoOn(p, q, envs, index)
      PROVE  EnvInv'
  <2>1. proc'[p] = q /\ proc' = [proc EXCEPT ![p] = proc'[p]]
    BY <1>0, <1>1 DEF Become, EnvTyped
  <2>2. QED
    BY <1>0, <1>1, <1>s, <1>e, <2>1, OneGoesOn DEF EnvTyped
<1>2. ASSUME NEW p \in Processes, UNCHANGED <<envs, index>>, Fail(p)
      PROVE  EnvInv'
  BY <1>0, <1>2, <1>f, <1>s, <1>e, OneGoesOn DEF EnvTyped
<1>3. ASSUME NEW p \in Processes, Load(p)
      PROVE  EnvInv'
  <2> DEFINE q == [proc[p] EXCEPT !.pc = "facts", !.hash = profile]
  <2>1. q \in Process /\ q.pc = "facts" /\ q.hash \in Hashes
    BY <1>0 DEF Process, EnvTyped
  <2>2. Become(p, q) /\ UNCHANGED <<envs, index>>
    BY <1>3 DEF Load
  <2> HIDE DEF q
  <2>3. MayGoOn(p, q, envs, index)
    BY <2>1 DEF MayGoOn
  <2>4. QED
    BY <1>1, <2>1, <2>2, <2>3
<1>4. ASSUME NEW p \in Processes, Facts(p)
      PROVE  EnvInv'
  <2> DEFINE missing == ~host.installed
             unprepared == ~Prepared(proc[p].hash)
  <2>1. UNCHANGED <<envs, index>> /\ proc[p].pc = "facts" /\ proc[p].hash \in Hashes
    BY <1>0, <1>4 DEF Facts, ProcAt, MayGoOn
  <2>2. CASE ~(missing \/ unprepared)
    <3>1. Fail(p) \/ Become(p, [proc[p] EXCEPT !.pc = "smoke"])
      BY <1>4, <2>2 DEF Facts
    <3>2. [proc[p] EXCEPT !.pc = "smoke"] \in Process
      BY <1>0 DEF Process
    <3>3. Has(envs, index.id)
      BY <1>p, <2>2 DEF Prepared
    <3>4. MayGoOn(p, [proc[p] EXCEPT !.pc = "smoke"], envs, index)
      BY <1>0, <2>1, <3>3 DEF MayGoOn, Process
    <3>5. QED
      BY <1>1, <1>2, <2>1, <3>1, <3>2, <3>4
  <2>3. CASE missing \/ unprepared
    <3>1. Fail(p) \/ Become(p, NotReady(p, missing, unprepared))
      BY <1>4, <2>3 DEF Facts
    <3> DEFINE q == NotReady(p, missing, unprepared)
    <3>2. missing \in BOOLEAN /\ unprepared \in BOOLEAN
      OBVIOUS
    <3>3. q \in Process /\ q.pc \in {"failed", "plan", "build", "facts"} /\ q.hash = proc[p].hash
          /\ (p \in Starters => q.pc = "failed")
      <4> HIDE DEF missing, unprepared
      <4>1. proc[p] \in Process /\ proc[p].check \in {"first", "second", "last"}
        BY <1>0 DEF Process
      <4>2. CASE p \in Starters \/ proc[p].check = "last"
        <5>1. q = [proc[p] EXCEPT !.pc = "failed"]
          BY <4>2 DEF NotReady
        <5> HIDE DEF q
        <5>2. QED
          BY <4>1, <5>1 DEF Process
      <4>3. CASE ~(p \in Starters) /\ proc[p].check = "first"
        BY <3>2, <4>1, <4>3 DEF NotReady, Process
      <4>4. CASE ~(p \in Starters) /\ proc[p].check = "second"
        BY <3>2, <4>1, <4>4 DEF NotReady, Process
      <4>5. QED
        BY <4>1, <4>2, <4>3, <4>4
    <3> HIDE DEF q
    <3>4. MayGoOn(p, q, envs, index)
      BY <2>1, <3>3 DEF MayGoOn
    <3>5. QED
      BY <1>1, <1>2, <2>1, <3>1, <3>3, <3>4 DEF q
  <2>4. QED
    BY <2>2, <2>3
<1>5. ASSUME NEW p \in Processes, Smoke(p)
      PROVE  EnvInv'
  <2>1. UNCHANGED <<envs, index>> /\ (Fail(p) \/ Become(p, [proc[p] EXCEPT !.pc = "current"])) /\ proc[p].pc = "smoke"
    BY <1>5 DEF Smoke, ProcAt
  <2>2. [proc[p] EXCEPT !.pc = "current"] \in Process
    BY <1>0 DEF Process
  <2>3. MayGoOn(p, [proc[p] EXCEPT !.pc = "current"], envs, index)
    BY <1>0, <2>1 DEF MayGoOn, Process
  <2>4. QED
    BY <1>1, <1>2, <2>1, <2>2, <2>3
<1>6. ASSUME NEW p \in Processes, Current(p)
      PROVE  EnvInv'
  <2>1. UNCHANGED <<envs, index>> /\ proc[p].pc = "current" /\ Has(envs, index.id) /\ index.id \in Ids
    BY <1>0, <1>6 DEF Current, ProcAt, MayGoOn, EnvTyped
  <2>2. \A at \in {"answered", "started"} :
           /\ [proc[p] EXCEPT !.pc = at, !.id = index.id] \in Process
           /\ [proc[p] EXCEPT !.pc = at, !.id = index.id].pc = at
           /\ [proc[p] EXCEPT !.pc = at, !.id = index.id].id = index.id
           /\ [proc[p] EXCEPT !.pc = at, !.id = index.id].hash = proc[p].hash
    BY <1>0, <2>1 DEF Process
  <2>3. MayGoOn(p, [proc[p] EXCEPT !.pc = "answered", !.id = index.id], envs, index)
    BY <1>0, <2>1, <2>2 DEF MayGoOn
  <2>4. Opens(index.id, proc[p].hash) => MayGoOn(p, [proc[p] EXCEPT !.pc = "started", !.id = index.id], envs, index)
    BY <1>0, <2>1, <2>2 DEF MayGoOn, Opens
  <2>5. \/ Fail(p)
        \/ Become(p, [proc[p] EXCEPT !.pc = "answered", !.id = index.id])
        \/ Opens(index.id, proc[p].hash) /\ Become(p, [proc[p] EXCEPT !.pc = "started", !.id = index.id])
    BY <1>6 DEF Current
  <2>6. QED
    BY <1>1, <1>2, <2>1, <2>2, <2>3, <2>4, <2>5
<1>7. ASSUME NEW p \in Processes, Plan(p) \/ RootFSOperation(p) \/ Manifest(p) \/ Seal(p) \/ Verify(p) \/ Look(p) \/ Discard(p)
      PROVE  EnvInv'
  <2>1. UNCHANGED <<envs, index>> /\ p \notin Starters /\ proc[p].hash \in Hashes /\ mirror \in Nat
    BY <1>0, <1>7 DEF Plan, RootFSOperation, Manifest, Seal, Verify, Look, Discard, ProcAt, MayGoOn, EnvTyped
  <2>2. CASE Plan(p)
    <3>1. \A q \in {[proc[p] EXCEPT !.pc = "facts", !.check = "second"], [proc[p] EXCEPT !.pc = "build"]} :
             q \in Process /\ q.pc \in {"facts", "build"} /\ q.hash = proc[p].hash
      BY <1>0 DEF Process
    <3>2. \A q \in {[proc[p] EXCEPT !.pc = "facts", !.check = "second"], [proc[p] EXCEPT !.pc = "build"]} : MayGoOn(p, q, envs, index)
      BY <2>1, <3>1 DEF MayGoOn
    <3>3. QED
      BY <1>1, <1>2, <2>1, <2>2, <3>1, <3>2 DEF Plan
  <2>3. CASE RootFSOperation(p)
    <3> DEFINE q == [proc[p] EXCEPT !.build.packages = Append(@, mirror)]
    <3> DEFINE more == Append(proc[p].build.packages, mirror)
               b == [proc[p].build EXCEPT !.packages = more]
    <3>0. /\ proc[p] \in Process /\ proc[p].pc = "build"
          /\ proc[p].build \in [packages : Seq(Nat), sealed : BOOLEAN, smoked : BOOLEAN]
      BY <1>0, <2>3 DEF RootFSOperation, ProcAt, Process
    <3>a. more \in Seq(Nat)
      BY <2>1, <3>0
    <3>b. q = [proc[p] EXCEPT !.build = b]
      BY <3>0 DEF Process
    <3> HIDE DEF more
    <3>c. b \in [packages : Seq(Nat), sealed : BOOLEAN, smoked : BOOLEAN]
      BY <3>0, <3>a
    <3> HIDE DEF b, q
    <3>1. q \in Process /\ q.pc = "build" /\ q.hash = proc[p].hash
      BY <3>0, <3>b, <3>c DEF Process
    <3>2. Fail(p) \/ Become(p, q)
      BY <2>3 DEF RootFSOperation, q
    <3>3. MayGoOn(p, q, envs, index)
      BY <2>1, <3>1 DEF MayGoOn
    <3>4. QED
      BY <1>1, <1>2, <2>1, <3>1, <3>2, <3>3
  <2>4. CASE Manifest(p)
    <3> DEFINE q == [proc[p] EXCEPT !.pc = "seal"]
    <3>1. q \in Process /\ q.pc = "seal" /\ q.hash = proc[p].hash /\ q.build = proc[p].build
      BY <1>0 DEF Process
    <3>2. Len(proc[p].build.packages) = RootOps /\ (Fail(p) \/ Become(p, q))
      BY <2>4 DEF Manifest
    <3> HIDE DEF q
    <3>3. MayGoOn(p, q, envs, index)
      BY <2>1, <3>1, <3>2 DEF MayGoOn
    <3>4. QED
      BY <1>1, <1>2, <2>1, <3>1, <3>2, <3>3
  <2>5. CASE Seal(p)
    <3> DEFINE q == [proc[p] EXCEPT !.pc = "verify", !.build.sealed = TRUE]
    <3>1. q \in Process /\ q.pc = "verify" /\ q.hash = proc[p].hash /\ q.build.packages = proc[p].build.packages /\ q.build.sealed
      BY <1>0 DEF Process
    <3>2. proc[p].pc = "seal" /\ (Fail(p) \/ Become(p, q))
      BY <2>5 DEF Seal, ProcAt
    <3> HIDE DEF q
    <3>3. MayGoOn(p, q, envs, index)
      BY <1>0, <2>1, <3>1, <3>2 DEF MayGoOn
    <3>4. QED
      BY <1>1, <1>2, <2>1, <3>1, <3>2, <3>3
  <2>6. CASE Verify(p)
    <3> DEFINE q == [proc[p] EXCEPT !.pc = "publish", !.build.smoked = ~Native]
    <3>1. q \in Process /\ q.pc = "publish" /\ q.hash = proc[p].hash /\ q.build.packages = proc[p].build.packages
          /\ q.build.sealed = proc[p].build.sealed /\ q.build.smoked = ~Native
      BY <1>0, NativeType DEF Process
    <3>2. proc[p].pc = "verify" /\ (Fail(p) \/ Become(p, q))
      BY <2>6 DEF Verify, ProcAt
    <3> HIDE DEF q
    <3>3. MayGoOn(p, q, envs, index)
      BY <1>0, <2>1, <3>1, <3>2, NativeType DEF MayGoOn
    <3>4. QED
      BY <1>1, <1>2, <2>1, <3>1, <3>2, <3>3
  <2>7. CASE Look(p)
    <3> DEFINE to == IF Published(Identity(p)) THEN "discard" ELSE "rename"
               q == [proc[p] EXCEPT !.pc = to]
    <3>1. to \in {"discard", "rename"} /\ (to = "discard" => Has(envs, <<proc[p].hash, proc[p].build.packages>>))
      BY <1>p DEF Identity
    <3>2. proc[p].pc = "publish" /\ Become(p, q)
      BY <2>7 DEF Look, ProcAt
    <3> HIDE DEF to
    <3>3. q \in Process /\ q.pc = to /\ q.hash = proc[p].hash /\ q.build = proc[p].build
      BY <1>0, <3>1 DEF Process
    <3> HIDE DEF q
    <3>4. MayGoOn(p, q, envs, index)
      BY <1>0, <2>1, <3>1, <3>2, <3>3 DEF MayGoOn
    <3>5. QED
      BY <1>1, <2>1, <3>2, <3>3, <3>4
  <2>8. CASE Discard(p)
    <3> DEFINE q == [proc[p] EXCEPT !.pc = "index"]
    <3>1. q \in Process /\ q.pc = "index" /\ q.hash = proc[p].hash /\ q.build = proc[p].build
      BY <1>0 DEF Process
    <3>2. proc[p].pc = "discard" /\ (Fail(p) \/ Become(p, q))
      BY <2>8 DEF Discard, ProcAt
    <3> HIDE DEF q
    <3>3. MayGoOn(p, q, envs, index)
      BY <1>0, <2>1, <3>1, <3>2 DEF MayGoOn
    <3>4. QED
      BY <1>1, <1>2, <2>1, <3>1, <3>2, <3>3
  <2>9. QED
    BY <1>7, <2>2, <2>3, <2>4, <2>5, <2>6, <2>7, <2>8
<1>8. ASSUME NEW p \in Processes, Rename(p)
      PROVE  EnvInv'
  <2>1. proc[p].pc = "rename" /\ UNCHANGED index /\ p \notin Starters
    BY <1>0, <1>8 DEF Rename, ProcAt, MayGoOn
  <2>2. CASE Published(Identity(p))
    BY <1>2, <1>8, <2>1, <2>2 DEF Rename
  <2>3. CASE ~Published(Identity(p))
    <3> DEFINE e == [id |-> Identity(p), sealed |-> proc[p].build.sealed, smoked |-> proc[p].build.smoked]
               q == [proc[p] EXCEPT !.pc = "index"]
    <3>1. envs' = envs \cup {e} /\ Become(p, q)
      BY <1>8, <2>3 DEF Rename
    <3>2. q \in Process /\ q.pc = "index" /\ q.hash = proc[p].hash /\ q.build = proc[p].build
      BY <1>0 DEF Process
    <3>3. e.id = <<proc[p].hash, proc[p].build.packages>> /\ e.sealed = proc[p].build.sealed /\ e.smoked = proc[p].build.smoked
      BY DEF Identity
    <3>4. e.id[2] = proc[p].build.packages
      BY <3>3
    <3> HIDE DEF e, q
    <3>5. StoreIsWhole'
      BY <1>0, <2>1, <3>1, <3>3, <3>4 DEF StoreIsWhole, MayGoOn
    <3>6. Has(envs', <<q.hash, q.build.packages>>)
      BY <3>1, <3>2, <3>3 DEF Has
    <3>7. MayGoOn(p, q, envs', index')
      BY <1>0, <2>1, <3>2, <3>6 DEF MayGoOn
    <3>8. proc'[p] = q /\ proc' = [proc EXCEPT ![p] = proc'[p]]
      BY <1>0, <3>1 DEF Become, EnvTyped
    <3>9. Has(envs, index.id) => Has(envs', index'.id)
      BY <2>1, <3>1 DEF Has
    <3>10. QED
      BY <1>0, <1>e, <2>1, <3>1, <3>2, <3>5, <3>7, <3>8, <3>9, OneGoesOn DEF EnvTyped
  <2>4. QED
    BY <2>2, <2>3
<1>9. ASSUME NEW p \in Processes, WriteIndex(p)
      PROVE  EnvInv'
  <2>1. proc[p].pc = "index" /\ UNCHANGED envs /\ p \notin Starters /\ Has(envs, Identity(p)) /\ proc[p].hash \in Hashes
    BY <1>0, <1>9 DEF WriteIndex, ProcAt, MayGoOn, Identity
  <2>2. Identity(p) \in Ids
    BY <1>0, <2>1 DEF Identity, Ids, Process
  <2>3. CASE Fail(p) /\ UNCHANGED index
    BY <1>2, <2>1, <2>3
  <2>4. CASE index' = [hash |-> proc[p].hash, id |-> Identity(p)] /\ Become(p, [proc[p] EXCEPT !.pc = "answered", !.id = Identity(p)])
    <3> DEFINE q == [proc[p] EXCEPT !.pc = "answered", !.id = Identity(p)]
    <3>1. q \in Process /\ q.pc = "answered" /\ q.hash = proc[p].hash
      BY <1>0, <2>2 DEF Process
    <3>2. Become(p, q) /\ index'.id = Identity(p)
      BY <2>4
    <3> HIDE DEF q
    <3>3. proc'[p] = q /\ proc' = [proc EXCEPT ![p] = proc'[p]]
      BY <1>0, <3>2 DEF Become, EnvTyped
    <3>4. MayGoOn(p, q, envs', index')
      BY <2>1, <3>1 DEF MayGoOn
    <3>5. QED
      BY <1>s, <1>e, <2>1, <2>2, <3>1, <3>2, <3>3, <3>4, OneGoesOn
  <2>5. QED
    BY <1>9, <2>3, <2>4 DEF WriteIndex
<1>10. ASSUME NEW p \in Processes, Dies(p)
       PROVE  EnvInv'
  BY <1>2, <1>10 DEF Dies
<1>11. CASE Edit \/ MirrorMoves \/ HostBreaks
  <2>1. UNCHANGED <<envs, index, proc>>
    BY <1>11 DEF Edit, MirrorMoves, HostBreaks
  <2>2. QED
    BY <1>0, <1>s, <1>e, <2>1 DEF EnvInv, EnvTyped
<1>12. QED
  BY <1>3, <1>4, <1>5, <1>6, <1>7, <1>8, <1>9, <1>10, <1>11 DEF EnvNext, Checking, Applying

\* Apply, CheckWithRuntime and the start of a node (environment, cmd/enode): a
\* node with a sandbox runs its steps in an environment that is whole, sealed,
\* tried, and of the profile it has loaded, whatever was edited, applied or
\* published between the reads of its start.
THEOREM StartsArePrepared == EnvSpec => []StartedIsPrepared
<1>1. EnvInv /\ [EnvNext]_envVars => EnvInv'
  <2>1. SUFFICES ASSUME EnvInv, UNCHANGED envVars
                 PROVE  EnvInv'
    BY EnvGoesOn
  <2>2. QED
    BY <2>1 DEF envVars, EnvInv, EnvTyped, StoreIsWhole
<1>2. EnvInv => StartedIsPrepared
  <2> SUFFICES ASSUME EnvInv, ~Native, NEW p \in Starters, proc[p].pc = "started"
               PROVE  /\ proc[p].id[1] = proc[p].hash
                      /\ \E e \in envs : e.id = proc[p].id /\ Len(e.id[2]) = RootOps /\ e.sealed /\ e.smoked
    BY DEF StartedIsPrepared, ProcAt
  <2>1. MayGoOn(p, proc[p], envs, index)
    BY DEF EnvInv, Processes
  <2>2. proc[p].id[1] = proc[p].hash /\ Has(envs, proc[p].id)
    BY <2>1 DEF MayGoOn
  <2>3. QED
    BY <2>2 DEF Has, EnvInv, StoreIsWhole
<1>3. QED
  BY <1>1, <1>2, EnvStarts, PTL DEF EnvSpec

-----------------------------------------------------------------------------
(* Harvest: what is said to be gathered is there.                           *)

Found == [notes : SUBSET Names, changed : SUBSET Files, diff : {"none", "empty", "placed", "error", "skipped"},
          walk : {"none", "skipped", "whole", "time", "visits", "memory", "size"}, held : SUBSET Files, paths : SUBSET Files,
          err : {"none", "deadline", "canceled", "error"}]
Stages == [changes : {"not_measured", "measured", "partial"}, missing : SUBSET Names, closeErr : BOOLEAN,
           closedLate : BOOLEAN, upload : {"none", "ok", "error", "timeout"}, finalize : {"none", "ok", "error", "timeout"},
           reason : {"", "finalize_timeout", "upload_timeout"}]

HarvestTyped ==
    /\ overlay \in BOOLEAN /\ workspace \in BOOLEAN
    /\ step \in [diff : BOOLEAN, discover : BOOLEAN, collect : SUBSET Names, required : SUBSET Names]
    /\ out \in [Names \cup {Diff} -> {"absent", "half", "whole"}]
    /\ pc \in {"collect", "copy", "diff", "diffed", "discover", "walk", "answered", "placed",
               "done", "close", "upload", "settle", "settled"}
    /\ fin \in Found /\ result \in Stages
    /\ late \in BOOLEAN /\ ended \in BOOLEAN /\ cause \in {"none", "deadline", "canceled"}

Collecting == {"collect", "copy"}
Told == {"placed", "empty", "error"}
Finalized == {"answered", "placed", "done", "close", "upload", "settle", "settled"}
Reported == {"close", "upload", "settle", "settled"}

Gathered == \A n \in step.collect : out[n] = "whole" \/ n \in fin.notes
DiffTold == step.diff => fin.diff \in Told
AllListed == {f \in Files : Listed(f)}

\* Names are collected, or noted, or still to do -- unless time is over, and then Finalize will say so.
GatheredSoFar ==
    /\ pc \in Collecting => Over \/ \A n \in step.collect : n \in todo \/ out[n] = "whole" \/ n \in fin.notes
    /\ pc \in {"diff", "diffed", "discover", "walk"} => Gathered /\ fin.changed = Changed
    /\ pc \in Finalized /\ fin.err = "none" => Gathered /\ fin.changed = Changed

\* A diff that was asked for is told of once it has been made.
ToldSoFar ==
    /\ pc = "answered" => overlay
    /\ pc = "diffed" => fin.diff \in Told
    /\ pc \in {"discover", "walk"} /\ ~overlay => DiffTold
    /\ pc \in Finalized \ {"answered"} /\ fin.err = "none" => DiffTold

\* Whether there was a walk, or a word on why there was none.
WalkTold == step.discover => IF workspace THEN fin.walk \notin {"none", "skipped"} ELSE fin.walk = "skipped"

\* A walk that calls itself whole has listed what it has passed.
WalkedSoFar ==
    /\ pc \in Collecting \cup {"diff", "diffed", "discover"} => fin.walk = "none" /\ fin.held = {}
    /\ pc = "walk" => /\ workspace /\ fin.walk \notin {"none", "skipped"} /\ todo \subseteq Files
                      /\ fin.walk = "whole" => fin.held = AllListed \ todo
    /\ pc \in Finalized => /\ fin.walk = "whole" => fin.paths = AllListed
                           /\ fin.err = "none" => WalkTold

\* The report says of Finalize what Finalize has found.
Measured(walk) == CASE walk \in {"none", "skipped"} -> "not_measured" [] walk = "whole" -> "measured" [] OTHER -> "partial"
ReportedSoFar ==
    /\ pc \in Reported => /\ result.missing = {n \in step.required : out[n] # "whole"}
                          /\ result.changes = Measured(fin.walk)
    /\ pc = "settled" /\ result.finalize = "ok" => fin.err = "none"

HarvestInv == HarvestTyped /\ GatheredSoFar /\ ToldSoFar /\ WalkedSoFar /\ ReportedSoFar

LEMMA HarvestStarts == HarvestInit => HarvestInv
<1>1. SUFFICES ASSUME HarvestInit
               PROVE  HarvestInv
  OBVIOUS
<1>2. /\ NothingFound("none") \in Found /\ NothingFound("none").walk = "none" /\ NothingFound("none").held = {}
      /\ NothingFound("none").notes = {}
  BY DEF NothingFound, Found
<1>3. NoResult \in Stages
  BY DEF NoResult, Stages
<1>4. HarvestTyped
  BY <1>1, <1>2, <1>3 DEF HarvestInit, HarvestTyped
<1>5. pc = "collect" /\ todo = step.collect /\ fin = NothingFound("none")
  BY <1>1 DEF HarvestInit
<1>6. QED
  BY <1>2, <1>4, <1>5 DEF HarvestInv, GatheredSoFar, ToldSoFar, WalkedSoFar, ReportedSoFar, Collecting, Finalized, Reported

LEMMA HarvestGoesOn ==
    ASSUME HarvestInv, HarvestNext
    PROVE  HarvestInv'
<1>0. HarvestTyped /\ GatheredSoFar /\ ToldSoFar /\ WalkedSoFar /\ ReportedSoFar
  BY DEF HarvestInv
<1>c. UNCHANGED <<overlay, workspace, step, tree, source>>
  BY DEF HarvestNext, Finalizing, Reporting, Collect, Copy, CollectOver, Check, LocalDiff, LocalDiffed, Discover, Visit, Walked,
     Abort, HelperFails, SessionDiff, SessionDiffed, Diagnostics, Close, Upload, Settle, DeadlinePasses, LeaseGoes
<1>l. AllListed' = AllListed /\ Changed' = Changed
  BY <1>c DEF AllListed, Listed, Changed
<1>1. ASSUME NEW n \in Names, Collect(n)
      PROVE  HarvestInv'
  <2>1. HarvestTyped'
    BY <1>0, <1>1 DEF Collect, HarvestTyped, Found
  <2>2. GatheredSoFar'
    BY <1>0, <1>1, <1>l DEF Collect, HarvestTyped, Found, GatheredSoFar, Over, Collecting, Finalized, Gathered
  <2>3. ToldSoFar' /\ WalkedSoFar' /\ ReportedSoFar'
    BY <1>0, <1>1, <1>l DEF Collect, HarvestTyped, Found, ToldSoFar, WalkedSoFar, WalkTold, ReportedSoFar, Collecting, Finalized, Reported
  <2>4. QED
    BY <2>1, <2>2, <2>3 DEF HarvestInv
<1>2. ASSUME NEW n \in Names, Copy(n)
      PROVE  HarvestInv'
  <2>1. HarvestTyped'
    BY <1>0, <1>2 DEF Copy, HarvestTyped, Found
  <2>2. GatheredSoFar'
    BY <1>0, <1>2, <1>l DEF Copy, HarvestTyped, Found, GatheredSoFar, Over, Collecting, Finalized, Gathered
  <2>3. ToldSoFar' /\ WalkedSoFar' /\ ReportedSoFar'
    BY <1>0, <1>2, <1>l DEF Copy, HarvestTyped, Found, ToldSoFar, WalkedSoFar, WalkTold, ReportedSoFar, Collecting, Finalized, Reported
  <2>4. QED
    BY <2>1, <2>2, <2>3 DEF HarvestInv
<1>3. CASE CollectOver
  <2>1. Why \in {"deadline", "canceled"}
    BY <1>0, <1>3 DEF CollectOver, Why, Over, HarvestTyped
  <2>2. HarvestTyped'
    BY <1>0, <1>3, <2>1 DEF CollectOver, Return, HarvestTyped, Found
  <2>3. fin'.err # "none" /\ fin'.walk = "none" /\ pc' \in {"answered", "done"} /\ (pc' = "answered" => overlay)
    BY <1>0, <1>3, <2>1 DEF CollectOver, Return, HarvestTyped, Found, WalkedSoFar, Collecting
  <2>4. QED
    BY <1>c, <2>2, <2>3 DEF HarvestInv, GatheredSoFar, ToldSoFar, WalkedSoFar, WalkTold, ReportedSoFar, Collecting, Finalized, Reported
<1>4. CASE Check
  <2>1. Changed \in SUBSET Files
    BY DEF Changed
  <2>2. HarvestTyped'
    BY <1>0, <1>4, <2>1 DEF Check, HarvestTyped, Found
  <2>3. GatheredSoFar'
    BY <1>0, <1>4, <1>l DEF Check, HarvestTyped, Found, GatheredSoFar, Collecting, Finalized, Gathered
  <2>4. ToldSoFar' /\ WalkedSoFar' /\ ReportedSoFar'
    BY <1>0, <1>4, <1>l DEF Check, HarvestTyped, Found, ToldSoFar, DiffTold, WalkedSoFar, WalkTold, ReportedSoFar, Collecting, Finalized, Reported
  <2>5. QED
    BY <2>2, <2>3, <2>4 DEF HarvestInv
<1>5. CASE LocalDiff
  <2>1. HarvestTyped'
    BY <1>0, <1>5 DEF LocalDiff, HarvestTyped, Found
  <2>2. \A n \in Names : out'[n] = out[n]
    BY <1>0, <1>5, DiffIsNotDeclared DEF LocalDiff, HarvestTyped
  <2>3. GatheredSoFar'
    BY <1>0, <1>5, <1>l, <2>2 DEF LocalDiff, HarvestTyped, Found, GatheredSoFar, Collecting, Finalized, Gathered
  <2>4. ToldSoFar' /\ WalkedSoFar' /\ ReportedSoFar'
    BY <1>0, <1>5, <1>l DEF LocalDiff, HarvestTyped, Found, ToldSoFar, Told, WalkedSoFar, WalkTold, ReportedSoFar, Collecting, Finalized, Reported
  <2>5. QED
    BY <2>1, <2>3, <2>4 DEF HarvestInv
<1>6. CASE LocalDiffed
  <2>1. Over => Why \in {"deadline", "canceled"}
    BY <1>0 DEF Why, Over, HarvestTyped
  <2>2. HarvestTyped'
    BY <1>0, <1>6, <2>1 DEF LocalDiffed, Return, HarvestTyped, Found
  <2>3. GatheredSoFar'
    BY <1>0, <1>6, <1>l, <2>1 DEF LocalDiffed, Return, HarvestTyped, Found, GatheredSoFar, Collecting, Finalized, Gathered
  <2>4. ToldSoFar' /\ WalkedSoFar' /\ ReportedSoFar'
    BY <1>0, <1>6, <1>l, <2>1 DEF LocalDiffed, Return, HarvestTyped, Found, ToldSoFar, DiffTold, Told, WalkedSoFar, ReportedSoFar,
       Collecting, Finalized, Reported
  <2>5. QED
    BY <2>2, <2>3, <2>4 DEF HarvestInv
<1>7. CASE Discover
  <2>1. Over => Why \in {"deadline", "canceled"}
    BY <1>0 DEF Why, Over, HarvestTyped
  <2>2. HarvestTyped'
    <3>1. \A w \in {"none", "skipped", "whole"} : \A e \in {"none", "deadline", "canceled"} :
             [fin EXCEPT !.walk = w, !.err = e] \in Found /\ [fin EXCEPT !.walk = w] \in Found
      BY <1>0 DEF HarvestTyped, Found
    <3>2. fin.walk = "none"
      BY <1>0, <1>7 DEF Discover, WalkedSoFar
    <3>3. fin' \in Found
      BY <1>7, <2>1, <3>1, <3>2 DEF Discover
    <3>4. pc' \in {"walk", "answered", "done"} /\ UNCHANGED <<out, late, ended, cause, result>>
      BY <1>7 DEF Discover
    <3>5. QED
      BY <1>0, <1>c, <3>3, <3>4 DEF HarvestTyped
  <2>3. GatheredSoFar'
    BY <1>0, <1>7, <1>l DEF Discover, HarvestTyped, Found, GatheredSoFar, Collecting, Finalized, Gathered
  <2>4. ToldSoFar'
    BY <1>0, <1>7 DEF Discover, HarvestTyped, Found, ToldSoFar, DiffTold, Finalized
  <2>5. WalkedSoFar'
    <3>1. AllListed \subseteq Files
      BY DEF AllListed
    <3>2. fin.walk = "none" /\ fin.held = {} /\ fin \in Found
      BY <1>0, <1>7 DEF Discover, WalkedSoFar, HarvestTyped
    <3>3. CASE step.discover /\ workspace
      <4>1. pc' = "walk" /\ todo' = Files /\ fin' = [fin EXCEPT !.walk = "whole"]
        BY <1>7, <3>3 DEF Discover
      <4>2. fin'.walk = "whole" /\ fin'.held = {}
        BY <3>2, <4>1 DEF Found
      <4>3. QED
        BY <1>c, <1>l, <3>1, <3>3, <4>1, <4>2 DEF WalkedSoFar, Collecting, Finalized
    <3>4. CASE ~(step.discover /\ workspace)
      <4>1. pc' \in {"answered", "done"} /\ fin'.walk = IF step.discover THEN "skipped" ELSE "none"
        BY <1>7, <3>2, <3>4 DEF Discover, Found
      <4>2. WalkTold'
        BY <1>c, <3>4, <4>1 DEF WalkTold
      <4>3. QED
        BY <4>1, <4>2 DEF WalkedSoFar, Collecting, Finalized
    <3>5. QED
      BY <3>3, <3>4
  <2>6. ReportedSoFar'
    BY <1>0, <1>7 DEF Discover, HarvestTyped, Found, ReportedSoFar, Reported
  <2>7. QED
    BY <2>2, <2>3, <2>4, <2>5, <2>6 DEF HarvestInv
<1>8. ASSUME NEW f \in Files, Visit(f)
      PROVE  HarvestInv'
  <2>1. HarvestTyped'
    BY <1>0, <1>8 DEF Visit, Cut, HarvestTyped, Found
  <2>2. GatheredSoFar' /\ ToldSoFar' /\ ReportedSoFar'
    BY <1>0, <1>8, <1>l DEF Visit, Cut, HarvestTyped, Found, GatheredSoFar, ToldSoFar, DiffTold, ReportedSoFar, Collecting, Finalized,
       Gathered, Reported
  <2>3. WalkedSoFar'
    <3>1. Listed(f) <=> f \in AllListed
      BY DEF AllListed
    <3>2. QED
      BY <1>0, <1>8, <1>l, <3>1 DEF Visit, Cut, HarvestTyped, Found, WalkedSoFar, WalkTold, Collecting, Finalized
  <2>4. QED
    BY <2>1, <2>2, <2>3 DEF HarvestInv
<1>9. CASE Walked
  <2>1. Over => Why \in {"deadline", "canceled"}
    BY <1>0 DEF Why, Over, HarvestTyped
  <2>2. HarvestTyped'
    <3>1. PICK kept \in SUBSET fin.held :
             fin' = [fin EXCEPT !.paths = kept, !.err = IF Over THEN Why ELSE "none",
                                !.walk = IF kept # fin.held /\ @ = "whole" THEN "size" ELSE @]
      BY <1>9 DEF Walked
    <3>2. kept \in SUBSET Files /\ (IF Over THEN Why ELSE "none") \in {"none", "deadline", "canceled"}
      BY <1>0, <2>1 DEF HarvestTyped, Found
    <3>3. fin' \in Found
      BY <1>0, <3>1, <3>2 DEF HarvestTyped, Found
    <3>4. pc' \in {"answered", "done"} /\ UNCHANGED <<out, late, ended, cause, result>>
      BY <1>9 DEF Walked
    <3>5. QED
      BY <1>0, <1>c, <3>3, <3>4 DEF HarvestTyped
  <2>3. GatheredSoFar' /\ ToldSoFar' /\ ReportedSoFar'
    BY <1>0, <1>9, <1>l DEF Walked, HarvestTyped, Found, GatheredSoFar, ToldSoFar, DiffTold, ReportedSoFar, Collecting, Finalized,
       Gathered, Reported
  <2>4. WalkedSoFar'
    BY <1>0, <1>9, <1>l DEF Walked, HarvestTyped, Found, WalkedSoFar, WalkTold, Collecting, Finalized
  <2>5. QED
    BY <2>2, <2>3, <2>4 DEF HarvestInv
<1>10. CASE Abort \/ HelperFails
  <2>1. \A err \in {"deadline", "canceled", "error"} :
           NothingFound(err) \in Found /\ NothingFound(err).err # "none" /\ NothingFound(err).walk = "none"
    BY DEF NothingFound, Found
  <2>2. fin' \in Found /\ fin'.err # "none" /\ fin'.walk = "none" /\ pc' = "done" /\ UNCHANGED <<out, late, ended, cause, result>>
    BY <1>0, <1>10, <2>1 DEF Abort, HelperFails, HarvestTyped
  <2>3. HarvestTyped'
    BY <1>0, <1>c, <2>2 DEF HarvestTyped
  <2>4. QED
    BY <2>2, <2>3 DEF HarvestInv, GatheredSoFar, ToldSoFar, WalkedSoFar, WalkTold, ReportedSoFar, Collecting, Finalized, Reported
<1>11. CASE SessionDiff
  <2>1. HarvestTyped'
    <3>1. \A e \in {"none", "deadline", "canceled", "error"} : \A d \in {"skipped", "empty", "placed", "error"} :
             /\ [fin EXCEPT !.diff = d] \in Found
             /\ [fin EXCEPT !.diff = d, !.err = e] \in Found
      BY <1>0 DEF HarvestTyped, Found
    <3>2. fin.err \in {"none", "deadline", "canceled", "error"}
      BY <1>0 DEF HarvestTyped, Found
    <3>3. fin' \in Found
      BY <1>0, <1>11, <3>1, <3>2 DEF SessionDiff, HarvestTyped
    <3>4. out' \in [Names \cup {Diff} -> {"absent", "half", "whole"}]
      BY <1>0, <1>11 DEF SessionDiff, HarvestTyped
    <3>5. pc' \in {"done", "placed"} /\ UNCHANGED <<late, ended, cause, result>>
      BY <1>11 DEF SessionDiff
    <3>6. QED
      BY <1>0, <1>c, <3>3, <3>4, <3>5 DEF HarvestTyped
  <2>2. \A n \in Names : out'[n] = out[n]
    BY <1>0, <1>11, DiffIsNotDeclared DEF SessionDiff, HarvestTyped
  <2>3. GatheredSoFar'
    BY <1>0, <1>11, <1>l, <2>2 DEF SessionDiff, HarvestTyped, Found, GatheredSoFar, Collecting, Finalized, Gathered
  <2>4. ToldSoFar'
    BY <1>0, <1>11 DEF SessionDiff, HarvestTyped, Found, ToldSoFar, DiffTold, Told, Finalized
  <2>5. WalkedSoFar' /\ ReportedSoFar'
    <3>1. /\ pc = "answered" /\ pc' \in {"done", "placed"} /\ fin'.walk = fin.walk /\ fin'.paths = fin.paths
          /\ fin'.err = "none" => fin.err = "none"
      BY <1>0, <1>11 DEF SessionDiff, HarvestTyped, Found
    <3>2. WalkTold => WalkTold'
      BY <1>c, <3>1 DEF WalkTold
    <3>3. QED
      BY <1>0, <1>l, <3>1, <3>2 DEF WalkedSoFar, ReportedSoFar, Collecting, Finalized, Reported
  <2>6. QED
    BY <2>1, <2>3, <2>4, <2>5 DEF HarvestInv
<1>12. CASE SessionDiffed
  <2>1. HarvestTyped'
    BY <1>0, <1>12 DEF SessionDiffed, HarvestTyped, Found
  <2>2. GatheredSoFar' /\ ToldSoFar'
    BY <1>0, <1>12, <1>l DEF SessionDiffed, HarvestTyped, Found, GatheredSoFar, ToldSoFar, DiffTold, Collecting, Finalized, Gathered
  <2>3. WalkedSoFar' /\ ReportedSoFar'
    BY <1>0, <1>12, <1>l DEF SessionDiffed, HarvestTyped, Found, WalkedSoFar, WalkTold, ReportedSoFar, Collecting, Finalized, Reported
  <2>4. QED
    BY <2>1, <2>2, <2>3 DEF HarvestInv
<1>13. CASE Reporting
  <2>1. UNCHANGED <<overlay, workspace, step, out, todo, fin, late, ended, cause>>
    BY <1>13 DEF Reporting, Diagnostics, Close, Upload, Settle
  <2>2. pc \in {"done", "close", "upload", "settle"} /\ pc' \in {"close", "upload", "settle", "settled"}
    BY <1>13 DEF Reporting, Diagnostics, Close, Upload, Settle
  <2>3. GatheredSoFar' /\ ToldSoFar' /\ WalkedSoFar'
    BY <1>0, <1>l, <2>1, <2>2 DEF GatheredSoFar, ToldSoFar, DiffTold, WalkedSoFar, WalkTold, Collecting, Finalized, Gathered
  <2>4. result \in Stages /\ fin \in Found
    BY <1>0 DEF HarvestTyped
  <2>5. ASSUME result' \in Stages
        PROVE  HarvestTyped'
    BY <1>0, <1>c, <2>1, <2>2, <2>5 DEF HarvestTyped
  <2>6. CASE Diagnostics
    <3> DEFINE missing == {n \in step.required : out[n] # "whole"}
               changes == Measured(fin.walk)
    <3>1. result' = [result EXCEPT !.missing = missing, !.changes = changes] /\ pc' = "close"
      BY <2>6 DEF Diagnostics, Measured
    <3>2. changes \in {"not_measured", "measured", "partial"}
      BY DEF Measured
    <3>a. missing \in SUBSET Names
      BY <1>0 DEF HarvestTyped
    <3> HIDE DEF changes, missing
    <3>3. result' \in Stages /\ result'.missing = missing /\ result'.changes = changes
      BY <2>4, <3>1, <3>2, <3>a DEF Stages
    <3>4. ReportedSoFar'
      BY <2>1, <3>1, <3>3 DEF ReportedSoFar, missing, changes
    <3>5. QED
      BY <2>3, <2>5, <3>3, <3>4 DEF HarvestInv
  <2>7. CASE Close \/ Upload
    <3>1. result' \in Stages /\ result'.missing = result.missing /\ result'.changes = result.changes
      BY <1>0, <2>4, <2>7 DEF Close, Upload, HarvestTyped, Stages
    <3>2. pc \in {"close", "upload"} /\ pc' \in {"upload", "settle"}
      BY <2>7 DEF Close, Upload
    <3>3. ReportedSoFar'
      BY <1>0, <2>1, <3>1, <3>2 DEF ReportedSoFar, Reported
    <3>4. QED
      BY <2>3, <2>5, <3>1, <3>3 DEF HarvestInv
  <2>8. CASE Settle
    <3> DEFINE timedOut == ~ended /\ (fin.err = "deadline" \/ (fin.err = "none" /\ result.closedLate))
               finalize == IF timedOut THEN "timeout" ELSE IF fin.err # "none" \/ result.closeErr THEN "error" ELSE "ok"
               upload == IF result.upload = "timeout" /\ ended THEN "error" ELSE result.upload
               reason == IF finalize = "timeout" THEN "finalize_timeout" ELSE IF upload = "timeout" THEN "upload_timeout" ELSE ""
    <3>1. result' = [result EXCEPT !.finalize = finalize, !.upload = upload, !.reason = reason]
      BY <2>8 DEF Settle
    <3>2. /\ finalize \in {"timeout", "error", "ok"} /\ (finalize = "ok" => fin.err = "none")
          /\ upload \in {"none", "ok", "error", "timeout"}
          /\ reason \in {"", "finalize_timeout", "upload_timeout"}
      BY <2>4 DEF Stages
    <3> HIDE DEF reason, upload, finalize, timedOut
    <3>3. result' \in Stages /\ result'.missing = result.missing /\ result'.changes = result.changes /\ result'.finalize = finalize
      BY <2>4, <3>1, <3>2 DEF Stages
    <3>4. pc = "settle" /\ pc' = "settled"
      BY <2>8 DEF Settle
    <3>5. ReportedSoFar'
      BY <1>0, <2>1, <3>2, <3>3, <3>4 DEF ReportedSoFar, Reported
    <3>6. QED
      BY <2>3, <2>5, <3>3, <3>5 DEF HarvestInv
  <2>9. QED
    BY <1>13, <2>6, <2>7, <2>8 DEF Reporting
<1>14. CASE DeadlinePasses \/ LeaseGoes
  <2>1. UNCHANGED <<overlay, workspace, step, out, pc, todo, fin, result>> /\ (Over => Over')
    BY <1>14, <1>0 DEF DeadlinePasses, LeaseGoes, Over, HarvestTyped
  <2>2. HarvestTyped'
    BY <1>0, <1>c, <1>14, <2>1 DEF DeadlinePasses, LeaseGoes, HarvestTyped
  <2>3. GatheredSoFar' /\ ToldSoFar'
    BY <1>0, <1>l, <2>1 DEF GatheredSoFar, Gathered, ToldSoFar, DiffTold
  <2>4. WalkedSoFar' /\ ReportedSoFar'
    BY <1>0, <1>c, <1>l, <2>1 DEF WalkedSoFar, WalkTold, ReportedSoFar
  <2>5. QED
    BY <2>2, <2>3, <2>4 DEF HarvestInv
<1>15. QED
  BY <1>1, <1>2, <1>3, <1>4, <1>5, <1>6, <1>7, <1>8, <1>9, <1>10, <1>11, <1>12, <1>13, <1>14 DEF HarvestNext, Finalizing

LEMMA HarvestAlways == HarvestSpec => []HarvestInv
<1>1. HarvestInv /\ [HarvestNext]_harvestVars => HarvestInv'
  <2>1. SUFFICES ASSUME HarvestInv, UNCHANGED harvestVars
                 PROVE  HarvestInv'
    BY HarvestGoesOn
  <2>2. HarvestTyped' /\ GatheredSoFar' /\ ToldSoFar'
    BY <2>1 DEF harvestVars, HarvestInv, HarvestTyped, GatheredSoFar, Gathered, ToldSoFar, DiffTold, Over, Changed
  <2>3. WalkedSoFar' /\ ReportedSoFar'
    BY <2>1 DEF harvestVars, HarvestInv, WalkedSoFar, WalkTold, ReportedSoFar, AllListed, Listed
  <2>4. QED
    BY <2>2, <2>3 DEF HarvestInv
<1>2. QED
  BY <1>1, HarvestStarts, PTL DEF HarvestSpec

\* finalizeLocal, the helper and settle (enode/runtime.go, finalize.go): a
\* step whose Finalize is reported as ok was gathered whole, wherever the
\* deadline, the end of the lease or the end of the helper fell; what it
\* could not gather, and a walk that no workspace was there for, is told.
THEOREM OkMeansGathered == HarvestSpec => []OkIsComplete
<1>1. HarvestInv => OkIsComplete
  <2> SUFFICES ASSUME HarvestInv, pc = "settled", result.finalize = "ok"
               PROVE  /\ \A n \in step.collect : out[n] = "whole" \/ n \in fin.notes
                      /\ \A n \in step.required : out[n] = "whole" \/ n \in result.missing
                      /\ fin.changed = Changed
                      /\ step.diff => fin.diff \in {"placed", "empty", "error"}
                      /\ step.discover => IF workspace THEN fin.walk \notin {"none", "skipped"}
                                          ELSE fin.walk = "skipped" /\ result.changes = "not_measured"
    BY DEF OkIsComplete, Settled
  <2>1. /\ fin.err = "none" /\ result.missing = {n \in step.required : out[n] # "whole"}
        /\ result.changes = Measured(fin.walk)
    BY DEF HarvestInv, ReportedSoFar, Reported
  <2>2. Gathered /\ fin.changed = Changed
    BY <2>1 DEF HarvestInv, GatheredSoFar, Finalized
  <2>3. DiffTold /\ WalkTold
    BY <2>1 DEF HarvestInv, ToldSoFar, WalkedSoFar, Finalized
  <2>4. fin.walk = "skipped" => result.changes = "not_measured"
    BY <2>1 DEF Measured
  <2>5. QED
    BY <2>1, <2>2, <2>3, <2>4 DEF Gathered, DiffTold, Told, WalkTold
<1>2. QED
  BY <1>1, HarvestAlways, PTL

\* walker and settle (enode/changed.go, finalize.go): a report that says the
\* changes were measured lists all of them.
THEOREM MeasuredMeansListed == HarvestSpec => []MeasuredIsComplete
<1>1. HarvestInv => MeasuredIsComplete
  <2> SUFFICES ASSUME HarvestInv, pc = "settled", result.changes = "measured"
               PROVE  fin.paths = AllListed
    BY DEF MeasuredIsComplete, Settled, AllListed
  <2>1. fin.walk = "whole"
    BY DEF HarvestInv, ReportedSoFar, Reported, Measured
  <2>2. QED
    BY <2>1 DEF HarvestInv, WalkedSoFar, Finalized
<1>2. QED
  BY <1>1, HarvestAlways, PTL
=============================================================================
