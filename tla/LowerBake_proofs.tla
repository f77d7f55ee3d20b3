---------------------------- MODULE LowerBake_proofs ----------------------------
(***************************************************************************)
(* Proofs about LowerBake, for any number of nodes, steps and faults: a    *)
(* bake that ends DONE has changed the lower (HandedIsMerged), a merge has *)
(* the lower to itself (MergeAlone), and a step runs on the lower its Run  *)
(* was matched to (UnchangedSinceMatch).                                   *)
(*                                                                         *)
(* The three hang together. Who writes state.json holds bake.lock          *)
(* (BakerTells, WorkTells), so state, place and lower always tell how far  *)
(* a merge came (LowerTells), whoever was in the middle of it when it      *)
(* died; a lock is shared by nobody while it merges (SharedTells), and     *)
(* versions and marks only grow (MatchTells).                              *)
(***************************************************************************)
EXTENDS LowerBake, TLAPS
-----------------------------------------------------------------------------
(* The inductive invariant.                                                *)

Phases == {"committed", "building", "pending", "merging"}
BuildPcs == {"guarded", "building", "kept", "pending", "handed", "failing", "empty"}
MergePcs == {"guarded", "waiting", "exclusive", "begun", "merging", "applying", "applied", "marked", "done", "unsaid",
             "merged", "failing", "empty", "silent"}
WorkPcs == {"idle", "running", "refused"} \cup BuildPcs \cup MergePcs
WorkPlace == [step : {"none", "r", "build", "merge"}, pc : WorkPcs]
BgPcs == {"off", "stale", "wait", "exclusive", "merging", "applying", "applied", "marked", "done"}
Guard == [shared : BOOLEAN, mark : -1..1, streak : 0..2, refused : SUBSET {"none", "K", "R"}, baking : BOOLEAN,
          stepping : BOOLEAN, bake : BOOLEAN]
BakerPlace == [held : BOOLEAN, done : BOOLEAN, merging : BOOLEAN, abandon : {"no", "write", "go"}, bg : BgPcs, later : BOOLEAN]
Answer == [on : BOOLEAN, drain : BOOLEAN, lease : {"none", "K", "R"}]

BakeTyped ==
    /\ lower \in [ver : -1..1, half : BOOLEAN, mark : -1..1]
    /\ state \in [phase : Phases, owner : BOOLEAN, last : BOOLEAN]
    /\ place \in {"none", "building", "upper", "applied", "trash"}
    /\ bakeLock \in Nodes \cup {NoNode} /\ excl \in Nodes \cup {NoNode} /\ pick \in Nodes \cup {NoNode}
    /\ guard \in [Nodes -> Guard] /\ baker \in [Nodes -> BakerPlace] /\ work \in [Nodes -> WorkPlace]
    /\ mounted \in [Nodes -> {None} \cup -1..1]
    /\ advert \in [Nodes -> Answer]
    /\ drain \in [Nodes -> BOOLEAN] /\ lease \in [Nodes -> {"none", "K", "R"}] /\ orphan \in [Nodes -> {"none", "K", "R"}]
    /\ bake \in {"build", "merge", "bare", "done", "nothing", "failed"}
    /\ at \in -1..1 /\ excused \subseteq Nodes

\* The bake Run is of one node, which keeps its lease until the Run is over and hears of it in every answer.
OfBaked ==
    /\ \A n \in Nodes \ {Baked} :
          /\ lease[n] # "K" /\ orphan[n] # "K" /\ work[n].step \notin {"build", "merge"}
          /\ ~baker[n].held
    /\ \A n \in Nodes :
          /\ work[n].step = "none" => work[n].pc = "idle"
          /\ work[n].step = "r" => work[n].pc \in {"running", "refused"}
          /\ work[n].step # "none" => orphan[n] = "none"
    /\ work[Baked].step = "build" => work[Baked].pc \in BuildPcs
    /\ work[Baked].step = "merge" => work[Baked].pc \in MergePcs
    /\ lease[Baked] = "K" <=> bake \in {"build", "merge", "bare"}
    /\ advert[Baked].on /\ lease[Baked] = "K" => advert[Baked].lease = "K"
    /\ work[Baked].step = "build" => bake \in {"build", "failed"}
    /\ work[Baked].step = "merge" => bake \in {"merge", "bare", "failed"}

\* Who holds bake.lock: a bake that is held, or a background work; what each may find in the state.
BakerTells ==
    \A n \in Nodes :
        /\ baker[n].held => bakeLock = n /\ baker[n].bg = "off"
        /\ guard[n].bake => baker[n].held
        /\ baker[n].held /\ ~baker[n].merging => state.phase # "merging"
        /\ baker[n].abandon # "no" => baker[n].held /\ ~baker[n].merging
        /\ baker[n].done <=> baker[n].abandon # "no"
        /\ baker[n].merging => baker[n].held
        /\ baker[n].bg \notin {"off", "stale"} => bakeLock = n
        /\ baker[n].bg \in {"wait", "exclusive"} \cup Merging => state.phase = "merging"
        /\ baker[n].bg \in {"exclusive", "done"} \cup Merging => excl = n
        /\ baker[n].bg = "merging" => place = "upper"
        /\ baker[n].bg = "applying" => place = "upper" /\ lower.half
        /\ baker[n].bg \in {"applied", "marked"} => place = "applied"
        /\ baker[n].bg = "marked" => lower.mark = Result
        /\ baker[n].bg = "done" => state.phase = "committed"

\* What a place of the bake step says of the Baker, of the state and of the lower.
InHand == baker[Baked].held /\ ~baker[Baked].done
Pending == state.phase = "pending" /\ place = "upper"
WorkTells ==
    LET w == work[Baked] IN
    /\ w.step = "build" =>
          /\ w.pc \in {"building", "kept", "pending"} => InHand /\ ~baker[Baked].merging /\ ~guard[Baked].bake
          /\ w.pc \in {"building", "kept"} => state.phase = "building"
          /\ w.pc = "kept" => place = "upper"
          /\ w.pc = "pending" => Pending
          /\ w.pc = "handed" /\ lease[Baked] = "K" => InHand /\ Pending
    /\ w.step = "merge" =>
          /\ w.pc \in {"waiting", "exclusive"} =>
                /\ lease[Baked] = "K" => InHand
                /\ InHand => Pending
                /\ state.phase # "merging" /\ baker[Baked].bg \in {"off", "stale"}
          /\ w.pc \in {"begun", "done", "unsaid"} \cup Merging => InHand /\ baker[Baked].merging
          /\ w.pc \in {"exclusive", "begun", "done", "unsaid"} \cup Merging => excl = Baked
          /\ w.pc = "begun" => Pending
          /\ w.pc \in {"unsaid"} \cup Merging => state.phase = "merging" /\ state.owner
          /\ w.pc = "merging" => place = "upper"
          /\ w.pc = "applying" => place = "upper" /\ lower.half
          /\ w.pc \in {"applied", "marked", "unsaid"} => place = "applied"
          /\ w.pc \in {"marked", "unsaid"} => lower.mark = 1
          /\ w.pc = "done" => state.phase = "committed"
          /\ w.pc \in {"done", "merged"} => lower.ver = 1 /\ lower.mark = 1
          /\ w.pc = "empty" /\ bake = "merge" => lower.ver = 1 /\ lower.mark = 1
    /\ InHand /\ state.phase = "pending" => place = "upper"
    /\ baker[Baked].abandon # "no" /\ lease[Baked] = "K" =>
          (w.step = "build" /\ w.pc \in {"failing", "empty"}) \/ (w.step = "merge" /\ w.pc = "failing")

\* How far a merge came, as whoever comes next finds it.
Untouched == lower.ver = 0 /\ lower.mark = 0 /\ ~lower.half
LowerTells ==
    /\ state.phase = "committed" => lower.ver = lower.mark /\ lower.ver \in {0, 1}
    /\ state.phase \in {"building", "pending"} => Untouched /\ state.owner
    /\ state.phase = "merging" =>
          \/ place = "upper" /\ lower.ver = Result - 1 /\ lower.mark = Result - 1
          \/ place = "applied" /\ lower.ver = Result /\ lower.mark \in {Result - 1, Result} /\ ~lower.half
    /\ lower.half => state.phase = "merging"
    /\ bake = "build" \/ work[Baked].step = "build" => IF state.phase = "merging" THEN ~state.owner ELSE Untouched

\* What became of the upper the build handed over; or the merge step fails the Run.
Fate ==
    /\ bake = "merge" =>
          \/ orphan[Baked] = "K" \/ (work[Baked].step = "merge" /\ work[Baked].pc = "failing")
          \/ state.phase \in {"pending", "merging"} /\ state.owner
          \/ state.phase = "committed" /\ (state.last \/ lower.ver = 1)
    /\ bake = "done" => lower.ver = 1 /\ lower.mark = 1

\* Who shares the lower's lock is with nobody who merges, and who mounts it shares the lock or builds.
SharedTells ==
    \A n \in Nodes :
        /\ guard[n].shared => excl = NoNode /\ state.phase # "merging"
        /\ work[n].step = "r" /\ work[n].pc = "running" => guard[n].shared /\ guard[n].stepping
        /\ mounted[n] # None => (work[n].step = "r" /\ work[n].pc = "running") \/ (work[n].step = "build" /\ work[n].pc = "building")

\* The version a Run was matched to is one the lower has had, and not before its node let go of the lock.
MatchTells ==
    /\ pick # NoNode => \A n \in Nodes : lease[n] # "R"
    /\ (\E n \in Nodes : lease[n] = "R") => at <= lower.ver
    /\ \A n \in Nodes : guard[n].mark <= lower.mark
    /\ \A n \in Nodes \ excused : lease[n] = "R" => IF guard[n].shared THEN at = lower.ver ELSE guard[n].mark <= at

BakeInv == BakeTyped /\ OfBaked /\ BakerTells /\ WorkTells /\ LowerTells /\ Fate /\ SharedTells /\ MatchTells
-----------------------------------------------------------------------------
(* The guard: what each of its steps does of the lock, the mark and the    *)
(* word for a bake.                                                        *)

\* A guard that is shared was, or took a lock that is free on a lower that has not changed since.
LockMoved(g, h) ==
    IF h.shared THEN h.mark = g.mark /\ (g.shared \/ (excl = NoNode /\ state.phase # "merging" /\ lower.mark = g.mark))
    ELSE IF g.shared THEN h.mark = lower.mark ELSE h.mark = g.mark
Moved(g, h) == h \in Guard /\ h.stepping = g.stepping /\ LockMoved(g, h)

\* A guard stays one, whichever of its fields a step sets.
LEMMA GuardTypes ==
    ASSUME NEW g \in Guard
    PROVE  /\ \A b \in BOOLEAN, m \in -1..1, s \in 0..2 : [g EXCEPT !.shared = b, !.mark = m, !.streak = s] \in Guard
           /\ \A b \in BOOLEAN, s \in 0..2 : [g EXCEPT !.shared = b, !.streak = s] \in Guard
           /\ \A b \in BOOLEAN, s \in 0..2, R \in SUBSET {"none", "K", "R"} :
                 [g EXCEPT !.streak = s, !.baking = b, !.refused = R] \in Guard
           /\ \A R \in SUBSET {"none", "K", "R"} : [g EXCEPT !.refused = R] \in Guard
           /\ \A s \in 0..2 : [g EXCEPT !.streak = s] \in Guard
           /\ \A m \in -1..1 : [g EXCEPT !.mark = m] \in Guard
           /\ \A b \in BOOLEAN : /\ [g EXCEPT !.bake = b] \in Guard /\ [g EXCEPT !.baking = b] \in Guard
                                 /\ [g EXCEPT !.stepping = b] \in Guard
<1> QED BY DEF Guard

\* Constants that the field-by-field lemmas are used with.
LEMMA Values ==
    /\ TRUE \in BOOLEAN /\ FALSE \in BOOLEAN /\ 0 \in 0..2
    /\ "no" \in {"no", "write", "go"} /\ "write" \in {"no", "write", "go"} /\ "go" \in {"no", "write", "go"}
<1> QED OBVIOUS

\* The guard of a node that has just started: it holds nothing, and has read the mark.
LEMMA NewGuardTypes ==
    ASSUME NEW m \in -1..1
    PROVE  NewGuard(m) \in Guard /\ NewGuard(m).mark = m /\ ~NewGuard(m).shared /\ ~NewGuard(m).bake
<1> QED BY DEF Guard, NewGuard

\* The lock let go: the mark is read on the way.
LEMMA ReleasedMoves ==
    ASSUME lower.mark \in -1..1, NEW g \in Guard, g.shared = TRUE
    PROVE  Moved(g, Released(g)) /\ Released(g).bake = g.bake /\ Released(g).shared = FALSE
<1>1. Released(g) \in Guard
  <2>1. [g EXCEPT !.shared = FALSE, !.mark = lower.mark, !.streak = 0] \in Guard
    BY Zenon, GuardTypes, Values
  <2> QED BY Zenon, <2>1 DEF Released
<1>2. /\ Released(g).bake = g.bake /\ Released(g).shared = FALSE /\ Released(g).mark = lower.mark
      /\ Released(g).stepping = g.stepping
  BY DEF Released, Guard
<1> QED BY <1>1, <1>2 DEF Moved, LockMoved

\* A lease seen late: the lock is taken on the lower of the mark, or the Run is refused.
LEMMA LateMoves ==
    ASSUME lower.mark \in -1..1, NEW g \in Guard, NEW run \in {"none", "K", "R"}, g.shared = FALSE
    PROVE  /\ Moved(g, Late(g, run)) /\ Late(g, run).bake = g.bake
           /\ run \notin Late(g, run).refused => Late(g, run).shared = TRUE
<1>1. CASE state.phase = "merging" \/ lower.mark # g.mark \/ ~TryShared
  <2>1. Late(g, run) = [g EXCEPT !.refused = @ \cup {run}]
    BY <1>1 DEF Late
  <2>2. g.refused \cup {run} \in SUBSET {"none", "K", "R"}
    BY DEF Guard
  <2>3. Late(g, run) \in Guard
    BY <2>1, <2>2, GuardTypes
  <2>4. /\ Late(g, run).bake = g.bake /\ Late(g, run).shared = FALSE /\ Late(g, run).mark = g.mark
        /\ Late(g, run).stepping = g.stepping /\ run \in Late(g, run).refused
    BY <2>1 DEF Guard
  <2> QED BY <2>3, <2>4 DEF Moved, LockMoved
<1>2. CASE ~(state.phase = "merging" \/ lower.mark # g.mark \/ ~TryShared)
  <2>1. Late(g, run) = [g EXCEPT !.shared = TRUE, !.streak = 0]
    BY <1>2 DEF Late, Taken
  <2>3. Late(g, run) \in Guard
    <3>1. [g EXCEPT !.shared = TRUE, !.streak = 0] \in Guard
      BY Zenon, GuardTypes, Values
    <3> QED BY <2>1, <3>1
  <2>4. /\ Late(g, run).bake = g.bake /\ Late(g, run).shared = TRUE /\ Late(g, run).mark = g.mark
        /\ Late(g, run).stepping = g.stepping
    BY <2>1 DEF Guard
  <2> QED BY <1>2, <2>3, <2>4 DEF Moved, LockMoved, TryShared
<1> QED BY <1>1, <1>2

\* What the answer of an advert does of the lock; a step that runs keeps it.
LEMMA AnswerMoves ==
    ASSUME lower.mark \in -1..1, NEW g \in Guard, NEW a \in Answer
    PROVE  Moved(g, Answered(g, a)) /\ Answered(g, a).bake = g.bake /\ (g.shared /\ g.stepping => Answered(g, a).shared)
<1> DEFINE streak == IF a.lease # "none" \/ ~a.drain THEN 0 ELSE IF g.streak < 2 THEN g.streak + 1 ELSE 2
           baking == g.baking /\ a.lease = "K"
           refused == g.refused \cap {a.lease}
           seen == [g EXCEPT !.streak = streak, !.baking = baking, !.refused = refused]
           counts == a.lease # "none" /\ ~(a.lease = "K" /\ (baking \/ g.bake))
           h == Answered(g, a)
<1>1. a.lease \in {"none", "K", "R"} /\ g.streak \in 0..2 /\ g.refused \in SUBSET {"none", "K", "R"}
  BY DEF Answer, Guard
<1>2. streak \in 0..2 /\ baking \in BOOLEAN /\ refused \in SUBSET {"none", "K", "R"}
  BY <1>1
<1>3. seen \in Guard
  <2> HIDE DEF streak, baking, refused
  <2> QED BY <1>2, GuardTypes
<1>4. seen.bake = g.bake /\ seen.shared = g.shared /\ seen.mark = g.mark /\ seen.stepping = g.stepping
  <2> HIDE DEF streak, baking, refused
  <2> QED BY DEF Guard
<1>5. h = CASE g.shared /\ a.lease = "none" /\ streak = 2 /\ ~g.stepping -> Released(seen)
            [] ~g.shared /\ ~g.bake /\ counts /\ a.lease \notin seen.refused -> Late(seen, a.lease)
            [] OTHER -> seen
  BY DEF Answered
<1>6. \/ g.shared /\ ~g.stepping /\ h = Released(seen)
      \/ ~g.shared /\ h = Late(seen, a.lease)
      \/ h = seen
  <2> HIDE DEF h, streak, counts, seen, baking
  <2> QED BY <1>5
<1> HIDE DEF h, streak, counts, seen, baking
<1> DEFINE Goal == Moved(g, h) /\ h.bake = g.bake /\ (g.shared /\ g.stepping => h.shared)
<1>7. ASSUME g.shared /\ ~g.stepping /\ h = Released(seen) PROVE Goal
  <2>1. seen.shared = TRUE /\ ~(g.shared /\ g.stepping)
    <3>1. g.shared \in BOOLEAN
      BY DEF Guard
    <3> QED BY Zenon, <1>4, <1>7, <3>1
  <2>2. Moved(seen, h) /\ h.bake = seen.bake
    BY <1>3, <1>7, <2>1, ReleasedMoves
  <2>3. Moved(g, h)
    BY <1>4, <2>2 DEF Moved, LockMoved
  <2> QED BY Zenon, <1>4, <2>1, <2>2, <2>3
<1>8. ASSUME ~g.shared /\ h = Late(seen, a.lease) PROVE Goal
  <2>1. seen.shared = FALSE
    <3>1. g.shared \in BOOLEAN
      BY DEF Guard
    <3> QED BY Zenon, <1>4, <1>8, <3>1
  <2>2. Moved(seen, h) /\ h.bake = seen.bake
    BY <1>1, <1>3, <1>8, <2>1, LateMoves
  <2>3. Moved(g, h)
    BY <1>4, <2>2 DEF Moved, LockMoved
  <2> QED BY Zenon, <1>4, <1>8, <2>2, <2>3
<1>9. ASSUME h = seen PROVE Goal
  <2>1. Moved(g, h)
    <3>1. h \in Guard /\ h.stepping = g.stepping /\ h.shared = g.shared /\ h.mark = g.mark
      BY Zenon, <1>3, <1>4, <1>9
    <3> QED BY <3>1 DEF Moved, LockMoved
  <2>2. h.bake = g.bake /\ h.shared = g.shared
    BY Zenon, <1>4, <1>9
  <2> QED BY Zenon, <2>1, <2>2
<1>10. Goal
  <2> HIDE DEF Goal
  <2> QED BY Zenon, <1>6, <1>7, <1>8, <1>9
<1> QED BY Zenon, <1>10 DEF h

\* A claim keeps or takes the lock for an ordinary step, and lets it go for one of a bake.
LEMMA ClaimMoves ==
    ASSUME lower.mark \in -1..1, NEW g \in Guard, NEW step \in {"r", "build", "merge"}
    PROVE  LET h == OnClaim([g EXCEPT !.stepping = TRUE], step) IN
           /\ Moved([g EXCEPT !.stepping = TRUE], h) /\ h.bake = g.bake /\ h.stepping = TRUE
           /\ step = "r" /\ "R" \notin h.refused => h.shared = TRUE
<1> DEFINE k == [g EXCEPT !.stepping = TRUE]
           h == OnClaim(k, step)
           l == IF k.shared THEN Released(k) ELSE k
<1>1. k \in Guard
  BY Zenon, GuardTypes, Values
<1>2. k.bake = g.bake /\ k.shared = g.shared /\ k.mark = g.mark /\ k.stepping = TRUE /\ k.refused = g.refused
  BY DEF Guard
<1> HIDE DEF k
<1>3. CASE step # "r"
  <2>1. Moved(k, l) /\ l.bake = k.bake
    <3>1. CASE k.shared
      BY <1>1, <3>1, ReleasedMoves
    <3>2. CASE ~k.shared
      BY <1>1, <3>2 DEF Moved, LockMoved
    <3> QED BY <3>1, <3>2
  <2>2. h = [l EXCEPT !.baking = TRUE]
    BY <1>3 DEF OnClaim
  <2>3. l \in Guard
    BY <2>1 DEF Moved, LockMoved
  <2>4. h \in Guard /\ h.bake = l.bake /\ h.stepping = l.stepping /\ h.shared = l.shared /\ h.mark = l.mark
    <3> HIDE DEF l, h
    <3>1. h \in Guard
      <4>1. [l EXCEPT !.baking = TRUE] \in Guard
        BY Zenon, <2>3, GuardTypes, Values
      <4> QED BY <2>2, <4>1
    <3> QED BY <2>2, <2>3, <3>1 DEF Guard
  <2> HIDE DEF l, h
  <2>5. Moved(k, h) /\ h.bake = g.bake /\ h.stepping = TRUE
    BY <1>2, <2>1, <2>4 DEF Moved, LockMoved
  <2> QED BY <1>3, <2>5 DEF h, k
<1>4. CASE step = "r" /\ "R" \in k.refused
  <2>1. h = k
    BY <1>4 DEF OnClaim
  <2> HIDE DEF h
  <2>2. Moved(k, h) /\ h.bake = g.bake /\ h.stepping = TRUE /\ "R" \in h.refused
    BY <1>1, <1>2, <1>4, <2>1 DEF Moved, LockMoved
  <2> QED BY <2>2 DEF h, k
<1>5. CASE step = "r" /\ "R" \notin k.refused /\ k.shared
  <2>1. h = [k EXCEPT !.streak = 0]
    BY <1>5 DEF OnClaim
  <2>2. h \in Guard /\ h.bake = k.bake /\ h.stepping = k.stepping /\ h.shared = k.shared /\ h.mark = k.mark
    <3> HIDE DEF h
    <3>1. h \in Guard
      <4>1. [k EXCEPT !.streak = 0] \in Guard
        BY Zenon, <1>1, GuardTypes, Values
      <4> QED BY <2>1, <4>1
    <3> QED BY <1>1, <2>1, <3>1 DEF Guard
  <2> HIDE DEF h
  <2>3. Moved(k, h) /\ h.bake = g.bake /\ h.stepping = TRUE /\ h.shared = TRUE
    <3>1. k.shared = TRUE
      BY <1>1, <1>5 DEF Guard
    <3> QED BY <1>2, <1>5, <2>2, <3>1 DEF Moved, LockMoved
  <2> QED BY <2>3 DEF h, k
<1>6. CASE step = "r" /\ "R" \notin k.refused /\ ~k.shared
  <2>1. h = Late(k, "R")
    BY <1>6 DEF OnClaim
  <2>2. k.shared = FALSE
    BY <1>1, <1>6 DEF Guard
  <2> HIDE DEF h
  <2>3. Moved(k, h) /\ h.bake = g.bake /\ ("R" \notin h.refused => h.shared = TRUE)
    BY <1>1, <1>2, <2>1, <2>2, LateMoves
  <2>4. h.stepping = TRUE
    BY <1>2, <2>3 DEF Moved, LockMoved
  <2> QED BY <2>3, <2>4 DEF h, k
<1> QED BY <1>3, <1>4, <1>5, <1>6

\* The word for a bake is withdrawn, with a new mark unless the lock is held.
LEMMA DropMoves ==
    ASSUME lower.mark \in -1..1, NEW g \in Guard
    PROVE  /\ DropBake(g) \in Guard /\ DropBake(g).bake = FALSE /\ DropBake(g).shared = g.shared /\ DropBake(g).stepping = g.stepping
           /\ DropBake(g).mark = (IF g.shared THEN g.mark ELSE lower.mark)
<1>1. CASE g.shared
  <2>1. DropBake(g) = [g EXCEPT !.bake = FALSE]
    BY <1>1 DEF DropBake
  <2>2. DropBake(g) \in Guard
    BY Zenon, <2>1, GuardTypes, Values
  <2> QED BY <1>1, <2>1, <2>2 DEF Guard
<1>2. CASE ~g.shared
  <2>1. DropBake(g) = [[g EXCEPT !.bake = FALSE] EXCEPT !.mark = lower.mark]
    BY <1>2 DEF DropBake
  <2>2. [g EXCEPT !.bake = FALSE] \in Guard
    BY Zenon, GuardTypes, Values
  <2>3. DropBake(g) \in Guard
    BY <2>1, <2>2, GuardTypes
  <2> QED BY <1>2, <2>1, <2>3 DEF Guard
<1> QED BY <1>1, <1>2

\* A Baker stays one, whichever of its fields a step sets.
LEMMA BakerTypes ==
    ASSUME NEW b \in BakerPlace
    PROVE  /\ \A h \in BOOLEAN, d \in BOOLEAN, m \in BOOLEAN, a \in {"no", "write", "go"} :
                 [b EXCEPT !.held = h, !.done = d, !.merging = m, !.abandon = a] \in BakerPlace
           /\ \A d \in BOOLEAN, a \in {"no", "write", "go"} : [b EXCEPT !.done = d, !.abandon = a] \in BakerPlace
           /\ \A p \in BgPcs, l \in BOOLEAN : [b EXCEPT !.bg = p, !.later = l] \in BakerPlace
           /\ \A a \in {"no", "write", "go"} : [b EXCEPT !.abandon = a] \in BakerPlace
           /\ \A p \in BgPcs : [b EXCEPT !.bg = p] \in BakerPlace
           /\ \A v \in BOOLEAN : /\ [b EXCEPT !.held = v] \in BakerPlace /\ [b EXCEPT !.merging = v] \in BakerPlace
                                 /\ [b EXCEPT !.later = v] \in BakerPlace
<1> QED BY DEF BakerPlace

\* The Baker of a node that has just started, with or without a merge to take up.
LEMMA NewBakerTypes ==
    ASSUME NEW p \in BgPcs
    PROVE  /\ NewBaker \in BakerPlace /\ ~NewBaker.held /\ ~NewBaker.done /\ NewBaker.abandon = "no" /\ NewBaker.bg = "off" /\ ~NewBaker.merging
           /\ [NewBaker EXCEPT !.bg = p] \in BakerPlace
           /\ [NewBaker EXCEPT !.bg = p].bg = p /\ ~[NewBaker EXCEPT !.bg = p].held /\ ~[NewBaker EXCEPT !.bg = p].done 
           /\ [NewBaker EXCEPT !.bg = p].abandon = "no" /\ ~[NewBaker EXCEPT !.bg = p].merging
<1> QED BY DEF BakerPlace, NewBaker, BgPcs

\* Abandoning marks a bake that is held and does not merge; of any other it is nothing.
LEMMA AbandonMoves ==
    ASSUME NEW b \in BakerPlace
    PROVE  /\ Abandon(b) \in BakerPlace /\ Abandon(b).held = b.held /\ Abandon(b).merging = b.merging /\ Abandon(b).bg = b.bg
           /\ \/ Abandon(b).done = b.done /\ Abandon(b).abandon = b.abandon
              \/ b.held /\ ~b.done /\ ~b.merging /\ Abandon(b).done = TRUE /\ Abandon(b).abandon = "write"
<1>1. CASE b.held /\ ~b.done /\ ~b.merging
  <2>1. Abandon(b) = [b EXCEPT !.done = TRUE, !.abandon = "write"]
    BY <1>1 DEF Abandon
  <2>2. Abandon(b) \in BakerPlace
    <3>1. [b EXCEPT !.done = TRUE, !.abandon = "write"] \in BakerPlace
      BY Zenon, BakerTypes, Values
    <3> QED BY <2>1, <3>1
  <2>3. /\ Abandon(b).held = b.held /\ Abandon(b).merging = b.merging /\ Abandon(b).bg = b.bg
        /\ Abandon(b).done = TRUE /\ Abandon(b).abandon = "write"
    BY <2>1 DEF BakerPlace
  <2> QED BY <1>1, <2>2, <2>3
<1>2. CASE ~(b.held /\ ~b.done /\ ~b.merging)
  <2>1. Abandon(b) = b
    BY <1>2 DEF Abandon
  <2> QED BY <2>1
<1> QED BY <1>1, <1>2
-----------------------------------------------------------------------------
(* What each action changes, variable by variable.                         *)

\* A function with one value changed.
LEMMA Update ==
    ASSUME NEW S, NEW T, NEW f \in [S -> T], NEW n \in S, NEW v \in T
    PROVE  [f EXCEPT ![n] = v] \in [S -> T] /\ [f EXCEPT ![n] = v][n] = v /\ \A m \in S \ {n} : [f EXCEPT ![n] = v][m] = f[m]
<1> QED OBVIOUS

\* The parts of the type that a step's effect on a node needs.
LEMMA Parts ==
    ASSUME BakeTyped
    PROVE  /\ guard \in [Nodes -> Guard] /\ baker \in [Nodes -> BakerPlace] /\ work \in [Nodes -> WorkPlace]
           /\ advert \in [Nodes -> Answer] /\ lower.mark \in -1..1
           /\ \A n \in Nodes : guard[n] \in Guard /\ baker[n] \in BakerPlace /\ work[n] \in WorkPlace /\ advert[n] \in Answer
<1> QED BY DEF BakeTyped

\* Only the guard of n changes, and it becomes h.
GuardOf(n) == guard' \in [Nodes -> Guard] /\ \A m \in Nodes \ {n} : guard'[m] = guard[m]
BakerOf(n) == baker' \in [Nodes -> BakerPlace] /\ \A m \in Nodes \ {n} : baker'[m] = baker[m]
WorkOf(n) == work' \in [Nodes -> WorkPlace] /\ \A m \in Nodes \ {n} : work'[m] = work[m]
\* A Baker's fields but for its retry.
SameBake(b, c) == b.held = c.held /\ b.done = c.done /\ b.merging = c.merging /\ b.abandon = c.abandon
SameBaker(b, c) == SameBake(b, c) /\ b.bg = c.bg

\* A guard that is replaced.
LEMMA GuardBecomes ==
    ASSUME BakeTyped, NEW n \in Nodes, NEW h \in Guard, guard' = [guard EXCEPT ![n] = h]
    PROVE  GuardOf(n) /\ guard'[n] = h
<1> QED BY Parts, Update DEF GuardOf

\* A Baker that is replaced.
LEMMA BakerBecomes ==
    ASSUME BakeTyped, NEW n \in Nodes, NEW b \in BakerPlace, baker' = [baker EXCEPT ![n] = b]
    PROVE  BakerOf(n) /\ baker'[n] = b
<1> QED BY Parts, Update DEF BakerOf

\* The Worker goes on to another place of its step.
LEMMA WorkGoes ==
    ASSUME BakeTyped, NEW n \in Nodes, NEW pc \in WorkPcs, GoTo(n, pc)
    PROVE  WorkOf(n) /\ work'[n].step = work[n].step /\ work'[n].pc = pc
<1>1. work \in [Nodes -> WorkPlace] /\ work' = [work EXCEPT ![n].pc = pc]
  BY Parts DEF GoTo
<1> QED BY <1>1 DEF WorkPlace, WorkOf

\* The Worker's place is replaced.
LEMMA WorkBecomes ==
    ASSUME BakeTyped, NEW n \in Nodes, NEW w \in WorkPlace, work' = [work EXCEPT ![n] = w]
    PROVE  WorkOf(n) /\ work'[n] = w
<1> QED BY Parts, Update DEF WorkOf

\* The background work goes on to another place.
LEMMA BgGoes ==
    ASSUME BakeTyped, NEW n \in Nodes, NEW p \in BgPcs, baker' = Bg(n, p)
    PROVE  BakerOf(n) /\ SameBake(baker'[n], baker[n]) /\ baker'[n].bg = p
<1>1. baker' = [baker EXCEPT ![n] = [baker[n] EXCEPT !.bg = p]]
  BY Parts DEF Bg
<1>2. [baker[n] EXCEPT !.bg = p] \in BakerPlace
  BY Parts, BakerTypes
<1>3. BakerOf(n) /\ baker'[n] = [baker[n] EXCEPT !.bg = p]
  BY <1>1, <1>2, BakerBecomes
<1>4. baker[n] \in BakerPlace
  BY Parts
<1> QED BY <1>3, <1>4 DEF BakerPlace, SameBake

\* The Baker after its bake was abandoned.
LEMMA Abandoned ==
    ASSUME BakeTyped, NEW n \in Nodes, baker' = [baker EXCEPT ![n] = Abandon(@)]
    PROVE  /\ BakerOf(n) /\ baker'[n].held = baker[n].held /\ baker'[n].merging = baker[n].merging /\ baker'[n].bg = baker[n].bg
           /\ \/ SameBaker(baker'[n], baker[n])
              \/ baker[n].held /\ ~baker[n].done /\ ~baker[n].merging /\ baker'[n].done /\ baker'[n].abandon = "write"
<1>1. baker' = [baker EXCEPT ![n] = Abandon(baker[n])] /\ baker[n] \in BakerPlace
  BY Parts
<1>2. BakerOf(n) /\ baker'[n] = Abandon(baker[n])
  <2>1. Abandon(baker[n]) \in BakerPlace
    BY Zenon, <1>1, AbandonMoves
  <2> QED BY <1>1, <2>1, BakerBecomes
<1>3. /\ baker'[n].held = baker[n].held /\ baker'[n].merging = baker[n].merging /\ baker'[n].bg = baker[n].bg
      /\ \/ baker'[n].done = baker[n].done /\ baker'[n].abandon = baker[n].abandon
         \/ baker[n].held /\ ~baker[n].done /\ ~baker[n].merging /\ baker'[n].done = TRUE /\ baker'[n].abandon = "write"
  <2> DEFINE a == Abandon(baker[n])
  <2>1. /\ a.held = baker[n].held /\ a.merging = baker[n].merging /\ a.bg = baker[n].bg
        /\ \/ a.done = baker[n].done /\ a.abandon = baker[n].abandon
           \/ baker[n].held /\ ~baker[n].done /\ ~baker[n].merging /\ a.done = TRUE /\ a.abandon = "write"
    BY Zenon, <1>1, AbandonMoves
  <2>2. baker'[n] = a
    BY <1>2
  <2> HIDE DEF a
  <2> QED BY Zenon, <2>1, <2>2
<1> QED BY <1>2, <1>3 DEF SameBaker, SameBake

\* A bake that is let go: nothing of it is left, and its mark is today's.
LEMMA LetsGo ==
    ASSUME BakeTyped, NEW n \in Nodes, LetGo(n)
    PROVE  /\ GuardOf(n) /\ ~guard'[n].bake /\ guard'[n].shared = guard[n].shared /\ guard'[n].stepping = guard[n].stepping
           /\ guard'[n].mark = (IF guard[n].shared THEN guard[n].mark ELSE lower.mark)
           /\ BakerOf(n) /\ ~baker'[n].held /\ ~baker'[n].done /\ ~baker'[n].merging /\ baker'[n].abandon = "no"
           /\ baker'[n].bg = baker[n].bg
<1>1. guard' = [guard EXCEPT ![n] = DropBake(guard[n])] /\ guard[n] \in Guard /\ lower.mark \in -1..1
  BY Parts DEF LetGo
<1>2. GuardOf(n) /\ guard'[n] = DropBake(guard[n])
  BY <1>1, DropMoves, GuardBecomes
<1>3. /\ ~guard'[n].bake /\ guard'[n].shared = guard[n].shared /\ guard'[n].stepping = guard[n].stepping
      /\ guard'[n].mark = (IF guard[n].shared THEN guard[n].mark ELSE lower.mark)
  BY <1>1, <1>2, DropMoves
<1> DEFINE b == [baker[n] EXCEPT !.held = FALSE, !.done = FALSE, !.merging = FALSE, !.abandon = "no"]
<1>4. baker[n] \in BakerPlace /\ baker' = [baker EXCEPT ![n] = b]
  BY Parts DEF LetGo
<1>5. b \in BakerPlace
  BY Zenon, <1>4, BakerTypes, Values
<1>6. ~b.held /\ ~b.done /\ ~b.merging /\ b.abandon = "no" /\ b.bg = baker[n].bg
  BY <1>4 DEF BakerPlace
<1> HIDE DEF b
<1>7. BakerOf(n) /\ baker'[n] = b
  BY <1>4, <1>5, BakerBecomes
<1> QED BY <1>2, <1>3, <1>6, <1>7

\* An advert takes a free lock for a node that wants it, or opens the background work.
LEMMA AdvertDoes ==
    ASSUME BakeTyped, NEW n \in Nodes, Advert(n)
    PROVE  /\ GuardOf(n) /\ guard'[n].bake = guard[n].bake /\ guard'[n].stepping = guard[n].stepping /\ guard'[n].mark = guard[n].mark
           /\ \/ guard'[n].shared = guard[n].shared
              \/ ~guard[n].shared /\ guard'[n].shared /\ excl = NoNode /\ state.phase # "merging" /\ (lease[n] = "R" => n \in excused')
           /\ BakerOf(n) /\ SameBake(baker'[n], baker[n])
           /\ baker'[n].bg = baker[n].bg \/ (~baker[n].held /\ baker[n].bg = "off" /\ baker'[n].bg = "stale")
<1>1. guard[n] \in Guard /\ baker[n] \in BakerPlace /\ baker \in [Nodes -> BakerPlace]
  BY Parts
<1> DEFINE want == ~Draining /\ ~guard[n].shared /\ ~guard[n].bake
           h == IF want /\ TryShared THEN Taken(guard[n]) ELSE guard[n]
<1>2. guard' = [guard EXCEPT ![n] = h]
  BY Parts DEF Advert
<1>3. excused' = IF want /\ TryShared /\ Leased(n, "R") THEN excused \cup {n} ELSE excused
  BY DEF Advert
<1>4. Taken(guard[n]) \in Guard
  <2>1. [guard[n] EXCEPT !.shared = TRUE, !.streak = 0] \in Guard
    BY Zenon, <1>1, GuardTypes, Values
  <2> QED BY <2>1 DEF Taken
<1>5. h \in Guard
  BY <1>1, <1>4
<1>6. GuardOf(n) /\ guard'[n] = h
  <2> HIDE DEF h
  <2> QED BY <1>2, <1>5, GuardBecomes
<1>7. /\ guard'[n].bake = guard[n].bake /\ guard'[n].stepping = guard[n].stepping /\ guard'[n].mark = guard[n].mark
      /\ \/ guard'[n].shared = guard[n].shared
         \/ ~guard[n].shared /\ guard'[n].shared /\ excl = NoNode /\ state.phase # "merging" /\ (lease[n] = "R" => n \in excused')
  <2>1. CASE want /\ TryShared
    <3>1. guard'[n] = Taken(guard[n])
      BY <1>6, <2>1
    <3>2. Taken(guard[n]).bake = guard[n].bake /\ Taken(guard[n]).stepping = guard[n].stepping
          /\ Taken(guard[n]).mark = guard[n].mark /\ Taken(guard[n]).shared = TRUE
      BY <1>1 DEF Taken, Guard
    <3>3. lease[n] = "R" => n \in excused'
      BY <1>3, <2>1 DEF Leased
    <3>4. ~guard[n].shared /\ excl = NoNode /\ state.phase # "merging"
      BY <2>1 DEF TryShared, Draining
    <3> HIDE DEF want
    <3> QED BY Zenon, <3>1, <3>2, <3>3, <3>4
  <2>2. CASE ~(want /\ TryShared)
    BY <1>6, <2>2
  <2> QED BY <2>1, <2>2
<1>8. baker' = baker \/ (~baker[n].held /\ baker[n].bg = "off" /\ baker' = [baker EXCEPT ![n] = [baker[n] EXCEPT !.bg = "stale"]])
  BY <1>1 DEF Advert, OnStale
<1>9. BakerOf(n) /\ SameBake(baker'[n], baker[n])
           /\ (baker'[n].bg = baker[n].bg \/ (~baker[n].held /\ baker[n].bg = "off" /\ baker'[n].bg = "stale"))
  <2>1. CASE baker' = baker
    BY <1>1, <2>1 DEF BakerOf, SameBake
  <2>2. CASE ~baker[n].held /\ baker[n].bg = "off" /\ baker' = [baker EXCEPT ![n] = [baker[n] EXCEPT !.bg = "stale"]]
    <3>1. baker' = Bg(n, "stale") /\ "stale" \in BgPcs
      BY <1>1, <2>2 DEF Bg, BgPcs
    <3>2. BakerOf(n) /\ SameBake(baker'[n], baker[n]) /\ baker'[n].bg = "stale"
      BY <3>1, BgGoes
    <3> QED BY <2>2, <3>2
  <2> QED BY <1>8, <2>1, <2>2
<1> QED BY <1>6, <1>7, <1>9

\* An answer moves the lock, and abandons a bake whose lease has gone.
LEMMA AnswerDoes ==
    ASSUME BakeTyped, NEW n \in Nodes, AfterResponse(n)
    PROVE  /\ GuardOf(n) /\ LockMoved(guard[n], guard'[n]) /\ guard'[n].stepping = guard[n].stepping
           /\ (guard'[n].bake => guard[n].bake) /\ (guard[n].shared /\ guard[n].stepping => guard'[n].shared)
           /\ BakerOf(n) /\ baker'[n].held = baker[n].held /\ baker'[n].merging = baker[n].merging /\ baker'[n].bg = baker[n].bg
           /\ \/ SameBaker(baker'[n], baker[n])
              \/ /\ baker[n].held /\ ~baker[n].done /\ ~baker[n].merging /\ baker'[n].done /\ baker'[n].abandon = "write"
                 /\ guard[n].bake /\ advert[n].on /\ advert[n].lease # "K" /\ state.phase = "pending"
<1>1. guard[n] \in Guard /\ baker[n] \in BakerPlace /\ guard \in [Nodes -> Guard] /\ baker \in [Nodes -> BakerPlace]
      /\ advert[n] \in Answer /\ lower.mark \in -1..1
  BY Parts
<1>2. CASE UNCHANGED <<guard, baker>>
  <2>1. LockMoved(guard[n], guard[n])
    BY <1>1 DEF LockMoved, Guard
  <2>2. guard'[n] = guard[n] /\ baker'[n] = baker[n] /\ GuardOf(n) /\ BakerOf(n)
    BY <1>1, <1>2 DEF GuardOf, BakerOf
  <2>3. LockMoved(guard[n], guard'[n])
    BY <2>1, <2>2
  <2> QED BY Zenon, <2>2, <2>3 DEF SameBaker, SameBake
<1>3. ASSUME NEW gone \in BOOLEAN, gone = BakeGone(guard[n], advert[n].lease),
             guard' = [guard EXCEPT ![n] = [Answered(@, advert[n]) EXCEPT !.bake = guard[n].bake /\ ~gone]],
             baker' = IF gone THEN [baker EXCEPT ![n] = Abandon(@)] ELSE baker,
             advert[n].on
      PROVE  /\ GuardOf(n) /\ LockMoved(guard[n], guard'[n]) /\ guard'[n].stepping = guard[n].stepping
             /\ (guard'[n].bake => guard[n].bake) /\ (guard[n].shared /\ guard[n].stepping => guard'[n].shared)
             /\ BakerOf(n) /\ baker'[n].held = baker[n].held /\ baker'[n].merging = baker[n].merging /\ baker'[n].bg = baker[n].bg
             /\ \/ SameBaker(baker'[n], baker[n])
                \/ /\ baker[n].held /\ ~baker[n].done /\ ~baker[n].merging /\ baker'[n].done /\ baker'[n].abandon = "write"
                   /\ guard[n].bake /\ advert[n].on /\ advert[n].lease # "K" /\ state.phase = "pending"
  <2> DEFINE g == Answered(guard[n], advert[n])
             b == guard[n].bake /\ ~gone
             h == [g EXCEPT !.bake = b]
  <2>1. Moved(guard[n], g) /\ g.bake = guard[n].bake /\ (guard[n].shared /\ guard[n].stepping => g.shared)
    BY <1>1, AnswerMoves
  <2>2. g \in Guard /\ LockMoved(guard[n], g) /\ g.stepping = guard[n].stepping
    BY <2>1 DEF Moved
  <2>3. guard' = [guard EXCEPT ![n] = h]
    BY Zenon, <1>3
  <2>4. b \in BOOLEAN
    OBVIOUS
  <2> HIDE DEF g
  <2>5. h \in Guard /\ h.bake = b /\ h.stepping = g.stepping /\ h.shared = g.shared /\ h.mark = g.mark
    <3> HIDE DEF b
    <3>1. h \in Guard
      BY Zenon, <2>2, <2>4, GuardTypes
    <3> QED BY <2>2, <3>1 DEF Guard
  <2> HIDE DEF h
  <2>6. GuardOf(n) /\ guard'[n] = h
    BY <2>3, <2>5, GuardBecomes
  <2>7. LockMoved(guard[n], h)
    BY <2>2, <2>5 DEF LockMoved
  <2>8. h.bake => guard[n].bake
    BY Zenon, <2>1, <2>5
  <2>9. guard[n].shared /\ guard[n].stepping => h.shared
    BY Zenon, <2>1, <2>5
  <2>10. /\ BakerOf(n) /\ baker'[n].held = baker[n].held /\ baker'[n].merging = baker[n].merging /\ baker'[n].bg = baker[n].bg
         /\ \/ SameBaker(baker'[n], baker[n])
            \/ /\ baker[n].held /\ ~baker[n].done /\ ~baker[n].merging /\ baker'[n].done /\ baker'[n].abandon = "write"
               /\ guard[n].bake /\ advert[n].on /\ advert[n].lease # "K" /\ state.phase = "pending"
    <3>1. CASE ~gone
      <4>1. baker' = baker
        BY <1>3, <3>1
      <4>2. BakerOf(n) /\ baker'[n] = baker[n]
        BY <1>1, <4>1 DEF BakerOf
      <4> QED BY Zenon, <4>2 DEF SameBaker, SameBake
    <3>2. CASE gone
      <4>1. baker' = [baker EXCEPT ![n] = Abandon(@)]
        BY <1>3, <3>2
      <4>2. guard[n].bake /\ advert[n].lease # "K" /\ state.phase = "pending"
        BY <1>3, <3>2 DEF BakeGone
      <4> QED BY Zenon, <1>3, <4>1, <4>2, Abandoned
    <3> QED BY <3>1, <3>2
  <2>11. guard'[n].stepping = guard[n].stepping
    BY Zenon, <2>2, <2>5, <2>6
  <2> QED BY Zenon, <2>6, <2>7, <2>8, <2>9, <2>10, <2>11
<1>4. BakeGone(guard[n], advert[n].lease) \in BOOLEAN
  BY DEF BakeGone
<1>5. \/ UNCHANGED <<guard, baker>>
      \/ /\ advert[n].on
         /\ guard' = [guard EXCEPT ![n] = [Answered(@, advert[n]) EXCEPT
                          !.bake = guard[n].bake /\ ~BakeGone(guard[n], advert[n].lease)]]
         /\ baker' = IF BakeGone(guard[n], advert[n].lease) THEN [baker EXCEPT ![n] = Abandon(@)] ELSE baker
  BY Zenon DEF AfterResponse
<1> QED BY Zenon, <1>2, <1>3, <1>4, <1>5

\* A Worker without a step.
LEMMA NoWorkIs == NoWork \in WorkPlace /\ NoWork.step = "none" /\ NoWork.pc = "idle"
<1> QED BY DEF NoWork, WorkPlace, WorkPcs

\* A claim: a step of the ordinary Run runs only with the lock.
LEMMA ClaimDoes ==
    ASSUME BakeTyped, NEW n \in Nodes, NEW step \in {"r", "build", "merge"}, Claim(n, step)
    PROVE  /\ GuardOf(n) /\ LockMoved(guard[n], guard'[n]) /\ guard'[n].bake = guard[n].bake /\ guard'[n].stepping
           /\ WorkOf(n) /\ work[n].step = "none" /\ work'[n].step = step
           /\ IF step # "r" THEN work'[n].pc = "guarded"
              ELSE work'[n].pc = "refused" \/ (work'[n].pc = "running" /\ guard'[n].shared)
           /\ mounted' = [mounted EXCEPT ![n] = IF work'[n].pc = "running" THEN lower.ver ELSE mounted[n]]
<1>1. guard[n] \in Guard /\ lower.mark \in -1..1
  BY Parts
<1> DEFINE k == [guard[n] EXCEPT !.stepping = TRUE]
           h == OnClaim(k, step)
           pc == IF step # "r" THEN "guarded" ELSE IF "R" \in h.refused THEN "refused" ELSE "running"
<1>2. Moved(k, h) /\ h.bake = guard[n].bake /\ h.stepping = TRUE /\ (step = "r" /\ "R" \notin h.refused => h.shared = TRUE)
  BY <1>1, ClaimMoves
<1>3. k.shared = guard[n].shared /\ k.mark = guard[n].mark
  BY <1>1 DEF Guard
<1>4. h \in Guard /\ LockMoved(guard[n], h)
  <2> HIDE DEF k, h
  <2> QED BY <1>2, <1>3 DEF Moved, LockMoved
<1>5. /\ guard' = [guard EXCEPT ![n] = h]
      /\ work' = [work EXCEPT ![n] = [step |-> step, pc |-> pc]]
      /\ mounted' = [mounted EXCEPT ![n] = IF pc = "running" THEN lower.ver ELSE @]
      /\ work[n] = NoWork
  BY Zenon DEF Claim
<1> HIDE DEF h
<1>6. GuardOf(n) /\ guard'[n] = h
  BY <1>4, <1>5, GuardBecomes
<1>7. [step |-> step, pc |-> pc] \in WorkPlace
  BY DEF WorkPlace, WorkPcs, BuildPcs
<1>8. WorkOf(n) /\ work'[n] = [step |-> step, pc |-> pc]
  <2> HIDE DEF pc
  <2> QED BY <1>5, <1>7, WorkBecomes
<1>9. work'[n].step = step /\ work'[n].pc = pc
  BY <1>8
<1>10. guard'[n].bake = guard[n].bake /\ guard'[n].stepping /\ LockMoved(guard[n], guard'[n])
  BY Zenon, <1>2, <1>4, <1>6
<1>11. IF step # "r" THEN work'[n].pc = "guarded"
       ELSE work'[n].pc = "refused" \/ (work'[n].pc = "running" /\ guard'[n].shared)
  BY <1>2, <1>6, <1>9
<1>12. mounted' = [mounted EXCEPT ![n] = IF work'[n].pc = "running" THEN lower.ver ELSE mounted[n]]
  <2> HIDE DEF pc
  <2> QED BY Zenon, <1>5, <1>9
<1> QED BY <1>5, <1>6, <1>8, <1>9, <1>10, <1>11, <1>12, NoWorkIs

\* A step that is over leaves the lock as it is.
LEMMA WorkEnds ==
    ASSUME BakeTyped, NEW n \in Nodes, work' = [work EXCEPT ![n] = NoWork], guard' = [guard EXCEPT ![n].stepping = FALSE]
    PROVE  /\ GuardOf(n) /\ guard'[n].shared = guard[n].shared /\ guard'[n].mark = guard[n].mark /\ guard'[n].bake = guard[n].bake
           /\ WorkOf(n) /\ work'[n].step = "none" /\ work'[n].pc = "idle"
<1>1. guard[n] \in Guard
  BY Parts
<1> DEFINE h == [guard[n] EXCEPT !.stepping = FALSE]
<1>2. h \in Guard
  BY Zenon, <1>1, GuardTypes, Values
<1>3. h.shared = guard[n].shared /\ h.mark = guard[n].mark /\ h.bake = guard[n].bake
  BY <1>1 DEF Guard
<1>4. guard' = [guard EXCEPT ![n] = h]
  OBVIOUS
<1> HIDE DEF h
<1>5. GuardOf(n) /\ guard'[n] = h
  BY <1>2, <1>4, GuardBecomes
<1>6. WorkOf(n) /\ work'[n] = NoWork
  BY NoWorkIs, WorkBecomes
<1> QED BY <1>3, <1>5, <1>6, NoWorkIs

\* The build's hand-over: the lock is let go, the guard keeps the word for the bake.
LEMMA HoldsBake ==
    ASSUME BakeTyped, NEW n \in Nodes, HoldBake(n)
    PROVE  GuardOf(n) /\ LockMoved(guard[n], guard'[n]) /\ guard'[n].bake /\ guard'[n].stepping = guard[n].stepping
<1>1. guard[n] \in Guard /\ lower.mark \in -1..1
  BY Parts
<1> DEFINE g == IF guard[n].shared THEN Released(guard[n]) ELSE guard[n]
           h == [g EXCEPT !.bake = TRUE]
<1>2. Moved(guard[n], g)
  <2>1. CASE guard[n].shared
    <3>1. guard[n].shared = TRUE
      BY <1>1, <2>1 DEF Guard
    <3> QED BY <1>1, <3>1, ReleasedMoves
  <2>2. CASE ~guard[n].shared
    BY <1>1, <2>2 DEF Moved, LockMoved
  <2> QED BY <2>1, <2>2
<1>3. guard' = [guard EXCEPT ![n] = h]
  BY Zenon DEF HoldBake
<1> HIDE DEF g
<1>4. g \in Guard
  BY <1>2 DEF Moved
<1>5. h \in Guard
  BY Zenon, <1>4, GuardTypes, Values
<1>6. h.shared = g.shared /\ h.mark = g.mark /\ h.stepping = g.stepping /\ h.bake = TRUE
  BY <1>4 DEF Guard
<1> HIDE DEF h
<1>7. LockMoved(guard[n], h) /\ h.stepping = guard[n].stepping
  BY <1>2, <1>6 DEF Moved, LockMoved
<1>8. GuardOf(n) /\ guard'[n] = h
  BY <1>3, <1>5, GuardBecomes
<1> QED BY Zenon, <1>6, <1>7, <1>8

\* A node that starts again has nothing but the mark of now and, perhaps, a merge to take up.
LEMMA CrashDoes ==
    ASSUME BakeTyped, NEW n \in Nodes, Crash(n)
    PROVE  /\ GuardOf(n) /\ ~guard'[n].shared /\ ~guard'[n].bake /\ guard'[n].mark = lower.mark
           /\ WorkOf(n) /\ work'[n].step = "none" /\ work'[n].pc = "idle"
           /\ BakerOf(n) /\ ~baker'[n].held /\ ~baker'[n].done /\ ~baker'[n].merging /\ baker'[n].abandon = "no"
           /\ IF bakeLock \in {n, NoNode} /\ state.phase = "merging" THEN bakeLock' = n /\ baker'[n].bg = "wait"
              ELSE bakeLock' = (IF bakeLock \in {n, NoNode} THEN NoNode ELSE bakeLock) /\ baker'[n].bg = "off"
<1>1. lower.mark \in -1..1
  BY Parts
<1>2. NewGuard(lower.mark) \in Guard /\ NewGuard(lower.mark).mark = lower.mark /\ ~NewGuard(lower.mark).shared
      /\ ~NewGuard(lower.mark).bake
  BY <1>1, NewGuardTypes
<1>3. GuardOf(n) /\ guard'[n] = NewGuard(lower.mark)
  BY <1>2, GuardBecomes DEF Crash
<1>4. WorkOf(n) /\ work'[n] = NoWork
  BY NoWorkIs, WorkBecomes DEF Crash
<1> DEFINE free == bakeLock \in {n, NoNode}
<1>5. CASE free /\ state.phase = "merging"
  <2> DEFINE b == [NewBaker EXCEPT !.bg = "wait"]
  <2>1. bakeLock' = n /\ baker' = [baker EXCEPT ![n] = b]
    BY <1>5 DEF Crash
  <2>2. "wait" \in BgPcs
    BY DEF BgPcs
  <2>3. b \in BakerPlace /\ b.bg = "wait" /\ ~b.held /\ ~b.done /\ ~b.merging /\ b.abandon = "no"
    BY Zenon, <2>2, NewBakerTypes
  <2> HIDE DEF b
  <2>4. BakerOf(n) /\ baker'[n] = b
    BY <2>1, <2>3, BakerBecomes
  <2> QED BY <1>2, <1>3, <1>4, <1>5, <2>1, <2>3, <2>4, NoWorkIs
<1>6. CASE ~(free /\ state.phase = "merging")
  <2>1. bakeLock' = (IF free THEN NoNode ELSE bakeLock) /\ baker' = [baker EXCEPT ![n] = NewBaker]
    BY <1>6 DEF Crash
  <2>2. "off" \in BgPcs
    BY DEF BgPcs
  <2>3. NewBaker \in BakerPlace /\ NewBaker.bg = "off" /\ ~NewBaker.held /\ ~NewBaker.done /\ ~NewBaker.merging /\ NewBaker.abandon = "no"
    BY Zenon, <2>2, NewBakerTypes
  <2>4. BakerOf(n) /\ baker'[n] = NewBaker
    BY <2>1, <2>3, BakerBecomes
  <2> QED BY <1>2, <1>3, <1>4, <1>6, <2>1, <2>3, <2>4, NoWorkIs
<1> QED BY <1>5, <1>6

\* The build takes bake.lock, and abandons it again when a write fails.
LEMMA TakesForBuild ==
    ASSUME BakeTyped, NEW n \in Nodes, TakeForBuild(n)
    PROVE  /\ BakerOf(n) /\ baker'[n].held /\ baker'[n].bg = baker[n].bg /\ WorkOf(n) /\ work'[n].step = "build"
           /\ baker'[n].merging = baker[n].merging
           /\ \/ /\ baker'[n].done = baker[n].done /\ baker'[n].abandon = baker[n].abandon
                 /\ work'[n].pc = "building" /\ state' = [Cleaned EXCEPT !.phase = "building", !.owner = TRUE]
                 /\ mounted' = [mounted EXCEPT ![n] = lower.ver]
              \/ /\ \/ baker'[n].done = baker[n].done /\ baker'[n].abandon = baker[n].abandon
                    \/ ~baker[n].done /\ ~baker[n].merging /\ baker'[n].done /\ baker'[n].abandon = "write"
                 /\ work'[n].pc = "failing" /\ state' = Cleaned /\ mounted' = mounted
<1>1. baker[n] \in BakerPlace /\ work[n].step = "build"
  BY Parts DEF TakeForBuild, At
<1> DEFINE b == [baker[n] EXCEPT !.held = TRUE]
<1>2. b \in BakerPlace
  BY Zenon, <1>1, BakerTypes, Values
<1>3. b.held = TRUE /\ b.bg = baker[n].bg /\ b.done = baker[n].done /\ b.merging = baker[n].merging /\ b.abandon = baker[n].abandon
  BY <1>1 DEF BakerPlace
<1>4. "building" \in WorkPcs /\ "failing" \in WorkPcs
  BY DEF WorkPcs, BuildPcs
<1>5. CASE /\ state' = [Cleaned EXCEPT !.phase = "building", !.owner = TRUE]
           /\ baker' = [baker EXCEPT ![n] = b]
           /\ GoTo(n, "building") /\ mounted' = [mounted EXCEPT ![n] = lower.ver]
  <2>1. WorkOf(n) /\ work'[n].step = "build" /\ work'[n].pc = "building"
    BY <1>1, <1>4, <1>5, WorkGoes
  <2>2. BakerOf(n) /\ baker'[n] = b
    <3> HIDE DEF b
    <3> QED BY <1>2, <1>5, BakerBecomes
  <2> HIDE DEF b
  <2> QED BY <1>3, <1>5, <2>1, <2>2
<1>6. CASE state' = Cleaned /\ baker' = [baker EXCEPT ![n] = Abandon(b)] /\ GoTo(n, "failing") /\ mounted' = mounted
  <2>1. WorkOf(n) /\ work'[n].step = "build" /\ work'[n].pc = "failing"
    BY <1>1, <1>4, <1>6, WorkGoes
  <2> HIDE DEF b
  <2> DEFINE a == Abandon(b)
  <2>2. /\ a \in BakerPlace /\ a.held = b.held /\ a.merging = b.merging /\ a.bg = b.bg
        /\ \/ a.done = b.done /\ a.abandon = b.abandon
           \/ b.held /\ ~b.done /\ ~b.merging /\ a.done = TRUE /\ a.abandon = "write"
    BY Zenon, <1>2, AbandonMoves
  <2>3. baker' = [baker EXCEPT ![n] = a]
    BY <1>6
  <2> HIDE DEF a
  <2>4. BakerOf(n) /\ baker'[n] = a
    BY <2>2, <2>3, BakerBecomes
  <2>5. /\ baker'[n].held = TRUE /\ baker'[n].merging = baker[n].merging /\ baker'[n].bg = baker[n].bg
        /\ \/ baker'[n].done = baker[n].done /\ baker'[n].abandon = baker[n].abandon
           \/ ~baker[n].done /\ ~baker[n].merging /\ baker'[n].done /\ baker'[n].abandon = "write"
    BY Zenon, <1>3, <2>2, <2>4
  <2> QED BY Zenon, <1>6, <2>1, <2>4, <2>5
<1> QED BY Zenon, <1>5, <1>6 DEF TakeForBuild

\* Places named in the actions are places.
LEMMA PcsAre ==
    /\ \A p \in BuildPcs \cup MergePcs : p \in WorkPcs
    /\ "off" \in BgPcs /\ "wait" \in BgPcs /\ "exclusive" \in BgPcs /\ "merging" \in BgPcs /\ "applied" \in BgPcs
    /\ "marked" \in BgPcs /\ "stale" \in BgPcs
    /\ \A p \in Merging : p \in BgPcs /\ After(p) \in BgPcs /\ p \in MergePcs /\ After(p) \in MergePcs
<1> QED BY DEF WorkPcs, BuildPcs, MergePcs, BgPcs, Merging, After

\* One field of a Baker that is set.
LEMMA Fields ==
    ASSUME BakeTyped, NEW n \in Nodes, NEW v \in BOOLEAN, NEW a \in {"no", "write", "go"}
    PROVE  /\ baker' = [baker EXCEPT ![n].merging = v] =>
                BakerOf(n) /\ baker'[n].merging = v /\ baker'[n].held = baker[n].held /\ baker'[n].done = baker[n].done
                /\ baker'[n].abandon = baker[n].abandon /\ baker'[n].bg = baker[n].bg
           /\ baker' = [baker EXCEPT ![n].abandon = a] =>
                BakerOf(n) /\ baker'[n].abandon = a /\ baker'[n].held = baker[n].held /\ baker'[n].done = baker[n].done
                /\ baker'[n].merging = baker[n].merging /\ baker'[n].bg = baker[n].bg
           /\ baker' = [baker EXCEPT ![n].later = v] => BakerOf(n) /\ SameBaker(baker'[n], baker[n])
<1>1. baker[n] \in BakerPlace /\ baker \in [Nodes -> BakerPlace]
  BY Parts
<1>2. ASSUME baker' = [baker EXCEPT ![n].merging = v]
      PROVE  BakerOf(n) /\ baker'[n].merging = v /\ baker'[n].held = baker[n].held /\ baker'[n].done = baker[n].done
             /\ baker'[n].abandon = baker[n].abandon /\ baker'[n].bg = baker[n].bg
  <2> DEFINE b == [baker[n] EXCEPT !.merging = v]
  <2>1. b \in BakerPlace
    BY Zenon, <1>1, BakerTypes
  <2>2. b.merging = v /\ b.held = baker[n].held /\ b.done = baker[n].done /\ b.abandon = baker[n].abandon /\ b.bg = baker[n].bg
    BY <1>1 DEF BakerPlace
  <2>3. baker' = [baker EXCEPT ![n] = b]
    BY <1>2
  <2> HIDE DEF b
  <2> QED BY <2>1, <2>2, <2>3, BakerBecomes
<1>3. ASSUME baker' = [baker EXCEPT ![n].abandon = a]
      PROVE  BakerOf(n) /\ baker'[n].abandon = a /\ baker'[n].held = baker[n].held /\ baker'[n].done = baker[n].done
             /\ baker'[n].merging = baker[n].merging /\ baker'[n].bg = baker[n].bg
  <2> DEFINE b == [baker[n] EXCEPT !.abandon = a]
  <2>1. b \in BakerPlace
    BY Zenon, <1>1, BakerTypes
  <2>2. b.abandon = a /\ b.held = baker[n].held /\ b.done = baker[n].done /\ b.merging = baker[n].merging /\ b.bg = baker[n].bg
    BY <1>1 DEF BakerPlace
  <2>3. baker' = [baker EXCEPT ![n] = b]
    BY <1>3
  <2> HIDE DEF b
  <2> QED BY <2>1, <2>2, <2>3, BakerBecomes
<1>4. ASSUME baker' = [baker EXCEPT ![n].later = v]
      PROVE  BakerOf(n) /\ SameBaker(baker'[n], baker[n])
  <2> DEFINE b == [baker[n] EXCEPT !.later = v]
  <2>1. b \in BakerPlace
    BY Zenon, <1>1, BakerTypes
  <2>2. SameBaker(b, baker[n])
    BY <1>1 DEF BakerPlace, SameBaker, SameBake
  <2>3. baker' = [baker EXCEPT ![n] = b]
    BY <1>4
  <2> HIDE DEF b
  <2> QED BY <2>1, <2>2, <2>3, BakerBecomes
<1> QED BY <1>2, <1>3, <1>4

\* The background work is over, to be tried again or not.
LEMMA BgEnds ==
    ASSUME BakeTyped, NEW n \in Nodes,
           \/ baker' = [baker EXCEPT ![n].bg = "off", ![n].later = TRUE]
           \/ baker' = [baker EXCEPT ![n].bg = "off", ![n].later = FALSE]
    PROVE  BakerOf(n) /\ SameBake(baker'[n], baker[n]) /\ baker'[n].bg = "off"
<1>1. baker[n] \in BakerPlace /\ baker \in [Nodes -> BakerPlace] /\ "off" \in BgPcs
  BY Parts, PcsAre
<1> DEFINE b == [baker[n] EXCEPT !.bg = "off", !.later = TRUE]
           c == [baker[n] EXCEPT !.bg = "off", !.later = FALSE]
<1>2. b \in BakerPlace /\ c \in BakerPlace
  BY Zenon, <1>1, BakerTypes, Values
<1>3. SameBake(b, baker[n]) /\ b.bg = "off" /\ SameBake(c, baker[n]) /\ c.bg = "off"
  BY <1>1 DEF BakerPlace, SameBake
<1>4. baker' = [baker EXCEPT ![n] = b] \/ baker' = [baker EXCEPT ![n] = c]
  BY <1>1
<1> HIDE DEF b, c
<1> QED BY <1>2, <1>3, <1>4, BakerBecomes

\* Merging is written, or the bake abandoned.
LEMMA WritesMerging ==
    ASSUME BakeTyped, NEW n \in Nodes, WriteMerging(n)
    PROVE  /\ WorkOf(n) /\ work[n].step = "merge" /\ work[n].pc = "begun" /\ work'[n].step = "merge"
           /\ BakerOf(n) /\ baker'[n].held = baker[n].held /\ baker'[n].bg = baker[n].bg
           /\ \/ work'[n].pc = "merging" /\ state' = [state EXCEPT !.phase = "merging"] /\ UNCHANGED <<excl, baker>>
              \/ /\ work'[n].pc = "failing" /\ excl' = NoNode /\ UNCHANGED state /\ ~baker'[n].merging
                 /\ \/ baker'[n].done = baker[n].done /\ baker'[n].abandon = baker[n].abandon
                    \/ baker[n].held /\ ~baker[n].done /\ baker'[n].done /\ baker'[n].abandon = "write"
<1>1. baker[n] \in BakerPlace /\ baker \in [Nodes -> BakerPlace] /\ work[n].step = "merge" /\ work[n].pc = "begun"
  BY Parts DEF WriteMerging, At
<1> DEFINE b == [baker[n] EXCEPT !.merging = FALSE]
<1>2. b \in BakerPlace
  BY Zenon, <1>1, BakerTypes, Values
<1>3. b.held = baker[n].held /\ b.bg = baker[n].bg /\ b.done = baker[n].done /\ b.merging = FALSE /\ b.abandon = baker[n].abandon
  BY <1>1 DEF BakerPlace
<1>4. "merging" \in WorkPcs /\ "failing" \in WorkPcs
  BY DEF WorkPcs, MergePcs
<1>5. CASE state' = [state EXCEPT !.phase = "merging"] /\ GoTo(n, "merging") /\ UNCHANGED <<excl, baker>>
  <2>1. WorkOf(n) /\ work'[n].step = "merge" /\ work'[n].pc = "merging"
    BY <1>1, <1>4, <1>5, WorkGoes
  <2>2. BakerOf(n) /\ baker'[n] = baker[n]
    BY <1>1, <1>5 DEF BakerOf
  <2> QED BY Zenon, <1>1, <1>5, <2>1, <2>2
<1>6. CASE GoTo(n, "failing") /\ excl' = NoNode /\ baker' = [baker EXCEPT ![n] = Abandon(b)] /\ UNCHANGED state
  <2>1. WorkOf(n) /\ work'[n].step = "merge" /\ work'[n].pc = "failing"
    BY <1>1, <1>4, <1>6, WorkGoes
  <2> HIDE DEF b
  <2> DEFINE a == Abandon(b)
  <2>2. /\ a \in BakerPlace /\ a.held = b.held /\ a.merging = b.merging /\ a.bg = b.bg
        /\ \/ a.done = b.done /\ a.abandon = b.abandon
           \/ b.held /\ ~b.done /\ ~b.merging /\ a.done = TRUE /\ a.abandon = "write"
    BY Zenon, <1>2, AbandonMoves
  <2>3. baker' = [baker EXCEPT ![n] = a]
    BY <1>6
  <2> HIDE DEF a
  <2>4. BakerOf(n) /\ baker'[n] = a
    BY <2>2, <2>3, BakerBecomes
  <2>5. /\ ~baker'[n].merging /\ baker'[n].held = baker[n].held /\ baker'[n].bg = baker[n].bg
        /\ \/ baker'[n].done = baker[n].done /\ baker'[n].abandon = baker[n].abandon
           \/ baker[n].held /\ ~baker[n].done /\ baker'[n].done /\ baker'[n].abandon = "write"
    BY Zenon, <1>3, <2>2, <2>4
  <2> QED BY Zenon, <1>1, <1>6, <2>1, <2>4, <2>5
<1> QED BY Zenon, <1>5, <1>6 DEF WriteMerging
-----------------------------------------------------------------------------
(* Each action keeps the invariant, one conjunct of it at a time.          *)

\* A node is read as free: no other match is under way.
LEMMA PickKeeps ==
    ASSUME BakeInv, NEW n \in Nodes, Pick(n)
    PROVE  BakeInv'
<1>1. /\ BakeTyped /\ OfBaked /\ BakerTells /\ WorkTells /\ LowerTells /\ Fate /\ SharedTells /\ MatchTells
      /\ Baked \in Nodes /\ NoNode \notin Nodes
  BY BakedIsANode, NoNodeIsNone DEF BakeInv
<1>2. /\ UNCHANGED <<lower, state, place, bakeLock, excl, guard, baker, work, mounted, advert, drain, lease, bake, orphan, at, excused>>
      /\ pick' = n /\ \A m \in Nodes : lease[m] # "R"
  BY DEF Pick, Leased, disk, locks, process, history
<1>3. BakeTyped'
  BY <1>1, <1>2 DEF BakeTyped
<1>4. OfBaked'
  BY <1>1, <1>2 DEF OfBaked, GuardOf
<1>5. BakerTells'
  BY <1>1, <1>2 DEF BakerTells, Result
<1>6. WorkTells'
  BY <1>1, <1>2 DEF WorkTells, InHand, Pending
<1>7. LowerTells'
  BY <1>1, <1>2 DEF LowerTells, Untouched, Result
<1>8. Fate'
  BY <1>1, <1>2 DEF Fate
<1>9. SharedTells'
  BY <1>1, <1>2 DEF SharedTells
<1>10. MatchTells'
  BY <1>1, <1>2 DEF MatchTells
<1> QED BY <1>3, <1>4, <1>5, <1>6, <1>7, <1>8, <1>9, <1>10 DEF BakeInv

\* The retry that is due changes nothing but itself.
LEMMA RetryKeeps ==
    ASSUME BakeInv, NEW n \in Nodes, RetryDue(n)
    PROVE  BakeInv'
<1>1. /\ BakeTyped /\ OfBaked /\ BakerTells /\ WorkTells /\ LowerTells /\ Fate /\ SharedTells /\ MatchTells
      /\ Baked \in Nodes /\ NoNode \notin Nodes
  BY BakedIsANode, NoNodeIsNone DEF BakeInv
<1>2. BakerOf(n) /\ SameBaker(baker'[n], baker[n])
  BY <1>1, Fields DEF RetryDue
<1>3. UNCHANGED <<lower, state, place, bakeLock, excl, guard, work, mounted, advert, drain, lease, pick, bake, orphan, at, excused>>
  BY DEF RetryDue, disk, locks, mediator, history
<1>4. BakeTyped'
  BY <1>1, <1>2, <1>3 DEF BakeTyped, BakerOf
<1>5. OfBaked'
  BY <1>1, <1>2, <1>3 DEF OfBaked, GuardOf, BakerOf, SameBaker, SameBake
<1>6. BakerTells'
  BY <1>1, <1>2, <1>3 DEF BakerTells, BakerOf, SameBaker, SameBake, Result
<1>7. WorkTells'
  BY <1>1, <1>2, <1>3 DEF WorkTells, InHand, Pending, BakerOf, SameBaker, SameBake
<1>8. LowerTells'
  BY <1>1, <1>3 DEF LowerTells, Untouched, Result
<1>9. Fate'
  BY <1>1, <1>3 DEF Fate
<1>10. SharedTells'
  BY <1>1, <1>3 DEF SharedTells
<1>11. MatchTells'
  BY <1>1, <1>3 DEF MatchTells
<1> QED BY <1>4, <1>5, <1>6, <1>7, <1>8, <1>9, <1>10, <1>11 DEF BakeInv

\* The merge step takes the lock that nobody shares.
LEMMA ExclusiveKeeps ==
    ASSUME BakeInv, NEW n \in Nodes, Exclusive(n)
    PROVE  BakeInv'
<1>1. /\ BakeTyped /\ OfBaked /\ BakerTells /\ WorkTells /\ LowerTells /\ Fate /\ SharedTells /\ MatchTells
      /\ Baked \in Nodes /\ NoNode \notin Nodes
  BY BakedIsANode, NoNodeIsNone DEF BakeInv
<1>2. WorkOf(n) /\ work[n].step = "merge" /\ work[n].pc = "waiting" /\ work'[n].step = "merge" /\ work'[n].pc = "exclusive"
  BY <1>1, WorkGoes, PcsAre DEF Exclusive, At, MergePcs
<1>3. /\ UNCHANGED <<lower, state, place, bakeLock, guard, baker, mounted, advert, drain, lease, pick, bake, orphan, at, excused>>
      /\ excl = NoNode /\ excl' = n /\ \A m \in Nodes : ~guard[m].shared
  BY DEF Exclusive, Alone, disk, mediator, history
<1>4. n = Baked
  BY <1>1, <1>2 DEF OfBaked
<1>5. BakeTyped'
  BY <1>1, <1>2, <1>3 DEF BakeTyped, WorkOf
<1>6. OfBaked'
  BY <1>1, <1>2, <1>3, <1>4 DEF OfBaked, GuardOf, WorkOf, MergePcs
<1>7. BakerTells'
  BY <1>1, <1>2, <1>3, <1>4 DEF BakerTells, Result
<1>8. WorkTells'
  BY <1>1, <1>2, <1>3, <1>4 DEF WorkTells, InHand, Pending, Merging
<1>9. LowerTells'
  BY <1>1, <1>2, <1>3, <1>4 DEF LowerTells, Untouched, Result
<1>10. Fate'
  BY <1>1, <1>2, <1>3, <1>4 DEF Fate
<1>11. SharedTells'
  BY <1>1, <1>2, <1>3 DEF SharedTells, WorkOf
<1>12. MatchTells'
  BY <1>1, <1>3 DEF MatchTells
<1> QED BY <1>5, <1>6, <1>7, <1>8, <1>9, <1>10, <1>11, <1>12 DEF BakeInv

\* The four last steps of a merge, whoever takes them.
LEMMA Applies ==
    ASSUME BakeTyped, NEW pc \in Merging, Apply(pc)
    PROVE  /\ lower' \in [ver : -1..1, half : BOOLEAN, mark : -1..1]
           /\ state' \in [phase : Phases, owner : BOOLEAN, last : BOOLEAN]
           /\ place' \in {"none", "building", "upper", "applied", "trash"}
           /\ \/ /\ pc = "merging" /\ After(pc) = "applying" /\ UNCHANGED <<state, place>>
                 /\ lower'.half /\ lower'.ver = lower.ver /\ lower'.mark = lower.mark
              \/ /\ pc = "applying" /\ After(pc) = "applied" /\ place' = "applied" /\ UNCHANGED state
                 /\ ~lower'.half /\ lower'.ver = Result /\ lower'.mark = lower.mark
              \/ /\ pc = "applied" /\ After(pc) = "marked" /\ UNCHANGED <<state, place>>
                 /\ lower'.half = lower.half /\ lower'.ver = lower.ver /\ lower'.mark = Result
              \/ /\ pc = "marked" /\ After(pc) = "done" /\ UNCHANGED <<lower, place>>
                 /\ state'.phase = "committed" /\ ~state'.owner /\ ~state'.last
<1>1. /\ lower \in [ver : -1..1, half : BOOLEAN, mark : -1..1]
      /\ state \in [phase : Phases, owner : BOOLEAN, last : BOOLEAN]
      /\ place \in {"none", "building", "upper", "applied", "trash"}
      /\ Result \in -1..1
  BY DEF BakeTyped, Result
<1>2. CASE pc = "merging"
  <2>1. After(pc) = "applying" /\ UNCHANGED <<state, place>> /\ lower' = [lower EXCEPT !.half = TRUE]
    BY <1>2 DEF Apply, After
  <2>2. lower' \in [ver : -1..1, half : BOOLEAN, mark : -1..1]
    BY <1>1, <2>1
  <2>3. lower'.half = TRUE /\ lower'.ver = lower.ver /\ lower'.mark = lower.mark
    BY <1>1, <2>1
  <2> QED BY <1>1, <1>2, <2>1, <2>2, <2>3
<1>3. CASE pc = "applying"
  <2>1. After(pc) = "applied" /\ UNCHANGED state /\ place' = "applied" /\ lower' = [lower EXCEPT !.half = FALSE, !.ver = Result]
    BY <1>3 DEF Apply, After
  <2>2. lower' \in [ver : -1..1, half : BOOLEAN, mark : -1..1]
    BY <1>1, <2>1
  <2>3. lower'.half = FALSE /\ lower'.ver = Result /\ lower'.mark = lower.mark
    BY <1>1, <2>1
  <2> QED BY <1>1, <1>3, <2>1, <2>2, <2>3
<1>4. CASE pc = "applied"
  <2>1. After(pc) = "marked" /\ UNCHANGED <<state, place>> /\ lower' = [lower EXCEPT !.mark = Result]
    BY <1>4 DEF Apply, After
  <2>2. lower' \in [ver : -1..1, half : BOOLEAN, mark : -1..1]
    BY <1>1, <2>1
  <2>3. lower'.half = lower.half /\ lower'.ver = lower.ver /\ lower'.mark = Result
    BY <1>1, <2>1
  <2> QED BY <1>1, <1>4, <2>1, <2>2, <2>3
<1>5. CASE pc = "marked"
  <2>1. After(pc) = "done" /\ UNCHANGED <<lower, place>> /\ state' = Committed
    BY <1>5 DEF Apply, After
  <2>2. state' \in [phase : Phases, owner : BOOLEAN, last : BOOLEAN] /\ state'.phase = "committed" /\ ~state'.owner /\ ~state'.last
    BY <2>1 DEF Committed, Phases
  <2> QED BY <1>1, <1>5, <2>1, <2>2
<1> QED BY <1>2, <1>3, <1>4, <1>5 DEF Merging

\* The four last steps of the merge step, each with what the next one needs.
LEMMA MergeStepKeeps ==
    ASSUME BakeInv, NEW n \in Nodes, MergeStep(n)
    PROVE  BakeInv'
<1>1. /\ BakeTyped /\ OfBaked /\ BakerTells /\ WorkTells /\ LowerTells /\ Fate /\ SharedTells /\ MatchTells
      /\ Baked \in Nodes /\ NoNode \notin Nodes
  BY BakedIsANode, NoNodeIsNone DEF BakeInv
<1>2. /\ work[n].step = "merge" /\ work[n].pc \in Merging /\ Apply(work[n].pc)
      /\ WorkOf(n) /\ work'[n].step = "merge" /\ work'[n].pc = After(work[n].pc)
  BY <1>1, WorkGoes, PcsAre DEF MergeStep
<1>3. UNCHANGED <<bakeLock, excl, guard, baker, mounted, advert, drain, lease, pick, bake, orphan, at, excused>>
  BY DEF MergeStep, locks, mediator, history
<1>4. n = Baked
  BY <1>1, <1>2 DEF OfBaked
<1>5. /\ lower' \in [ver : -1..1, half : BOOLEAN, mark : -1..1]
      /\ state' \in [phase : Phases, owner : BOOLEAN, last : BOOLEAN]
      /\ place' \in {"none", "building", "upper", "applied", "trash"}
  BY <1>1, <1>2, Applies
<1>6. \/ /\ work[n].pc = "merging" /\ work'[n].pc = "applying" /\ UNCHANGED <<state, place>>
         /\ lower'.half /\ lower'.ver = lower.ver /\ lower'.mark = lower.mark
      \/ /\ work[n].pc = "applying" /\ work'[n].pc = "applied" /\ place' = "applied" /\ UNCHANGED state
         /\ ~lower'.half /\ lower'.ver = Result /\ lower'.mark = lower.mark
      \/ /\ work[n].pc = "applied" /\ work'[n].pc = "marked" /\ UNCHANGED <<state, place>>
         /\ lower'.half = lower.half /\ lower'.ver = lower.ver /\ lower'.mark = Result
      \/ /\ work[n].pc = "marked" /\ work'[n].pc = "done" /\ UNCHANGED <<lower, place>>
         /\ state'.phase = "committed" /\ ~state'.owner /\ ~state'.last
  BY <1>1, <1>2, Applies
<1>7. excl = n /\ baker[n].held /\ ~baker[n].done /\ baker[n].merging /\ state.phase = "merging" /\ state.owner /\ Result = 1
  BY <1>1, <1>2, <1>4 DEF WorkTells, InHand, Result
<1>8. /\ \/ place = "upper" /\ lower.ver = 0 /\ lower.mark = 0
         \/ place = "applied" /\ lower.ver = 1 /\ lower.mark \in {0, 1} /\ ~lower.half
      /\ bake # "build"
  BY <1>1, <1>7 DEF LowerTells
<1>9. /\ work[n].pc \in {"merging", "applying"} => place = "upper"
      /\ work[n].pc \in {"applied", "marked"} => place = "applied"
      /\ work[n].pc = "marked" => lower.mark = 1
      /\ \A m \in Nodes : ~guard[m].shared
  BY <1>1, <1>2, <1>4 DEF WorkTells, SharedTells
<1>10. at \in -1..1 /\ \A m \in Nodes : guard[m].mark \in -1..1
  BY <1>1 DEF BakeTyped, Guard
<1>11. BakeTyped'
  BY <1>1, <1>2, <1>3, <1>4, <1>5, <1>6 DEF BakeTyped, WorkOf
<1>12. OfBaked'
  BY <1>1, <1>2, <1>3, <1>4, <1>5, <1>6, <1>7, <1>8, <1>9 DEF OfBaked, GuardOf, WorkOf, MergePcs
<1>13. BakerTells'
  BY <1>1, <1>2, <1>3, <1>4, <1>5, <1>6, <1>7, <1>8, <1>9 DEF BakerTells, Merging
<1>14. WorkTells'
  <2>1. CASE work[n].pc = "merging"
    BY <1>1, <1>2, <1>3, <1>4, <1>5, <1>6, <1>7, <1>8, <1>9, <2>1 DEF WorkTells, InHand, Pending
  <2>2. CASE work[n].pc = "applying"
    BY <1>1, <1>2, <1>3, <1>4, <1>5, <1>6, <1>7, <1>8, <1>9, <2>2 DEF WorkTells, InHand, Pending
  <2>3. CASE work[n].pc = "applied"
    BY <1>1, <1>2, <1>3, <1>4, <1>5, <1>6, <1>7, <1>8, <1>9, <2>3 DEF WorkTells, InHand, Pending
  <2>4. CASE work[n].pc = "marked"
    BY <1>1, <1>2, <1>3, <1>4, <1>5, <1>6, <1>7, <1>8, <1>9, <2>4 DEF WorkTells, InHand, Pending, Merging
  <2> QED BY <1>2, <2>1, <2>2, <2>3, <2>4 DEF Merging
<1>15. LowerTells'
  <2>1. CASE work[n].pc = "merging"
    BY <1>1, <1>2, <1>3, <1>4, <1>5, <1>6, <1>7, <1>9 DEF LowerTells, Result
  <2>2. CASE work[n].pc = "applying"
    BY <1>1, <1>2, <1>3, <1>4, <1>5, <1>6, <1>7, <1>9 DEF LowerTells, Result
  <2>3. CASE work[n].pc = "applied"
    BY <1>1, <1>2, <1>3, <1>4, <1>5, <1>6, <1>7, <1>9 DEF LowerTells, Result
  <2>4. CASE work[n].pc = "marked"
    BY <1>1, <1>2, <1>3, <1>4, <1>5, <1>6, <1>7, <1>9, <2>4 DEF LowerTells
  <2> QED BY <1>2, <2>1, <2>2, <2>3, <2>4 DEF Merging
<1>16. Fate'
  <2>1. CASE work[n].pc = "merging"
    BY <1>1, <1>2, <1>3, <1>4, <1>5, <1>6, <1>7, <1>8, <1>9 DEF Fate
  <2>2. CASE work[n].pc = "applying"
    BY <1>1, <1>2, <1>3, <1>4, <1>5, <1>6, <1>7, <1>8, <1>9 DEF Fate
  <2>3. CASE work[n].pc = "applied"
    BY <1>1, <1>2, <1>3, <1>4, <1>5, <1>6, <1>7, <1>8, <1>9 DEF Fate
  <2>4. CASE work[n].pc = "marked"
    BY <1>1, <1>2, <1>3, <1>4, <1>5, <1>6, <1>7, <1>8, <1>9 DEF Fate
  <2> QED BY <1>2, <2>1, <2>2, <2>3, <2>4 DEF Merging
<1>17. SharedTells'
  BY <1>1, <1>2, <1>3, <1>4, <1>5, <1>6 DEF SharedTells, WorkOf
<1>18. MatchTells'
  <2>1. CASE work[n].pc = "merging"
    BY <1>1, <1>2, <1>3, <1>4, <1>5, <1>6, <1>7, <1>9, <1>10 DEF MatchTells
  <2>2. CASE work[n].pc = "applying"
    BY <1>1, <1>2, <1>3, <1>4, <1>5, <1>6, <1>7, <1>9, <1>10 DEF MatchTells
  <2>3. CASE work[n].pc = "applied"
    BY <1>1, <1>2, <1>3, <1>4, <1>5, <1>6, <1>7, <1>9, <1>10 DEF MatchTells
  <2>4. CASE work[n].pc = "marked"
    BY <1>1, <1>2, <1>3, <1>4, <1>5, <1>6, <1>7, <1>9, <1>10 DEF MatchTells
  <2> QED BY <1>2, <2>1, <2>2, <2>3, <2>4 DEF Merging
<1> QED BY <1>11, <1>12, <1>13, <1>14, <1>15, <1>16, <1>17, <1>18 DEF BakeInv

\* A resume takes the lock that nobody shares.
LEMMA ResumeExclusiveKeeps ==
    ASSUME BakeInv, NEW n \in Nodes, ResumeExclusive(n)
    PROVE  BakeInv'
<1>1. /\ BakeTyped /\ OfBaked /\ BakerTells /\ WorkTells /\ LowerTells /\ Fate /\ SharedTells /\ MatchTells
      /\ Baked \in Nodes /\ NoNode \notin Nodes
  BY BakedIsANode, NoNodeIsNone DEF BakeInv
<1>2. /\ BakerOf(n) /\ SameBake(baker'[n], baker[n]) /\ baker[n].bg = "wait" /\ baker'[n].bg = "exclusive"
  BY <1>1, BgGoes, PcsAre DEF ResumeExclusive
<1>3. /\ UNCHANGED <<lower, state, place, bakeLock, guard, work, mounted, advert, drain, lease, pick, bake, orphan, at, excused>>
      /\ excl = NoNode /\ excl' = n /\ \A m \in Nodes : ~guard[m].shared
  BY DEF ResumeExclusive, Alone, disk, mediator, history
<1>4. BakeTyped'
  BY <1>1, <1>2, <1>3 DEF BakeTyped, BakerOf
<1>5. OfBaked'
  BY <1>1, <1>2, <1>3 DEF OfBaked, GuardOf, BakerOf, SameBake
<1>6. BakerTells'
  BY <1>1, <1>2, <1>3 DEF BakerTells, BakerOf, SameBake
<1>7. WorkTells'
  BY <1>1, <1>2, <1>3 DEF WorkTells, InHand, Pending, BakerOf, SameBake
<1>8. LowerTells'
  BY <1>1, <1>3 DEF LowerTells, Untouched, Result
<1>9. Fate'
  BY <1>1, <1>3 DEF Fate
<1>10. SharedTells'
  BY <1>1, <1>3 DEF SharedTells
<1>11. MatchTells'
  BY <1>1, <1>3 DEF MatchTells
<1> QED BY <1>4, <1>5, <1>6, <1>7, <1>8, <1>9, <1>10, <1>11 DEF BakeInv

\* A resume goes on where the metadata and the upper tell it the merge was.
LEMMA ResumeKeeps ==
    ASSUME BakeInv, NEW n \in Nodes, Resume(n)
    PROVE  BakeInv'
<1>1. /\ BakeTyped /\ OfBaked /\ BakerTells /\ WorkTells /\ LowerTells /\ Fate /\ SharedTells /\ MatchTells
      /\ Baked \in Nodes /\ NoNode \notin Nodes
  BY BakedIsANode, NoNodeIsNone DEF BakeInv
<1>2. /\ BakerOf(n) /\ SameBake(baker'[n], baker[n]) /\ baker[n].bg = "exclusive"
      /\ baker'[n].bg = (IF lower.mark = Result THEN "marked" ELSE IF place = "upper" THEN "merging" ELSE "applied")
  BY <1>1, BgGoes, PcsAre DEF Resume
<1>3. UNCHANGED <<lower, state, place, bakeLock, excl, guard, work, mounted, advert, drain, lease, pick, bake, orphan, at, excused>>
  BY DEF Resume, disk, locks, mediator, history
<1>4. state.phase = "merging" /\ bakeLock = n /\ excl = n
  BY <1>1, <1>2 DEF BakerTells
<1>5. baker'[n].bg \in {"marked", "merging", "applied"}
  BY <1>2
<1>6. (lower.mark = Result => place = "applied") /\ place \in {"upper", "applied"}
  BY <1>1, <1>4 DEF LowerTells, Result
<1>7. BakeTyped'
  BY <1>1, <1>2, <1>3 DEF BakeTyped, BakerOf
<1>8. OfBaked'
  BY <1>1, <1>2, <1>3, <1>4, <1>5, <1>6 DEF OfBaked, GuardOf, BakerOf, SameBake
<1>9. BakerTells'
  BY <1>1, <1>2, <1>3, <1>4, <1>5, <1>6 DEF BakerTells, BakerOf, SameBake, Result
<1>10. WorkTells'
  BY <1>1, <1>2, <1>3, <1>4, <1>5, <1>6 DEF WorkTells, InHand, Pending, BakerOf, SameBake
<1>11. LowerTells'
  BY <1>1, <1>2, <1>3, <1>4 DEF LowerTells, Result
<1>12. Fate'
  BY <1>1, <1>3 DEF Fate
<1>13. SharedTells'
  BY <1>1, <1>2, <1>3 DEF SharedTells
<1>14. MatchTells'
  BY <1>1, <1>3 DEF MatchTells
<1> QED BY <1>7, <1>8, <1>9, <1>10, <1>11, <1>12, <1>13, <1>14 DEF BakeInv

\* What cleaning leaves: committed, and the last attempt told of a pending upper.
LEMMA CleanedIs ==
    ASSUME BakeTyped
    PROVE  /\ Cleaned \in [phase : Phases, owner : BOOLEAN, last : BOOLEAN] /\ Cleaned.phase = "committed"
           /\ state.phase = "pending" /\ state.owner => Cleaned.last
           /\ state.phase = "committed" => Cleaned = state
<1>1. state \in [phase : Phases, owner : BOOLEAN, last : BOOLEAN]
  BY DEF BakeTyped
<1>2. CASE state.phase = "committed"
  BY <1>1, <1>2 DEF Cleaned
<1>3. CASE state.phase # "committed"
  <2> DEFINE l == state.phase = "pending" /\ state.owner
  <2>1. Cleaned = [Committed EXCEPT !.last = l] /\ l \in BOOLEAN
    BY <1>3 DEF Cleaned
  <2>2. (state.phase = "pending" /\ state.owner) <=> l
    OBVIOUS
  <2> HIDE DEF l
  <2>3. /\ [Committed EXCEPT !.last = l] \in [phase : Phases, owner : BOOLEAN, last : BOOLEAN]
        /\ [Committed EXCEPT !.last = l].phase = "committed" /\ [Committed EXCEPT !.last = l].last = l
    BY <2>1 DEF Committed, Phases
  <2> QED BY Zenon, <1>3, <2>1, <2>2, <2>3
<1> QED BY <1>2, <1>3

\* The four last steps of a merge, taken by a resume.
LEMMA CompleteMergeKeeps ==
    ASSUME BakeInv, NEW n \in Nodes, CompleteMerge(n)
    PROVE  BakeInv'
<1>1. /\ BakeTyped /\ OfBaked /\ BakerTells /\ WorkTells /\ LowerTells /\ Fate /\ SharedTells /\ MatchTells
      /\ Baked \in Nodes /\ NoNode \notin Nodes
  BY BakedIsANode, NoNodeIsNone DEF BakeInv
<1>2. /\ baker[n].bg \in Merging /\ Apply(baker[n].bg)
      /\ BakerOf(n) /\ SameBake(baker'[n], baker[n]) /\ baker'[n].bg = After(baker[n].bg)
  BY <1>1, BgGoes, PcsAre DEF CompleteMerge
<1>3. UNCHANGED <<bakeLock, excl, guard, work, mounted, advert, drain, lease, pick, bake, orphan, at, excused>>
  BY DEF CompleteMerge, locks, mediator, history
<1>4. /\ lower' \in [ver : -1..1, half : BOOLEAN, mark : -1..1]
      /\ state' \in [phase : Phases, owner : BOOLEAN, last : BOOLEAN]
      /\ place' \in {"none", "building", "upper", "applied", "trash"}
  BY <1>1, <1>2, Applies
<1>5. \/ /\ baker[n].bg = "merging" /\ baker'[n].bg = "applying" /\ UNCHANGED <<state, place>>
         /\ lower'.half /\ lower'.ver = lower.ver /\ lower'.mark = lower.mark
      \/ /\ baker[n].bg = "applying" /\ baker'[n].bg = "applied" /\ place' = "applied" /\ UNCHANGED state
         /\ ~lower'.half /\ lower'.ver = Result /\ lower'.mark = lower.mark
      \/ /\ baker[n].bg = "applied" /\ baker'[n].bg = "marked" /\ UNCHANGED <<state, place>>
         /\ lower'.half = lower.half /\ lower'.ver = lower.ver /\ lower'.mark = Result
      \/ /\ baker[n].bg = "marked" /\ baker'[n].bg = "done" /\ UNCHANGED <<lower, place>>
         /\ state'.phase = "committed" /\ ~state'.owner /\ ~state'.last
  BY <1>1, <1>2, Applies
<1>6. /\ excl = n /\ bakeLock = n /\ ~baker[n].held /\ state.phase = "merging"
      /\ \A m \in Nodes : ~baker[m].held /\ ~guard[m].shared /\ (m # n => baker[m].bg \in {"off", "stale"})
  BY <1>1, <1>2 DEF BakerTells, SharedTells, Merging
<1>7. /\ \/ place = "upper" /\ lower.ver = Result - 1 /\ lower.mark = Result - 1
         \/ place = "applied" /\ lower.ver = Result /\ lower.mark \in {Result - 1, Result} /\ ~lower.half
      /\ Result = (IF state.owner THEN 1 ELSE 0)
  BY <1>1, <1>6 DEF LowerTells, Result
<1>8. /\ baker[n].bg \in {"merging", "applying"} => place = "upper"
      /\ baker[n].bg \in {"applied", "marked"} => place = "applied"
      /\ baker[n].bg = "marked" => lower.mark = Result
      /\ baker[n].bg = "applying" => lower.half
  BY <1>1 DEF BakerTells
<1>9. at \in -1..1 /\ \A m \in Nodes : guard[m].mark \in -1..1
  BY <1>1 DEF BakeTyped, Guard
<1>10. BakeTyped'
  BY <1>1, <1>2, <1>3, <1>4, <1>5 DEF BakeTyped, BakerOf
<1>11. OfBaked'
  BY <1>1, <1>2, <1>3, <1>4, <1>5, <1>6, <1>7, <1>8 DEF OfBaked, GuardOf, BakerOf, SameBake
<1>12. BakerTells'
  <2>1. CASE baker[n].bg = "merging"
    BY <1>1, <1>2, <1>3, <1>4, <1>5, <1>6, <1>7, <1>8, <2>1 DEF BakerTells, BakerOf, SameBake
  <2>2. CASE baker[n].bg = "applying"
    BY <1>1, <1>2, <1>3, <1>4, <1>5, <1>6, <1>7, <1>8, <2>2 DEF BakerTells, BakerOf, SameBake
  <2>3. CASE baker[n].bg = "applied"
    BY <1>1, <1>2, <1>3, <1>4, <1>5, <1>6, <1>7, <1>8, <2>3 DEF BakerTells, BakerOf, SameBake, Result
  <2>4. CASE baker[n].bg = "marked"
    BY <1>1, <1>2, <1>3, <1>4, <1>5, <1>6, <1>7, <1>8, <2>4 DEF BakerTells, BakerOf, SameBake, Merging
  <2> QED BY <1>2, <2>1, <2>2, <2>3, <2>4 DEF Merging
<1>13. WorkTells'
  <2>1. CASE baker[n].bg = "merging"
    BY <1>1, <1>2, <1>3, <1>4, <1>5, <1>6, <1>7, <1>8, <2>1 DEF WorkTells, InHand, Pending, BakerOf, SameBake
  <2>2. CASE baker[n].bg = "applying"
    BY <1>1, <1>2, <1>3, <1>4, <1>5, <1>6, <1>7, <1>8, <2>2 DEF WorkTells, InHand, Pending, BakerOf, SameBake, Merging
  <2>3. CASE baker[n].bg = "applied"
    BY <1>1, <1>2, <1>3, <1>4, <1>5, <1>6, <1>7, <1>8, <2>3 DEF WorkTells, InHand, Pending, BakerOf, SameBake
  <2>4. CASE baker[n].bg = "marked"
    BY <1>1, <1>2, <1>3, <1>4, <1>5, <1>6, <1>7, <1>8, <2>4 DEF WorkTells, InHand, Pending, BakerOf, SameBake
  <2> QED BY <1>2, <2>1, <2>2, <2>3, <2>4 DEF Merging
<1>14. LowerTells'
  <2>1. CASE baker[n].bg = "merging"
    BY <1>1, <1>2, <1>3, <1>4, <1>5, <1>6, <1>8, <2>1 DEF LowerTells, Result
  <2>2. CASE baker[n].bg = "applying"
    BY <1>1, <1>2, <1>3, <1>4, <1>5, <1>6, <2>2 DEF LowerTells, Result
  <2>3. CASE baker[n].bg = "applied"
    BY <1>1, <1>2, <1>3, <1>4, <1>5, <1>6, <1>8, <2>3 DEF LowerTells, Result
  <2>4. CASE baker[n].bg = "marked"
    BY <1>1, <1>2, <1>3, <1>4, <1>5, <1>6, <1>7, <1>8, <2>4 DEF LowerTells, Untouched
  <2> QED BY <1>2, <2>1, <2>2, <2>3, <2>4 DEF Merging
<1>15. Fate'
  <2>1. CASE baker[n].bg = "merging"
    BY <1>1, <1>2, <1>3, <1>4, <1>5, <1>6, <1>7, <1>8 DEF Fate
  <2>2. CASE baker[n].bg = "applying"
    BY <1>1, <1>2, <1>3, <1>4, <1>5, <1>6, <1>7, <1>8 DEF Fate
  <2>3. CASE baker[n].bg = "applied"
    BY <1>1, <1>2, <1>3, <1>4, <1>5, <1>6, <1>7, <1>8 DEF Fate
  <2>4. CASE baker[n].bg = "marked"
    BY <1>1, <1>2, <1>3, <1>4, <1>5, <1>6, <1>7, <1>8 DEF Fate
  <2> QED BY <1>2, <2>1, <2>2, <2>3, <2>4 DEF Merging
<1>16. SharedTells'
  BY <1>1, <1>2, <1>3, <1>4, <1>5 DEF SharedTells
<1>17. MatchTells'
  <2>1. CASE baker[n].bg = "merging"
    BY <1>1, <1>2, <1>3, <1>4, <1>5, <1>6, <1>7, <1>9 DEF MatchTells
  <2>2. CASE baker[n].bg = "applying"
    BY <1>1, <1>2, <1>3, <1>4, <1>5, <1>6, <1>7, <1>9 DEF MatchTells
  <2>3. CASE baker[n].bg = "applied"
    BY <1>1, <1>2, <1>3, <1>4, <1>5, <1>6, <1>7, <1>9 DEF MatchTells
  <2>4. CASE baker[n].bg = "marked"
    BY <1>1, <1>2, <1>3, <1>4, <1>5, <1>6, <1>7, <1>9 DEF MatchTells
  <2> QED BY <1>2, <2>1, <2>2, <2>3, <2>4 DEF Merging
<1> QED BY <1>10, <1>11, <1>12, <1>13, <1>14, <1>15, <1>16, <1>17 DEF BakeInv

\* A resume ends, finished or to be tried again; the state still says which.
LEMMA ResumeEndsKeeps ==
    ASSUME BakeInv, NEW n \in Nodes, ResumeEnds(n)
    PROVE  BakeInv'
<1>1. /\ BakeTyped /\ OfBaked /\ BakerTells /\ WorkTells /\ LowerTells /\ Fate /\ SharedTells /\ MatchTells
      /\ Baked \in Nodes /\ NoNode \notin Nodes
  BY BakedIsANode, NoNodeIsNone DEF BakeInv
<1>2. /\ BakerOf(n) /\ SameBake(baker'[n], baker[n]) /\ baker'[n].bg = "off"
      /\ baker[n].bg \in Merging \cup {"exclusive", "done"}
      /\ (baker[n].bg = "done" /\ place' = "trash") \/ (baker[n].bg # "done" /\ UNCHANGED place)
  <2>1. \/ baker[n].bg = "done" /\ place' = "trash" /\ baker' = [baker EXCEPT ![n].bg = "off", ![n].later = FALSE]
        \/ /\ baker[n].bg \in Merging \cup {"exclusive"} /\ UNCHANGED place
           /\ baker' = [baker EXCEPT ![n].bg = "off", ![n].later = TRUE]
    BY DEF ResumeEnds
  <2>2. BakerOf(n) /\ SameBake(baker'[n], baker[n]) /\ baker'[n].bg = "off"
    BY <1>1, <2>1, BgEnds
  <2> QED BY <2>1, <2>2 DEF Merging
<1>3. /\ UNCHANGED <<lower, state, guard, work, mounted, advert, drain, lease, pick, bake, orphan, at, excused>>
      /\ excl' = NoNode /\ bakeLock' = NoNode
  BY DEF ResumeEnds, mediator, history
<1>4. /\ excl = n /\ bakeLock = n /\ ~baker[n].held
      /\ \A m \in Nodes : ~baker[m].held /\ ~guard[m].shared /\ (m # n => baker[m].bg \in {"off", "stale"})
  BY <1>1, <1>2 DEF BakerTells, SharedTells, Merging
<1>5. baker[n].bg = "done" => state.phase = "committed"
  BY <1>1 DEF BakerTells
<1>6. BakeTyped'
  BY <1>1, <1>2, <1>3 DEF BakeTyped, BakerOf
<1>7. OfBaked'
  BY <1>1, <1>2, <1>3, <1>4, <1>5 DEF OfBaked, GuardOf, BakerOf, SameBake
<1>8. BakerTells'
  BY <1>1, <1>2, <1>3, <1>4, <1>5 DEF BakerTells, BakerOf, SameBake, Merging
<1>9. WorkTells'
  BY <1>1, <1>2, <1>3, <1>4, <1>5 DEF WorkTells, InHand, Pending, BakerOf, SameBake, Merging
<1>10. LowerTells'
  BY <1>1, <1>2, <1>3, <1>5 DEF LowerTells, Untouched, Result
<1>11. Fate'
  BY <1>1, <1>3 DEF Fate
<1>12. SharedTells'
  BY <1>1, <1>3 DEF SharedTells
<1>13. MatchTells'
  BY <1>1, <1>3 DEF MatchTells
<1> QED BY <1>6, <1>7, <1>8, <1>9, <1>10, <1>11, <1>12, <1>13 DEF BakeInv

\* The background work reads the state under bake.lock: it resumes, cleans, or finds it in use.
LEMMA StaleKeeps ==
    ASSUME BakeInv, NEW n \in Nodes, Stale(n)
    PROVE  BakeInv'
<1>1. /\ BakeTyped /\ OfBaked /\ BakerTells /\ WorkTells /\ LowerTells /\ Fate /\ SharedTells /\ MatchTells
      /\ Baked \in Nodes /\ NoNode \notin Nodes
  BY BakedIsANode, NoNodeIsNone DEF BakeInv
<1>2. /\ baker[n].bg = "stale" /\ BakerOf(n) /\ SameBake(baker'[n], baker[n])
      /\ \/ baker'[n].bg = "off" /\ UNCHANGED <<state, place, bakeLock>>
         \/ bakeLock = NoNode /\ state.phase = "merging" /\ bakeLock' = n /\ baker'[n].bg = "wait" /\ UNCHANGED <<state, place>>
         \/ /\ bakeLock = NoNode /\ state.phase # "merging" /\ baker'[n].bg = "off" /\ state' = Cleaned
            /\ place' = (IF state.phase = "committed" THEN place ELSE "trash") /\ UNCHANGED bakeLock
         \/ /\ bakeLock = NoNode /\ state.phase \notin {"merging", "committed"} /\ baker'[n].bg = "off"
            /\ place' = "trash" /\ UNCHANGED <<state, bakeLock>>
  <2>1. baker[n].bg = "stale"
    BY DEF Stale
  <2>2. CASE bakeLock # NoNode
    <3>1. baker' = Bg(n, "off") /\ UNCHANGED <<state, place, bakeLock>>
      BY <2>2 DEF Stale, disk
    <3> QED BY <1>1, <2>1, <3>1, BgGoes, PcsAre
  <2>3. CASE bakeLock = NoNode /\ state.phase = "merging"
    <3>1. baker' = Bg(n, "wait") /\ bakeLock' = n /\ UNCHANGED <<state, place>>
      BY <2>3 DEF Stale, disk
    <3> QED BY <1>1, <2>1, <2>3, <3>1, BgGoes, PcsAre
  <2>4. CASE bakeLock = NoNode /\ state.phase # "merging"
    <3>1. \/ baker' = Bg(n, "off") /\ Clean /\ UNCHANGED bakeLock
          \/ /\ state.phase # "committed" /\ place' = "trash" /\ UNCHANGED <<state, bakeLock>>
             /\ baker' = [baker EXCEPT ![n].bg = "off", ![n].later = TRUE]
      BY <2>4 DEF Stale
    <3>2. CASE baker' = Bg(n, "off") /\ Clean /\ UNCHANGED bakeLock
      <4>1. BakerOf(n) /\ SameBake(baker'[n], baker[n]) /\ baker'[n].bg = "off"
        BY <1>1, <3>2, BgGoes, PcsAre
      <4> QED BY <2>1, <2>4, <3>2, <4>1 DEF Clean
    <3>3. CASE /\ state.phase # "committed" /\ place' = "trash" /\ UNCHANGED <<state, bakeLock>>
               /\ baker' = [baker EXCEPT ![n].bg = "off", ![n].later = TRUE]
      <4>1. BakerOf(n) /\ SameBake(baker'[n], baker[n]) /\ baker'[n].bg = "off"
        BY <1>1, <3>3, BgEnds
      <4> QED BY <2>1, <2>4, <3>3, <4>1
    <3> QED BY <3>1, <3>2, <3>3
  <2> QED BY <2>2, <2>3, <2>4
<1>3. UNCHANGED <<lower, excl, guard, work, mounted, advert, drain, lease, pick, bake, orphan, at, excused>>
  BY DEF Stale, disk, mediator, history
<1>4. ~baker[n].held /\ (bakeLock = NoNode => \A m \in Nodes : ~baker[m].held /\ baker[m].bg \in {"off", "stale"})
  BY <1>1, <1>2 DEF BakerTells
<1>5. /\ Cleaned \in [phase : Phases, owner : BOOLEAN, last : BOOLEAN] /\ Cleaned.phase = "committed"
      /\ state.phase = "pending" /\ state.owner => Cleaned.last
      /\ state.phase = "committed" => Cleaned = state
  BY <1>1, CleanedIs
<1>6. BakeTyped'
  BY <1>1, <1>2, <1>3, <1>5 DEF BakeTyped, BakerOf
<1>7. OfBaked'
  BY <1>1, <1>2, <1>3, <1>4, <1>5 DEF OfBaked, GuardOf, BakerOf, SameBake
<1>8. BakerTells'
  BY <1>1, <1>2, <1>3, <1>4, <1>5 DEF BakerTells, BakerOf, SameBake, Result, Merging
<1>9. WorkTells'
  BY <1>1, <1>2, <1>3, <1>4, <1>5 DEF WorkTells, InHand, Pending, BakerOf, SameBake, Merging
<1>10. LowerTells'
  <2>1. CASE UNCHANGED state /\ (UNCHANGED place \/ state.phase # "merging")
    BY <1>1, <1>2, <1>3, <2>1 DEF LowerTells, Untouched, Result
  <2>2. CASE state' = Cleaned /\ state.phase # "merging"
    <3>1. Untouched \/ (state.phase = "committed" /\ lower.ver = lower.mark /\ lower.ver \in {0, 1} /\ ~lower.half)
      BY <1>1, <2>2 DEF LowerTells, BakeTyped, Phases
    <3>2. bake = "build" \/ work[Baked].step = "build" => Untouched
      BY <1>1, <2>2 DEF LowerTells
    <3>3. state'.phase = "committed"
      BY <1>5, <2>2
    <3> QED BY <1>3, <3>1, <3>2, <3>3 DEF LowerTells, Untouched
  <2> QED BY <1>2, <2>1, <2>2
<1>11. Fate'
  BY <1>1, <1>2, <1>3, <1>5 DEF Fate
<1>12. SharedTells'
  BY <1>1, <1>2, <1>3, <1>5 DEF SharedTells
<1>13. MatchTells'
  BY <1>1, <1>3 DEF MatchTells
<1> QED BY <1>6, <1>7, <1>8, <1>9, <1>10, <1>11, <1>12, <1>13 DEF BakeInv

\* The words about a match stay true when the guard of one node keeps, takes or lets go the lock by the rules.
LEMMA MatchStays ==
    ASSUME BakeTyped, LowerTells, SharedTells, MatchTells, NEW n \in Nodes, GuardOf(n), UNCHANGED <<lower, at, pick>>,
           excused \subseteq excused', \A m \in Nodes : lease'[m] = "R" => lease[m] = "R",
           guard'[n].mark \in {guard[n].mark, lower.mark},
           lease'[n] = "R" /\ n \notin excused' =>
              \/ guard'[n].mark = guard[n].mark /\ guard'[n].shared = guard[n].shared
              \/ LockMoved(guard[n], guard'[n])
    PROVE  MatchTells'
<1>1. /\ lower.mark \in -1..1 /\ lower.ver \in -1..1 /\ at \in -1..1
      /\ \A m \in Nodes : guard[m].mark \in -1..1 /\ guard[m].shared \in BOOLEAN /\ guard'[m].shared \in BOOLEAN
  BY DEF BakeTyped, Guard, GuardOf
<1>2. pick' # NoNode => \A m \in Nodes : lease'[m] # "R"
  BY DEF MatchTells
<1>3. (\E m \in Nodes : lease'[m] = "R") => at' <= lower'.ver
  BY DEF MatchTells
<1>4. \A m \in Nodes : guard'[m].mark <= lower'.mark
  BY <1>1 DEF MatchTells, GuardOf
<1>5. ASSUME NEW m \in Nodes \ excused', lease'[m] = "R"
      PROVE  IF guard'[m].shared THEN at' = lower'.ver ELSE guard'[m].mark <= at'
  <2>1. lease[m] = "R" /\ m \notin excused
    BY <1>5
  <2>2. IF guard[m].shared THEN at = lower.ver ELSE guard[m].mark <= at
    BY <2>1 DEF MatchTells
  <2>3. CASE guard'[m].mark = guard[m].mark /\ guard'[m].shared = guard[m].shared
    BY <2>2, <2>3
  <2>4. CASE m = n /\ LockMoved(guard[n], guard'[n])
    <3>1. at <= lower.ver
      BY <2>1 DEF MatchTells
    <3>2. state.phase # "merging" => lower.ver = lower.mark
      BY <1>1 DEF LowerTells, Untouched, BakeTyped, Phases
    <3>3. guard[n].shared => state.phase # "merging"
      BY DEF SharedTells
    <3>4. CASE guard'[n].shared /\ guard[n].shared
      BY <2>2, <2>4, <3>4
    <3>5. CASE guard'[n].shared /\ ~guard[n].shared
      <4>1. state.phase # "merging" /\ lower.mark = guard[n].mark /\ guard[n].mark <= at
        BY <2>2, <2>4, <3>5 DEF LockMoved
      <4>2. at = lower.ver
        BY <1>1, <3>1, <3>2, <4>1
      <4> QED BY <2>4, <3>5, <4>2
    <3>6. CASE ~guard'[n].shared /\ guard[n].shared
      <4>1. guard'[n].mark = lower.mark /\ at = lower.ver
        BY <2>2, <2>4, <3>6 DEF LockMoved
      <4>2. guard'[n].mark <= at
        BY <1>1, <3>2, <3>3, <3>6, <4>1
      <4> QED BY <2>4, <3>6, <4>2
    <3>7. CASE ~guard'[n].shared /\ ~guard[n].shared
      <4>1. guard'[n].mark = guard[n].mark /\ guard[n].mark <= at
        BY <2>2, <2>4, <3>7 DEF LockMoved
      <4> QED BY <2>4, <3>7, <4>1
    <3> QED BY <3>4, <3>5, <3>6, <3>7
  <2> QED BY <1>5, <2>3, <2>4 DEF GuardOf
<1> QED BY <1>2, <1>3, <1>4, <1>5 DEF MatchTells

\* Cleaning up a held bake: nobody else can have written the state since.
LEMMA AbandonWritesKeeps ==
    ASSUME BakeInv, NEW n \in Nodes, AbandonWrites(n)
    PROVE  BakeInv'
<1>1. /\ BakeTyped /\ OfBaked /\ BakerTells /\ WorkTells /\ LowerTells /\ Fate /\ SharedTells /\ MatchTells
      /\ Baked \in Nodes /\ NoNode \notin Nodes
  BY BakedIsANode, NoNodeIsNone DEF BakeInv
<1>2. /\ baker[n].abandon = "write" /\ BakerOf(n) /\ baker'[n].abandon = "go" /\ baker'[n].held = baker[n].held
      /\ baker'[n].done = baker[n].done /\ baker'[n].merging = baker[n].merging /\ baker'[n].bg = baker[n].bg
  BY <1>1, Fields DEF AbandonWrites
<1>3. /\ UNCHANGED <<lower, bakeLock, excl, guard, work, mounted, advert, drain, lease, pick, bake, orphan, at, excused>>
      /\ place' = (IF place = "none" THEN "none" ELSE "trash") /\ (state' = Committed \/ UNCHANGED state)
  BY DEF AbandonWrites, locks, mediator, history
<1>4. baker[n].held /\ ~baker[n].merging /\ bakeLock = n /\ baker[n].bg = "off" /\ state.phase # "merging" /\ baker[n].done
  BY <1>1, <1>2 DEF BakerTells
<1>5. n = Baked
  BY <1>1, <1>4 DEF OfBaked
<1>6. \A m \in Nodes : m # n => ~baker[m].held /\ baker[m].bg \in {"off", "stale"}
  BY <1>1, <1>4 DEF BakerTells
<1>7. /\ Committed \in [phase : Phases, owner : BOOLEAN, last : BOOLEAN] /\ Committed.phase = "committed"
      /\ lower.ver = lower.mark /\ lower.ver \in {0, 1} /\ ~lower.half
  BY <1>1, <1>4 DEF LowerTells, Untouched, BakeTyped, Phases, Committed
<1>8. lease[n] = "K" => (work[n].step = "build" /\ work[n].pc \in {"failing", "empty"}) \/ (work[n].step = "merge" /\ work[n].pc = "failing")
  BY <1>1, <1>2, <1>5 DEF WorkTells
<1>9. baker'[n].held /\ baker'[n].done /\ ~baker'[n].merging /\ baker'[n].bg = "off" /\ state'.phase # "merging"
  BY <1>2, <1>3, <1>4, <1>7
<1>10. bake = "merge" => work[Baked].step = "merge" /\ work[Baked].pc = "failing"
  BY <1>1, <1>8, <1>5 DEF OfBaked
<1>11. BakeTyped'
  BY <1>1, <1>2, <1>3, <1>4, <1>5, <1>6, <1>7 DEF BakeTyped, BakerOf
<1>12. OfBaked'
  BY <1>1, <1>2, <1>3, <1>4, <1>5, <1>6, <1>7, <1>8, <1>9, <1>10 DEF OfBaked, GuardOf, BakerOf
<1>13. BakerTells'
  BY <1>1, <1>2, <1>3, <1>4, <1>5, <1>6, <1>7, <1>8, <1>9, <1>10 DEF BakerTells, BakerOf
<1>14. WorkTells'
  BY <1>1, <1>2, <1>3, <1>4, <1>5, <1>6, <1>7, <1>8, <1>9, <1>10 DEF WorkTells, InHand, Pending, Merging
<1>15. LowerTells'
  BY <1>1, <1>2, <1>3, <1>4, <1>5, <1>6, <1>7 DEF LowerTells, Untouched
<1>16. Fate'
  BY <1>1, <1>2, <1>3, <1>4, <1>5, <1>10 DEF Fate
<1>17. SharedTells'
  BY <1>1, <1>2, <1>3, <1>4, <1>5, <1>6, <1>7 DEF SharedTells
<1>18. MatchTells'
  BY <1>1, <1>2, <1>3, <1>4, <1>5 DEF MatchTells
<1> QED BY <1>11, <1>12, <1>13, <1>14, <1>15, <1>16, <1>17, <1>18 DEF BakeInv

\* The abandoned bake is let go.
LEMMA AbandonEndsKeeps ==
    ASSUME BakeInv, NEW n \in Nodes, AbandonEnds(n)
    PROVE  BakeInv'
<1>1. /\ BakeTyped /\ OfBaked /\ BakerTells /\ WorkTells /\ LowerTells /\ Fate /\ SharedTells /\ MatchTells
      /\ Baked \in Nodes /\ NoNode \notin Nodes
  BY BakedIsANode, NoNodeIsNone DEF BakeInv
<1>2. /\ GuardOf(n) /\ ~guard'[n].bake /\ guard'[n].shared = guard[n].shared /\ guard'[n].stepping = guard[n].stepping
      /\ guard'[n].mark = (IF guard[n].shared THEN guard[n].mark ELSE lower.mark)
      /\ BakerOf(n) /\ ~baker'[n].held /\ ~baker'[n].done /\ ~baker'[n].merging /\ baker'[n].abandon = "no"
      /\ baker'[n].bg = baker[n].bg
      /\ bakeLock' = NoNode
      /\ baker[n].abandon = "go"
  BY <1>1, LetsGo DEF AbandonEnds, LetGo
<1>3. /\ UNCHANGED <<lower, state, place, excl, work, mounted, advert, drain, lease, pick, bake, orphan, at>>
      /\ excused' = (IF lower.mark # guard[n].mark /\ lease[n] = "R" THEN excused \cup {n} ELSE excused)
  BY DEF AbandonEnds, LetGo, Leased, disk, mediator
<1>4. baker[n].held /\ ~baker[n].merging /\ bakeLock = n /\ baker[n].bg = "off" /\ state.phase # "merging" /\ baker[n].done
  BY <1>1, <1>2 DEF BakerTells
<1>5. n = Baked
  BY <1>1, <1>4 DEF OfBaked
<1>6. \A m \in Nodes : m # n => ~baker[m].held /\ baker[m].bg \in {"off", "stale"}
  BY <1>1, <1>4 DEF BakerTells
<1>7. lease[n] = "K" => (work[n].step = "build" /\ work[n].pc \in {"failing", "empty"}) \/ (work[n].step = "merge" /\ work[n].pc = "failing")
  BY <1>1, <1>2, <1>5 DEF WorkTells
<1>8. BakeTyped'
  BY <1>1, <1>2, <1>3, <1>4 DEF BakeTyped, GuardOf, BakerOf
<1>9. OfBaked'
  BY <1>1, <1>2, <1>3, <1>4, <1>5, <1>6, <1>7 DEF OfBaked, GuardOf, BakerOf
<1>10. BakerTells'
  BY <1>1, <1>2, <1>3, <1>4, <1>5, <1>6, <1>7 DEF BakerTells, GuardOf, BakerOf
<1>11. WorkTells'
  BY <1>1, <1>2, <1>3, <1>4, <1>5, <1>6, <1>7 DEF WorkTells, InHand, Pending
<1>12. LowerTells'
  BY <1>1, <1>2, <1>3, <1>4 DEF LowerTells, Untouched
<1>13. Fate'
  BY <1>1, <1>2, <1>3 DEF Fate
<1>14. SharedTells'
  BY <1>1, <1>2, <1>3 DEF SharedTells, GuardOf
<1>15. MatchTells'
  BY <1>1, <1>2, <1>3, MatchStays
<1> QED BY <1>8, <1>9, <1>10, <1>11, <1>12, <1>13, <1>14, <1>15 DEF BakeInv

\* A build that finds another bake, or a merge to take up, fails.
LEMMA BakeInProgressKeeps ==
    ASSUME BakeInv, NEW n \in Nodes, BakeInProgress(n)
    PROVE  BakeInv'
<1>1. /\ BakeTyped /\ OfBaked /\ BakerTells /\ WorkTells /\ LowerTells /\ Fate /\ SharedTells /\ MatchTells
      /\ Baked \in Nodes /\ NoNode \notin Nodes
  BY BakedIsANode, NoNodeIsNone DEF BakeInv
<1>2. /\ WorkOf(n) /\ work[n].step = "build" /\ work[n].pc = "guarded" /\ work'[n].step = "build" /\ work'[n].pc = "failing"
      /\ BakerOf(n) /\ SameBake(baker'[n], baker[n])
      /\ \/ baker'[n].bg = baker[n].bg /\ UNCHANGED bakeLock
         \/ /\ bakeLock = NoNode /\ state.phase = "merging" /\ ~baker[n].held /\ baker[n].bg = "off"
            /\ bakeLock' = n /\ baker'[n].bg = "wait"
  <2>1. WorkOf(n) /\ work[n].step = "build" /\ work[n].pc = "guarded" /\ work'[n].step = "build" /\ work'[n].pc = "failing"
    BY <1>1, WorkGoes, PcsAre DEF BakeInProgress, At, BuildPcs
  <2>2. CASE CanBake(n)
    <3>1. baker' = [baker EXCEPT ![n].bg = "wait"] /\ bakeLock' = n /\ state.phase = "merging"
      BY <2>2 DEF BakeInProgress
    <3>2. BakerOf(n) /\ SameBake(baker'[n], baker[n]) /\ baker'[n].bg = "wait"
      BY <1>1, <3>1, BgGoes, PcsAre DEF Bg
    <3> QED BY <2>1, <2>2, <3>1, <3>2 DEF CanBake
  <2>3. CASE ~CanBake(n)
    <3>1. UNCHANGED <<baker, bakeLock>>
      BY <2>3 DEF BakeInProgress
    <3>2. BakerOf(n) /\ baker'[n] = baker[n]
      BY <1>1, <3>1 DEF BakerOf, BakeTyped
    <3> QED BY <2>1, <3>1, <3>2 DEF SameBake
  <2> QED BY <2>2, <2>3
<1>3. UNCHANGED <<lower, state, place, excl, guard, mounted, advert, drain, lease, pick, bake, orphan, at, excused>>
  BY DEF BakeInProgress, disk, mediator, history
<1>4. n = Baked
  BY <1>1, <1>2 DEF OfBaked
<1>5. bakeLock = NoNode => \A m \in Nodes : ~baker[m].held /\ baker[m].bg \in {"off", "stale"}
  BY <1>1 DEF BakerTells
<1>6. BakeTyped'
  BY <1>1, <1>2, <1>3 DEF BakeTyped, BakerOf, WorkOf
<1>7. OfBaked'
  BY <1>1, <1>2, <1>3, <1>4, <1>5 DEF OfBaked, GuardOf, BakerOf, WorkOf, BuildPcs
<1>8. BakerTells'
  BY <1>1, <1>2, <1>3, <1>4, <1>5 DEF BakerTells, BakerOf, SameBake, Result, Merging
<1>9. WorkTells'
  BY <1>1, <1>2, <1>3, <1>4, <1>5 DEF WorkTells, InHand, Pending, SameBake
<1>10. LowerTells'
  BY <1>1, <1>2, <1>3, <1>4 DEF LowerTells, Untouched, Result
<1>11. Fate'
  BY <1>1, <1>2, <1>3, <1>4 DEF Fate
<1>12. SharedTells'
  BY <1>1, <1>2, <1>3 DEF SharedTells, WorkOf
<1>13. MatchTells'
  BY <1>1, <1>3 DEF MatchTells
<1> QED BY <1>6, <1>7, <1>8, <1>9, <1>10, <1>11, <1>12, <1>13 DEF BakeInv

\* The build tells of the upper it has kept.
LEMMA WritePendingKeeps ==
    ASSUME BakeInv, NEW n \in Nodes, WritePending(n)
    PROVE  BakeInv'
<1>1. /\ BakeTyped /\ OfBaked /\ BakerTells /\ WorkTells /\ LowerTells /\ Fate /\ SharedTells /\ MatchTells
      /\ Baked \in Nodes /\ NoNode \notin Nodes
  BY BakedIsANode, NoNodeIsNone DEF BakeInv
<1>2. /\ WorkOf(n) /\ work[n].step = "build" /\ work[n].pc = "kept" /\ work'[n].step = "build"
      /\ BakerOf(n) /\ baker'[n].held = baker[n].held /\ baker'[n].merging = baker[n].merging /\ baker'[n].bg = baker[n].bg
      /\ \/ work'[n].pc = "pending" /\ state' = [state EXCEPT !.phase = "pending"] /\ SameBaker(baker'[n], baker[n])
         \/ /\ work'[n].pc = "failing" /\ UNCHANGED state
            /\ \/ SameBaker(baker'[n], baker[n])
               \/ baker[n].held /\ ~baker[n].done /\ ~baker[n].merging /\ baker'[n].done /\ baker'[n].abandon = "write"
  <2>0. work[n].step = "build" /\ work[n].pc = "kept"
    BY DEF WritePending, At
  <2>1. CASE state' = [state EXCEPT !.phase = "pending"] /\ GoTo(n, "pending") /\ UNCHANGED baker
    <3>1. WorkOf(n) /\ work'[n].step = "build" /\ work'[n].pc = "pending"
      BY <1>1, <2>0, <2>1, WorkGoes, PcsAre DEF BuildPcs
    <3>2. BakerOf(n) /\ baker'[n] = baker[n]
      BY <1>1, <2>1 DEF BakerOf, BakeTyped
    <3> QED BY <2>0, <2>1, <3>1, <3>2 DEF SameBaker, SameBake
  <2>2. CASE GoTo(n, "failing") /\ baker' = [baker EXCEPT ![n] = Abandon(@)] /\ UNCHANGED state
    <3>1. WorkOf(n) /\ work'[n].step = "build" /\ work'[n].pc = "failing"
      BY <1>1, <2>0, <2>2, WorkGoes, PcsAre DEF BuildPcs
    <3> QED BY Zenon, <1>1, <2>0, <2>2, <3>1, Abandoned
  <2> QED BY <2>1, <2>2 DEF WritePending
<1>3. UNCHANGED <<lower, place, bakeLock, excl, guard, mounted, advert, drain, lease, pick, bake, orphan, at, excused>>
  BY DEF WritePending, locks, mediator, history
<1>4. n = Baked
  BY <1>1, <1>2 DEF OfBaked
<1>5. state.phase = "building" /\ place = "upper" /\ InHand /\ ~baker[n].merging /\ ~guard[n].bake /\ bakeLock = n /\ baker[n].bg = "off"
  BY <1>1, <1>2, <1>4 DEF WorkTells, InHand, BakerTells
<1>6. /\ state' \in [phase : Phases, owner : BOOLEAN, last : BOOLEAN] /\ state'.phase \in {"building", "pending"}
      /\ state'.owner = state.owner /\ (work'[n].pc = "pending" => state'.phase = "pending")
  BY <1>1, <1>2, <1>5 DEF BakeTyped, Phases
<1>7. \A m \in Nodes : m # n => ~baker[m].held /\ baker[m].bg \in {"off", "stale"}
  BY <1>1, <1>5 DEF BakerTells
<1>8. bake # "merge"
  BY <1>1, <1>2 DEF OfBaked
<1>9. BakeTyped'
  BY <1>1, <1>2, <1>3, <1>4, <1>5, <1>6 DEF BakeTyped, BakerOf, WorkOf
<1>10. OfBaked'
  BY <1>1, <1>2, <1>3, <1>4, <1>5, <1>6, <1>7, <1>8 DEF OfBaked, GuardOf, BakerOf, WorkOf, BuildPcs
<1>11. BakerTells'
  BY <1>1, <1>2, <1>3, <1>4, <1>5, <1>6, <1>7, <1>8 DEF BakerTells, BakerOf, SameBaker, SameBake
<1>12. WorkTells'
  BY <1>1, <1>2, <1>3, <1>4, <1>5, <1>6, <1>7, <1>8 DEF WorkTells, InHand, Pending, SameBaker, SameBake
<1>13. LowerTells'
  BY <1>1, <1>2, <1>3, <1>4, <1>5, <1>6 DEF LowerTells, Untouched
<1>14. Fate'
  BY <1>1, <1>2, <1>3, <1>4, <1>5 DEF Fate
<1>15. SharedTells'
  BY <1>1, <1>2, <1>3, <1>4, <1>6 DEF SharedTells, WorkOf
<1>16. MatchTells'
  BY <1>1, <1>2, <1>3 DEF MatchTells
<1> QED BY <1>9, <1>10, <1>11, <1>12, <1>13, <1>14, <1>15, <1>16 DEF BakeInv

\* The build's commands are over.
LEMMA BuiltKeeps ==
    ASSUME BakeInv, NEW n \in Nodes, Built(n)
    PROVE  BakeInv'
<1>1. /\ BakeTyped /\ OfBaked /\ BakerTells /\ WorkTells /\ LowerTells /\ Fate /\ SharedTells /\ MatchTells
      /\ Baked \in Nodes /\ NoNode \notin Nodes
  BY BakedIsANode, NoNodeIsNone DEF BakeInv
<1>2. /\ WorkOf(n) /\ work[n].step = "build" /\ work[n].pc = "building" /\ work'[n].step = "build"
      /\ BakerOf(n) /\ baker'[n].held = baker[n].held /\ baker'[n].merging = baker[n].merging /\ baker'[n].bg = baker[n].bg
      /\ \/ work'[n].pc = "kept" /\ place' = "upper" /\ SameBaker(baker'[n], baker[n])
         \/ /\ work'[n].pc \in {"failing", "empty"} /\ UNCHANGED place
            /\ \/ SameBaker(baker'[n], baker[n])
               \/ baker[n].held /\ ~baker[n].done /\ ~baker[n].merging /\ baker'[n].done /\ baker'[n].abandon = "write"
  <2>0. work[n].step = "build" /\ work[n].pc = "building"
    BY DEF Built, At
  <2>1. CASE place' = "upper" /\ GoTo(n, "kept") /\ UNCHANGED baker
    <3>1. WorkOf(n) /\ work'[n].step = "build" /\ work'[n].pc = "kept"
      BY <1>1, <2>0, <2>1, WorkGoes, PcsAre DEF BuildPcs
    <3>2. BakerOf(n) /\ baker'[n] = baker[n]
      BY <1>1, <2>1 DEF BakerOf, BakeTyped
    <3> QED BY <2>0, <2>1, <3>1, <3>2 DEF SameBaker, SameBake
  <2>2. ASSUME NEW told \in {"failing", "empty"}, GoTo(n, told), baker' = [baker EXCEPT ![n] = Abandon(@)], UNCHANGED place
        PROVE  /\ WorkOf(n) /\ work'[n].step = "build" /\ work'[n].pc \in {"failing", "empty"} /\ UNCHANGED place
               /\ BakerOf(n) /\ baker'[n].held = baker[n].held /\ baker'[n].merging = baker[n].merging /\ baker'[n].bg = baker[n].bg
               /\ \/ SameBaker(baker'[n], baker[n])
                  \/ baker[n].held /\ ~baker[n].done /\ ~baker[n].merging /\ baker'[n].done /\ baker'[n].abandon = "write"
    <3>1. WorkOf(n) /\ work'[n].step = "build" /\ work'[n].pc = told
      BY <1>1, <2>0, <2>2, WorkGoes, PcsAre DEF BuildPcs
    <3> QED BY Zenon, <1>1, <2>0, <2>2, <3>1, Abandoned
  <2> QED BY Zenon, <2>0, <2>1, <2>2 DEF Built
<1>3. /\ UNCHANGED <<lower, state, bakeLock, excl, guard, advert, drain, lease, pick, bake, orphan, at, excused>>
      /\ mounted' = [mounted EXCEPT ![n] = None]
  BY DEF Built, locks, mediator, history
<1>4. n = Baked
  BY <1>1, <1>2 DEF OfBaked
<1>5. state.phase = "building" /\ InHand /\ ~baker[n].merging /\ ~guard[n].bake /\ bakeLock = n /\ baker[n].bg = "off"
  BY <1>1, <1>2, <1>4 DEF WorkTells, InHand, BakerTells
<1>6. \A m \in Nodes : m # n => ~baker[m].held /\ baker[m].bg \in {"off", "stale"}
  BY <1>1, <1>5 DEF BakerTells
<1>7. \A m \in Nodes : mounted'[m] = (IF m = n THEN None ELSE mounted[m])
  BY <1>1, <1>3 DEF BakeTyped
<1>8. BakeTyped'
  BY <1>1, <1>2, <1>3, <1>4 DEF BakeTyped, BakerOf, WorkOf
<1>9. OfBaked'
  BY <1>1, <1>2, <1>3, <1>4, <1>5, <1>6, <1>7 DEF OfBaked, GuardOf, BakerOf, WorkOf, BuildPcs
<1>10. BakerTells'
  BY <1>1, <1>2, <1>3, <1>4, <1>5, <1>6, <1>7 DEF BakerTells, BakerOf, SameBaker, SameBake
<1>11. WorkTells'
  BY <1>1, <1>2, <1>3, <1>4, <1>5, <1>6, <1>7 DEF WorkTells, InHand, Pending, SameBaker, SameBake
<1>12. LowerTells'
  BY <1>1, <1>2, <1>3, <1>4, <1>5 DEF LowerTells, Untouched
<1>13. Fate'
  BY <1>1, <1>2, <1>3, <1>4 DEF Fate
<1>14. SharedTells'
  BY <1>1, <1>2, <1>3, <1>7 DEF SharedTells, WorkOf
<1>15. MatchTells'
  BY <1>1, <1>2, <1>3 DEF MatchTells
<1> QED BY <1>8, <1>9, <1>10, <1>11, <1>12, <1>13, <1>14, <1>15 DEF BakeInv

\* A build takes the bake, and cleans what an earlier one left.
LEMMA TakeForBuildKeeps ==
    ASSUME BakeInv, NEW n \in Nodes, TakeForBuild(n)
    PROVE  BakeInv'
<1>1. /\ BakeTyped /\ OfBaked /\ BakerTells /\ WorkTells /\ LowerTells /\ Fate /\ SharedTells /\ MatchTells
      /\ Baked \in Nodes /\ NoNode \notin Nodes
  BY BakedIsANode, NoNodeIsNone DEF BakeInv
<1>2. /\ work[n].step = "build" /\ work[n].pc = "guarded" /\ CanBake(n) /\ state.phase # "merging"
      /\ BakerOf(n) /\ baker'[n].held /\ baker'[n].bg = baker[n].bg /\ WorkOf(n) /\ work'[n].step = "build"
      /\ baker'[n].merging = baker[n].merging
      /\ \/ /\ baker'[n].done = baker[n].done /\ baker'[n].abandon = baker[n].abandon
            /\ work'[n].pc = "building" /\ state' = [Cleaned EXCEPT !.phase = "building", !.owner = TRUE]
            /\ mounted' = [mounted EXCEPT ![n] = lower.ver]
         \/ /\ \/ baker'[n].done = baker[n].done /\ baker'[n].abandon = baker[n].abandon
               \/ ~baker[n].done /\ ~baker[n].merging /\ baker'[n].done /\ baker'[n].abandon = "write"
            /\ work'[n].pc = "failing" /\ state' = Cleaned /\ mounted' = mounted
  <2>1. work[n].step = "build" /\ work[n].pc = "guarded" /\ CanBake(n) /\ state.phase # "merging"
    BY DEF TakeForBuild, At
  <2> QED BY Zenon, <1>1, <2>1, TakesForBuild
<1>3. /\ UNCHANGED <<lower, excl, guard, advert, drain, lease, pick, bake, orphan, at, excused>>
      /\ bakeLock' = n /\ place' = "building"
  BY DEF TakeForBuild, mediator, history
<1>4. n = Baked
  BY <1>1, <1>2 DEF OfBaked
<1>5. /\ ~baker[n].held /\ baker[n].bg = "off" /\ bakeLock = NoNode /\ ~baker[n].done /\ baker[n].abandon = "no" /\ ~guard[n].bake
      /\ \A m \in Nodes : ~baker[m].held /\ baker[m].bg \in {"off", "stale"}
  BY <1>1, <1>2 DEF CanBake, BakerTells
<1>6. Untouched /\ bake # "merge" /\ lower.ver \in -1..1
  BY <1>1, <1>2 DEF OfBaked, LowerTells, BakeTyped
<1>7. /\ state' \in [phase : Phases, owner : BOOLEAN, last : BOOLEAN]
      /\ \/ work'[n].pc = "building" /\ state'.phase = "building" /\ state'.owner
         \/ work'[n].pc = "failing" /\ state'.phase = "committed"
  <2>1. Cleaned \in [phase : Phases, owner : BOOLEAN, last : BOOLEAN] /\ Cleaned.phase = "committed"
    BY <1>1, CleanedIs
  <2>2. "building" \in Phases
    BY DEF Phases
  <2> QED BY <1>2, <2>1, <2>2
<1>8. baker[n].merging \in BOOLEAN /\ (baker'[n].done <=> baker'[n].abandon # "no")
  BY <1>1, <1>2, <1>5 DEF BakeTyped, BakerPlace
<1>9. ~baker'[n].merging
  <2>1. ~baker[n].merging
    BY <1>1, <1>5 DEF BakerTells
  <2> QED BY Zenon, <1>2, <2>1
<1>10. \A m \in Nodes : m # n => mounted'[m] = mounted[m]
  BY <1>1, <1>2 DEF BakeTyped
<1>11. work'[n].pc = "failing" => mounted' = mounted
  BY <1>2
<1>12. BakeTyped'
  BY <1>1, <1>2, <1>3, <1>4, <1>5, <1>6, <1>7, <1>8 DEF BakeTyped, BakerOf, WorkOf
<1>13. OfBaked'
  BY <1>1, <1>2, <1>3, <1>4, <1>5, <1>6, <1>7, <1>8, <1>9, <1>10, <1>11 DEF OfBaked, GuardOf, BakerOf, WorkOf, BuildPcs
<1>14. BakerTells'
  BY <1>1, <1>2, <1>3, <1>4, <1>5, <1>6, <1>7, <1>8, <1>9, <1>10, <1>11 DEF BakerTells, BakerOf
<1>15. WorkTells'
  BY <1>1, <1>2, <1>3, <1>4, <1>5, <1>6, <1>7, <1>8, <1>9, <1>10, <1>11 DEF WorkTells, InHand, Pending
<1>16. LowerTells'
  BY <1>1, <1>2, <1>3, <1>4, <1>5, <1>6, <1>7, <1>8 DEF LowerTells, Untouched
<1>17. Fate'
  BY <1>1, <1>2, <1>3, <1>4, <1>5, <1>6 DEF Fate
<1>18. SharedTells'
  BY <1>1, <1>2, <1>3, <1>4, <1>5, <1>6, <1>7, <1>10 DEF SharedTells, WorkOf
<1>19. MatchTells'
  BY <1>1, <1>2, <1>3, <1>4, <1>5, <1>6 DEF MatchTells
<1> QED BY <1>12, <1>13, <1>14, <1>15, <1>16, <1>17, <1>18, <1>19 DEF BakeInv

\* The build hands over to the merge step.
LEMMA HoldBakeKeeps ==
    ASSUME BakeInv, NEW n \in Nodes, HoldBake(n)
    PROVE  BakeInv'
<1>1. /\ BakeTyped /\ OfBaked /\ BakerTells /\ WorkTells /\ LowerTells /\ Fate /\ SharedTells /\ MatchTells
      /\ Baked \in Nodes /\ NoNode \notin Nodes
  BY BakedIsANode, NoNodeIsNone DEF BakeInv
<1>2. /\ WorkOf(n) /\ work[n].step = "build" /\ work[n].pc = "pending" /\ work'[n].step = "build"
      /\ GuardOf(n) /\ LockMoved(guard[n], guard'[n]) /\ guard'[n].bake /\ guard'[n].stepping = guard[n].stepping
      /\ BakerOf(n) /\ baker'[n].held = baker[n].held /\ baker'[n].merging = baker[n].merging /\ baker'[n].bg = baker[n].bg
      /\ \/ work'[n].pc = "handed" /\ SameBaker(baker'[n], baker[n])
         \/ /\ work'[n].pc = "failing"
            /\ \/ SameBaker(baker'[n], baker[n])
               \/ baker[n].held /\ ~baker[n].done /\ ~baker[n].merging /\ baker'[n].done /\ baker'[n].abandon = "write"
  <2>0. work[n].step = "build" /\ work[n].pc = "pending"
    BY DEF HoldBake, At
  <2>1. GuardOf(n) /\ LockMoved(guard[n], guard'[n]) /\ guard'[n].bake /\ guard'[n].stepping = guard[n].stepping
    BY <1>1, HoldsBake
  <2>2. CASE GoTo(n, "handed") /\ UNCHANGED baker
    <3>1. WorkOf(n) /\ work'[n].step = "build" /\ work'[n].pc = "handed"
      BY <1>1, <2>0, <2>2, WorkGoes, PcsAre DEF BuildPcs
    <3>2. BakerOf(n) /\ baker'[n] = baker[n]
      BY <1>1, <2>2 DEF BakerOf, BakeTyped
    <3> QED BY Zenon, <2>0, <2>1, <3>1, <3>2 DEF SameBaker, SameBake
  <2>3. CASE GoTo(n, "failing") /\ baker' = [baker EXCEPT ![n] = Abandon(@)]
    <3>1. WorkOf(n) /\ work'[n].step = "build" /\ work'[n].pc = "failing"
      BY <1>1, <2>0, <2>3, WorkGoes, PcsAre DEF BuildPcs
    <3> QED BY Zenon, <1>1, <2>0, <2>1, <2>3, <3>1, Abandoned
  <2> QED BY Zenon, <2>2, <2>3 DEF HoldBake
<1>3. UNCHANGED <<lower, state, place, bakeLock, excl, mounted, advert, drain, lease, pick, bake, orphan, at, excused>>
  BY DEF HoldBake, disk, locks, mediator, history
<1>4. n = Baked
  BY <1>1, <1>2 DEF OfBaked
<1>5. state.phase = "pending" /\ place = "upper" /\ InHand /\ baker[n].held /\ ~baker[n].done /\ ~baker[n].merging /\ bakeLock = n /\ baker[n].bg = "off"
  BY <1>1, <1>2, <1>4 DEF WorkTells, InHand, Pending, BakerTells
<1>6. \A m \in Nodes : m # n => ~baker[m].held /\ baker[m].bg \in {"off", "stale"}
  BY <1>1, <1>5 DEF BakerTells
<1>7. guard'[n].shared => excl = NoNode /\ state.phase # "merging"
  BY <1>1, <1>2 DEF SharedTells, LockMoved
<1>8. guard'[n].mark \in {guard[n].mark, lower.mark}
  BY <1>2 DEF LockMoved
<1>9. bake # "merge" /\ work[n].step # "r"
  BY <1>1, <1>2 DEF OfBaked
<1>10. BakeTyped'
  BY <1>1, <1>2, <1>3, <1>4, <1>5, <1>7 DEF BakeTyped, GuardOf, BakerOf, WorkOf
<1>11. OfBaked'
  BY <1>1, <1>2, <1>3, <1>4, <1>5, <1>7, <1>6, <1>8, <1>9 DEF OfBaked, GuardOf, BakerOf, WorkOf, BuildPcs
<1>12. BakerTells'
  <2>1. baker'[n].held /\ ~baker'[n].merging /\ baker'[n].bg = "off" /\ (baker'[n].done <=> baker'[n].abandon # "no")
    <3>1. baker[n].done <=> baker[n].abandon # "no"
      BY <1>1 DEF BakerTells
    <3> QED BY Zenon, <1>2, <1>5, <3>1 DEF SameBaker, SameBake
  <2> QED BY <1>1, <1>2, <1>3, <1>5, <1>6, <2>1 DEF BakerTells, GuardOf, BakerOf, SameBaker, SameBake, Result, Merging
<1>13. WorkTells'
  BY <1>1, <1>2, <1>3, <1>4, <1>5, <1>7, <1>6, <1>8, <1>9 DEF WorkTells, InHand, Pending, SameBaker, SameBake
<1>14. LowerTells'
  BY <1>1, <1>2, <1>3, <1>4, <1>5, <1>7 DEF LowerTells, Untouched
<1>15. Fate'
  BY <1>1, <1>2, <1>3, <1>4 DEF Fate
<1>16. SharedTells'
  BY <1>1, <1>2, <1>3, <1>4, <1>5, <1>7 DEF SharedTells, GuardOf, WorkOf
<1>17. MatchTells'
  BY <1>1, <1>2, <1>3, <1>8, MatchStays
<1> QED BY <1>10, <1>11, <1>12, <1>13, <1>14, <1>15, <1>16, <1>17 DEF BakeInv

\* A bake step reports: what it calls DONE, the lower has.
LEMMA BakeStepEndsKeeps ==
    ASSUME BakeInv, NEW n \in Nodes, BakeStepEnds(n)
    PROVE  BakeInv'
<1>1. /\ BakeTyped /\ OfBaked /\ BakerTells /\ WorkTells /\ LowerTells /\ Fate /\ SharedTells /\ MatchTells
      /\ Baked \in Nodes /\ NoNode \notin Nodes
  BY BakedIsANode, NoNodeIsNone DEF BakeInv
<1>2. /\ WorkOf(n) /\ work[n].pc \in {"failing", "empty", "handed", "merged", "silent"}
      /\ work'[n].step = "none" /\ work'[n].pc = "idle"
      /\ GuardOf(n) /\ guard'[n].shared = guard[n].shared /\ guard'[n].mark = guard[n].mark /\ guard'[n].bake = guard[n].bake
  <2>1. work' = [work EXCEPT ![n] = NoWork] /\ guard' = [guard EXCEPT ![n].stepping = FALSE]
          /\ work[n].pc \in {"failing", "empty", "handed", "merged", "silent"}
    BY DEF BakeStepEnds, Outcome
  <2> QED BY <1>1, <2>1, WorkEnds
<1>3. /\ UNCHANGED <<lower, state, place, bakeLock, excl, baker, mounted, advert, drain, pick, orphan, at, excused>>
      /\ baker[n].abandon = "no"
      /\ bake' = (IF lease[n] = "K" THEN (IF work[n].pc = "failing" THEN "failed"
                  ELSE IF work[n].pc = "silent" THEN bake
                  ELSE IF work[n].pc = "handed" THEN "merge"
                  ELSE IF work[n].step = "build" THEN "bare"
                  ELSE IF bake = "bare" THEN "nothing" ELSE "done") ELSE bake)
      /\ lease' = IF bake' \in {"done", "nothing", "failed"} THEN Free({"K"}) ELSE lease
  BY DEF BakeStepEnds, Outcome, Leased, disk, locks, history
<1>4. n = Baked /\ (work[n].step = "build" \/ work[n].step = "merge")
  BY <1>1, <1>2 DEF OfBaked, BakeTyped, WorkPlace
<1>5. /\ lease \in [Nodes -> {"none", "K", "R"}] /\ lease' \in [Nodes -> {"none", "K", "R"}]
      /\ \A m \in Nodes : lease'[m] = (IF bake' \in {"done", "nothing", "failed"} /\ lease[m] = "K" THEN "none" ELSE lease[m])
  BY <1>1, <1>3 DEF BakeTyped, Free
<1>6. /\ lease[n] = "K" <=> bake \in {"build", "merge", "bare"}
      /\ work[n].step = "build" => bake \in {"build", "failed"} /\ work[n].pc # "merged" /\ work[n].pc # "silent"
      /\ work[n].step = "merge" => bake \in {"merge", "bare", "failed"} /\ work[n].pc # "handed"
      /\ orphan[n] = "none"
  BY <1>1, <1>4 DEF OfBaked, BuildPcs, MergePcs
<1>7. \/ lease[n] # "K" /\ bake' = bake
      \/ lease[n] = "K" /\ bake' = "failed"
      \/ lease[n] = "K" /\ bake' = bake /\ work[n].pc = "silent" /\ bake \in {"merge", "bare"}
      \/ lease[n] = "K" /\ bake' = "merge" /\ work[n].pc = "handed" /\ work[n].step = "build"
      \/ lease[n] = "K" /\ bake' = "bare"
      \/ lease[n] = "K" /\ bake' = "nothing"
      \/ lease[n] = "K" /\ bake' = "done" /\ work[n].pc \in {"empty", "merged"} /\ work[n].step = "merge" /\ bake = "merge"
  BY <1>2, <1>3, <1>4, <1>6
<1>8. /\ bake' = "done" => lower.ver = 1 /\ lower.mark = 1
      /\ work[n].pc = "handed" /\ work[n].step = "build" /\ lease[n] = "K" => state.phase = "pending" /\ state.owner
  BY <1>1, <1>2, <1>4, <1>7 DEF Fate, WorkTells, LowerTells, Pending
<1>9. bake' # "build" /\ bake' \in {"build", "merge", "bare", "done", "nothing", "failed"}
  BY <1>1, <1>6, <1>7 DEF BakeTyped
<1>10. BakeTyped'
  BY <1>1, <1>2, <1>3, <1>4, <1>5, <1>6 DEF BakeTyped, GuardOf, WorkOf
<1>11. OfBaked'
  BY <1>1, <1>2, <1>3, <1>4, <1>5, <1>6, <1>7, <1>8, <1>9 DEF OfBaked, GuardOf, WorkOf
<1>12. BakerTells'
  BY <1>1, <1>2, <1>3, <1>4, <1>5, <1>6, <1>7, <1>8, <1>9 DEF BakerTells, GuardOf, Result
<1>13. WorkTells'
  BY <1>1, <1>2, <1>3, <1>4, <1>5, <1>6, <1>7, <1>8, <1>9 DEF WorkTells, InHand, Pending
<1>14. LowerTells'
  BY <1>1, <1>2, <1>3, <1>4, <1>5, <1>6 DEF LowerTells, Untouched, Result
<1>15. Fate'
  BY <1>1, <1>2, <1>3, <1>4, <1>6, <1>8 DEF Fate
<1>16. SharedTells'
  BY <1>1, <1>2, <1>3, <1>4, <1>5 DEF SharedTells, GuardOf, WorkOf
<1>17. MatchTells'
  BY <1>1, <1>2, <1>3, <1>5, MatchStays
<1> QED BY <1>10, <1>11, <1>12, <1>13, <1>14, <1>15, <1>16, <1>17 DEF BakeInv

\* The bake is let go: what is known of the locks, the guard and the Baker after it.
Gone(n) ==
    /\ bakeLock' = NoNode
    /\ excused' = (IF lower.mark # guard[n].mark /\ lease[n] = "R" THEN excused \cup {n} ELSE excused)
    /\ GuardOf(n) /\ ~guard'[n].bake /\ guard'[n].shared = guard[n].shared /\ guard'[n].stepping = guard[n].stepping
    /\ guard'[n].mark = (IF guard[n].shared THEN guard[n].mark ELSE lower.mark)
    /\ BakerOf(n) /\ ~baker'[n].held /\ ~baker'[n].done /\ ~baker'[n].merging /\ baker'[n].abandon = "no"
    /\ baker'[n].bg = baker[n].bg

\* A bake that is let go is gone.
LEMMA LetGoIsGone == ASSUME BakeTyped, NEW n \in Nodes, LetGo(n) PROVE Gone(n)
<1>1. bakeLock' = NoNode /\ excused' = (IF lower.mark # guard[n].mark /\ lease[n] = "R" THEN excused \cup {n} ELSE excused)
  BY DEF LetGo, Leased
<1> QED BY Zenon, <1>1, LetsGo DEF Gone

\* An upper that is handed on or merged is of the one bake that is held.
LEMMA HeldAlone ==
    ASSUME BakeInv, NEW n \in Nodes, baker[n].held
    PROVE  /\ n = Baked /\ bakeLock = n /\ baker[n].bg = "off"
           /\ \A m \in Nodes : m # n => ~baker[m].held /\ ~guard[m].bake /\ ~baker[m].merging /\ baker[m].bg \in {"off", "stale"}
           /\ ~baker[n].merging => state.phase # "merging"
<1>1. n = Baked
  BY DEF BakeInv, OfBaked
<1>2. BakerTells /\ \A m \in Nodes : m # Baked => ~baker[m].held
  BY DEF BakeInv, OfBaked
<1>3. bakeLock = n /\ baker[n].bg = "off" /\ (~baker[n].merging => state.phase # "merging")
  BY <1>2 DEF BakerTells
<1>4. \A m \in Nodes : m # n => ~baker[m].held /\ ~guard[m].bake /\ ~baker[m].merging /\ baker[m].bg \in {"off", "stale"}
  BY <1>1, <1>2 DEF BakerTells
<1> QED BY <1>1, <1>3, <1>4

\* A merge step gives up before it began.
LEMMA GaveUpKeeps ==
    ASSUME BakeInv, NEW n \in Nodes, GaveUp(n)
    PROVE  BakeInv'
<1>1. /\ BakeTyped /\ OfBaked /\ BakerTells /\ WorkTells /\ LowerTells /\ Fate /\ SharedTells /\ MatchTells
      /\ Baked \in Nodes /\ NoNode \notin Nodes
  BY BakedIsANode, NoNodeIsNone DEF BakeInv
<1>2. /\ WorkOf(n) /\ work[n].step = "merge" /\ work'[n].step = "merge" /\ work'[n].pc = "failing"
      /\ \/ work[n].pc = "waiting" /\ UNCHANGED excl
         \/ work[n].pc = "exclusive" /\ excl' = NoNode
      /\ BakerOf(n) /\ baker'[n].held = baker[n].held /\ baker'[n].merging = baker[n].merging /\ baker'[n].bg = baker[n].bg
      /\ \/ SameBaker(baker'[n], baker[n])
         \/ baker[n].held /\ ~baker[n].done /\ ~baker[n].merging /\ baker'[n].done /\ baker'[n].abandon = "write"
  <2>1. work[n].step = "merge" /\ ((work[n].pc = "waiting" /\ UNCHANGED excl) \/ (work[n].pc = "exclusive" /\ excl' = NoNode))
    BY DEF GaveUp, At
  <2>2. WorkOf(n) /\ work'[n].step = "merge" /\ work'[n].pc = "failing"
    BY <1>1, <2>1, WorkGoes, PcsAre DEF GaveUp, MergePcs
  <2>3. baker' = [baker EXCEPT ![n] = Abandon(@)]
    BY DEF GaveUp
  <2> QED BY Zenon, <1>1, <2>1, <2>2, <2>3, Abandoned
<1>3. UNCHANGED <<lower, state, place, bakeLock, guard, mounted, advert, drain, lease, pick, bake, orphan, at, excused>>
  BY DEF GaveUp, disk, mediator, history
<1>4. n = Baked
  BY <1>1, <1>2 DEF OfBaked
<1>5. /\ state.phase # "merging" /\ baker[n].bg \in {"off", "stale"} /\ (work[n].pc = "exclusive" => excl = n)
      /\ baker[n].bg \notin {"exclusive", "done"} \cup Merging
  BY <1>1, <1>2, <1>4 DEF WorkTells, Merging
<1>6. \/ baker'[n].done = baker[n].done /\ baker'[n].abandon = baker[n].abandon
      \/ baker'[n].held /\ ~baker'[n].merging /\ baker'[n].done /\ baker'[n].abandon = "write"
  BY <1>2 DEF SameBaker, SameBake
<1>7. work[n].pc = "exclusive" => \A m \in Nodes : baker[m].bg \notin {"exclusive", "done"} \cup Merging
  BY <1>1, <1>5 DEF BakerTells
<1>8. bake = "merge" => bake \in {"build", "merge", "bare"}
  OBVIOUS
<1>9. BakeTyped'
  BY <1>1, <1>2, <1>3, <1>4 DEF BakeTyped, BakerOf, WorkOf
<1>10. OfBaked'
  BY <1>1, <1>2, <1>3, <1>4, <1>5, <1>6, <1>7 DEF OfBaked, GuardOf, BakerOf, WorkOf, MergePcs
<1>11. BakerTells'
  BY <1>1, <1>2, <1>3, <1>4, <1>5, <1>6, <1>7 DEF BakerTells, BakerOf, Result
<1>12. WorkTells'
  BY <1>1, <1>2, <1>3, <1>4, <1>5, <1>6, <1>7 DEF WorkTells, InHand, Pending, Merging
<1>13. LowerTells'
  BY <1>1, <1>2, <1>3, <1>4, <1>5 DEF LowerTells, Untouched
<1>14. Fate'
  BY <1>1, <1>2, <1>3, <1>4 DEF Fate
<1>15. SharedTells'
  BY <1>1, <1>2, <1>3 DEF SharedTells, WorkOf
<1>16. MatchTells'
  BY <1>1, <1>2, <1>3 DEF MatchTells
<1> QED BY <1>9, <1>10, <1>11, <1>12, <1>13, <1>14, <1>15, <1>16 DEF BakeInv

\* Merging is begun, unless the bake was cleaned up while the step waited.
LEMMA StartMergingKeeps ==
    ASSUME BakeInv, NEW n \in Nodes, StartMerging(n)
    PROVE  BakeInv'
<1>1. /\ BakeTyped /\ OfBaked /\ BakerTells /\ WorkTells /\ LowerTells /\ Fate /\ SharedTells /\ MatchTells
      /\ Baked \in Nodes /\ NoNode \notin Nodes
  BY BakedIsANode, NoNodeIsNone DEF BakeInv
<1>2. /\ WorkOf(n) /\ work[n].step = "merge" /\ work[n].pc = "exclusive" /\ work'[n].step = "merge" /\ BakerOf(n)
      /\ \/ /\ baker[n].held /\ ~baker[n].done /\ work'[n].pc = "begun" /\ UNCHANGED excl
            /\ baker'[n].merging /\ baker'[n].held = baker[n].held /\ baker'[n].done = baker[n].done
            /\ baker'[n].abandon = baker[n].abandon /\ baker'[n].bg = baker[n].bg
         \/ work'[n].pc = "silent" /\ excl' = NoNode /\ baker'[n] = baker[n]
  <2>0. work[n].step = "merge" /\ work[n].pc = "exclusive"
    BY DEF StartMerging, At
  <2>1. CASE baker[n].held /\ ~baker[n].done
    <3>1. GoTo(n, "begun") /\ baker' = [baker EXCEPT ![n].merging = TRUE] /\ UNCHANGED excl
      BY <2>1 DEF StartMerging
    <3>2. WorkOf(n) /\ work'[n].step = "merge" /\ work'[n].pc = "begun"
      BY <1>1, <2>0, <3>1, WorkGoes, PcsAre DEF MergePcs
    <3>3. BakerOf(n) /\ baker'[n].merging = TRUE /\ baker'[n].held = baker[n].held /\ baker'[n].done = baker[n].done
          /\ baker'[n].abandon = baker[n].abandon /\ baker'[n].bg = baker[n].bg
      BY <1>1, <3>1, Fields
    <3> QED BY Zenon, <2>0, <2>1, <3>1, <3>2, <3>3
  <2>2. CASE ~(baker[n].held /\ ~baker[n].done)
    <3>1. GoTo(n, "silent") /\ UNCHANGED baker /\ excl' = NoNode
      BY <2>2 DEF StartMerging
    <3>2. WorkOf(n) /\ work'[n].step = "merge" /\ work'[n].pc = "silent"
      BY <1>1, <2>0, <3>1, WorkGoes, PcsAre DEF MergePcs
    <3>3. BakerOf(n) /\ baker'[n] = baker[n]
      BY <1>1, <3>1 DEF BakerOf, BakeTyped
    <3> QED BY Zenon, <2>0, <3>1, <3>2, <3>3
  <2> QED BY <2>1, <2>2
<1>3. UNCHANGED <<lower, state, place, bakeLock, guard, mounted, advert, drain, lease, pick, bake, orphan, at, excused>>
  BY DEF StartMerging, disk, mediator, history
<1>4. n = Baked
  BY <1>1, <1>2 DEF OfBaked
<1>5. /\ excl = n /\ state.phase # "merging" /\ baker[n].bg \in {"off", "stale"}
      /\ baker[n].held /\ ~baker[n].done => state.phase = "pending" /\ place = "upper"
  BY <1>1, <1>2, <1>4 DEF WorkTells, InHand, Pending
<1>6. \A m \in Nodes : baker[m].bg \notin {"exclusive", "done"} \cup Merging
  BY <1>1, <1>5 DEF BakerTells
<1>7. baker[n].done <=> baker[n].abandon # "no"
  BY <1>1 DEF BakerTells
<1>8. BakeTyped'
  BY <1>1, <1>2, <1>3, <1>4 DEF BakeTyped, BakerOf, WorkOf
<1>9. OfBaked'
  BY <1>1, <1>2, <1>3, <1>4, <1>5, <1>6, <1>7 DEF OfBaked, GuardOf, BakerOf, WorkOf, MergePcs
<1>10. BakerTells'
  BY <1>1, <1>2, <1>3, <1>4, <1>5, <1>6, <1>7 DEF BakerTells, BakerOf, Result
<1>11. WorkTells'
  BY <1>1, <1>2, <1>3, <1>4, <1>5, <1>6, <1>7 DEF WorkTells, InHand, Pending, Merging
<1>12. LowerTells'
  BY <1>1, <1>2, <1>3, <1>4, <1>5 DEF LowerTells, Untouched
<1>13. Fate'
  BY <1>1, <1>2, <1>3, <1>4 DEF Fate
<1>14. SharedTells'
  BY <1>1, <1>2, <1>3 DEF SharedTells, WorkOf
<1>15. MatchTells'
  BY <1>1, <1>2, <1>3 DEF MatchTells
<1> QED BY <1>8, <1>9, <1>10, <1>11, <1>12, <1>13, <1>14, <1>15 DEF BakeInv

\* A fault stops the merge: the state goes on to say merging.
LEMMA StoppedKeeps ==
    ASSUME BakeInv, NEW n \in Nodes, Stopped(n)
    PROVE  BakeInv'
<1>1. /\ BakeTyped /\ OfBaked /\ BakerTells /\ WorkTells /\ LowerTells /\ Fate /\ SharedTells /\ MatchTells
      /\ Baked \in Nodes /\ NoNode \notin Nodes
  BY BakedIsANode, NoNodeIsNone DEF BakeInv
<1>2. /\ WorkOf(n) /\ work[n].step = "merge" /\ work[n].pc \in {"applying", "applied", "marked"} /\ work'[n].step = "merge"
      /\ \/ work[n].pc = "marked" /\ work'[n].pc = "unsaid" /\ UNCHANGED <<bakeLock, excl, guard, baker, excused>>
         \/ work'[n].pc = "failing" /\ excl' = NoNode /\ Gone(n)
  <2>0. work[n].step = "merge" /\ work[n].pc \in {"applying", "applied", "marked"}
    BY DEF Stopped, Merging
  <2>1. CASE work[n].pc = "marked" /\ GoTo(n, "unsaid") /\ UNCHANGED <<bakeLock, excl, guard, baker, excused>>
    <3>1. WorkOf(n) /\ work'[n].step = "merge" /\ work'[n].pc = "unsaid"
      BY <1>1, <2>0, <2>1, WorkGoes, PcsAre DEF MergePcs
    <3> QED BY Zenon, <2>0, <2>1, <3>1
  <2>2. CASE GoTo(n, "failing") /\ excl' = NoNode /\ LetGo(n)
    <3>1. WorkOf(n) /\ work'[n].step = "merge" /\ work'[n].pc = "failing"
      BY <1>1, <2>0, <2>2, WorkGoes, PcsAre DEF MergePcs
    <3> QED BY Zenon, <1>1, <2>0, <2>2, <3>1, LetGoIsGone
  <2> QED BY <2>1, <2>2 DEF Stopped, locks
<1>3. UNCHANGED <<lower, state, place, mounted, advert, drain, lease, pick, bake, orphan, at>>
  BY DEF Stopped, disk, mediator
<1>4. n = Baked
  BY <1>1, <1>2 DEF OfBaked
<1>5. /\ excl = n /\ baker[n].held /\ ~baker[n].done /\ baker[n].merging /\ state.phase = "merging" /\ state.owner
      /\ (work[n].pc \in {"applied", "marked"} => place = "applied") /\ (work[n].pc = "marked" => lower.mark = 1)
  BY <1>1, <1>2, <1>4 DEF WorkTells, InHand, Merging
<1>6. bakeLock = n /\ baker[n].bg = "off"
      /\ \A m \in Nodes : m # n => ~baker[m].held /\ ~guard[m].bake /\ ~baker[m].merging /\ baker[m].bg \in {"off", "stale"}
  BY <1>5, HeldAlone
<1>7. Gone(n) => guard'[n].mark \in {guard[n].mark, lower.mark} /\ excused \subseteq excused'
                 /\ (lease[n] = "R" /\ n \notin excused' => guard'[n].mark = guard[n].mark /\ guard'[n].shared = guard[n].shared)
  BY DEF Gone
<1>8. BakeTyped'
  BY <1>1, <1>2, <1>3, <1>4 DEF BakeTyped, GuardOf, BakerOf, WorkOf, Gone
<1>9. OfBaked'
  BY <1>1, <1>2, <1>3, <1>4, <1>5, <1>6 DEF OfBaked, GuardOf, BakerOf, WorkOf, MergePcs, Gone
<1>10. BakerTells'
  BY <1>1, <1>2, <1>3, <1>4, <1>5, <1>6 DEF BakerTells, GuardOf, BakerOf, Merging, Gone
<1>11. WorkTells'
  BY <1>1, <1>2, <1>3, <1>4, <1>5, <1>6 DEF WorkTells, InHand, Pending, WorkOf, Merging
<1>12. LowerTells'
  BY <1>1, <1>2, <1>3, <1>4, <1>5 DEF LowerTells, Result
<1>13. Fate'
  BY <1>1, <1>2, <1>3, <1>4 DEF Fate
<1>14. SharedTells'
  BY <1>1, <1>2, <1>3 DEF SharedTells, GuardOf, WorkOf, Gone
<1>15. MatchTells'
  <2>1. CASE Gone(n)
    BY <1>1, <1>3, <2>1, MatchStays DEF Gone
  <2>2. CASE UNCHANGED <<guard, excused>>
    BY <1>1, <1>3, <2>2 DEF MatchTells
  <2> QED BY <1>2, <2>1, <2>2
<1> QED BY <1>8, <1>9, <1>10, <1>11, <1>12, <1>13, <1>14, <1>15 DEF BakeInv

\* The merge is over, the locks go.
LEMMA MergedKeeps ==
    ASSUME BakeInv, NEW n \in Nodes, Merged(n)
    PROVE  BakeInv'
<1>1. /\ BakeTyped /\ OfBaked /\ BakerTells /\ WorkTells /\ LowerTells /\ Fate /\ SharedTells /\ MatchTells
      /\ Baked \in Nodes /\ NoNode \notin Nodes
  BY BakedIsANode, NoNodeIsNone DEF BakeInv
<1>2. /\ WorkOf(n) /\ work[n].step = "merge" /\ work[n].pc \in {"done", "unsaid"} /\ work'[n].step = "merge"
      /\ work'[n].pc = "merged" /\ Gone(n)
  <2>0. work[n].step = "merge" /\ work[n].pc \in {"done", "unsaid"} /\ GoTo(n, "merged") /\ LetGo(n)
    BY DEF Merged
  <2>1. WorkOf(n) /\ work'[n].step = "merge" /\ work'[n].pc = "merged"
    BY <1>1, <2>0, WorkGoes, PcsAre DEF MergePcs
  <2> QED BY Zenon, <1>1, <2>0, <2>1, LetGoIsGone
<1>3. /\ UNCHANGED <<lower, state, mounted, advert, drain, lease, pick, bake, orphan, at>>
      /\ excl' = NoNode /\ place' = (IF work[n].pc = "done" THEN "trash" ELSE place)
  BY DEF Merged, mediator
<1>4. n = Baked
  BY <1>1, <1>2 DEF OfBaked
<1>5. /\ excl = n /\ baker[n].held /\ ~baker[n].done /\ baker[n].merging
      /\ work[n].pc = "done" => state.phase = "committed" /\ lower.ver = 1 /\ lower.mark = 1
      /\ work[n].pc = "unsaid" => state.phase = "merging" /\ state.owner /\ place = "applied" /\ lower.mark = 1
  BY <1>1, <1>2, <1>4 DEF WorkTells, InHand
<1>6. bakeLock = n /\ baker[n].bg = "off"
      /\ \A m \in Nodes : m # n => ~baker[m].held /\ ~guard[m].bake /\ ~baker[m].merging /\ baker[m].bg \in {"off", "stale"}
  BY <1>5, HeldAlone
<1>7. lower.ver = 1 /\ lower.mark = 1
  BY <1>1, <1>2, <1>5 DEF LowerTells, Result
<1>8. Gone(n) => guard'[n].mark \in {guard[n].mark, lower.mark} /\ excused \subseteq excused'
                 /\ (lease[n] = "R" /\ n \notin excused' => guard'[n].mark = guard[n].mark /\ guard'[n].shared = guard[n].shared)
  BY DEF Gone
<1>9. BakeTyped'
  BY <1>1, <1>2, <1>3, <1>4, <1>5 DEF BakeTyped, GuardOf, BakerOf, WorkOf, Gone
<1>10. OfBaked'
  BY <1>1, <1>2, <1>3, <1>4, <1>5, <1>6, <1>7 DEF OfBaked, GuardOf, BakerOf, WorkOf, MergePcs, Gone
<1>11. BakerTells'
  BY <1>1, <1>2, <1>3, <1>4, <1>5, <1>6, <1>7 DEF BakerTells, GuardOf, BakerOf, Merging, Gone
<1>12. WorkTells'
  BY <1>1, <1>2, <1>3, <1>4, <1>5, <1>6, <1>7 DEF WorkTells, InHand, Pending, WorkOf, Merging, Gone
<1>13. LowerTells'
  BY <1>1, <1>2, <1>3, <1>4, <1>5 DEF LowerTells, Untouched, Result
<1>14. Fate'
  BY <1>1, <1>2, <1>3, <1>4 DEF Fate
<1>15. SharedTells'
  BY <1>1, <1>2, <1>3, <1>4 DEF SharedTells, GuardOf, WorkOf, Gone
<1>16. MatchTells'
  BY <1>1, <1>2, <1>3, MatchStays DEF Gone
<1> QED BY <1>9, <1>10, <1>11, <1>12, <1>13, <1>14, <1>15, <1>16 DEF BakeInv

\* The merge step begins only with the bake of its own Run in hand.
LEMMA MergeClaimKeeps ==
    ASSUME BakeInv, NEW n \in Nodes, MergeClaim(n)
    PROVE  BakeInv'
<1>1. /\ BakeTyped /\ OfBaked /\ BakerTells /\ WorkTells /\ LowerTells /\ Fate /\ SharedTells /\ MatchTells
      /\ Baked \in Nodes /\ NoNode \notin Nodes
  BY BakedIsANode, NoNodeIsNone DEF BakeInv
<1>2. /\ WorkOf(n) /\ work[n].step = "merge" /\ work[n].pc = "guarded" /\ work'[n].step = "merge"
      /\ \/ /\ baker[n].held /\ state.owner /\ state.phase = "pending" /\ work'[n].pc = "waiting"
            /\ UNCHANGED <<guard, baker, bakeLock, excused>>
         \/ baker[n].held /\ ~(state.owner /\ state.phase = "pending") /\ work'[n].pc = "failing" /\ Gone(n)
         \/ ~baker[n].held /\ work'[n].pc = "failing" /\ UNCHANGED <<guard, baker, bakeLock, excused>>
         \/ /\ ~(state.owner /\ state.phase \in {"pending", "merging"}) /\ ~state.last /\ work'[n].pc = "empty"
            /\ UNCHANGED <<guard, baker, bakeLock, excused>>
  <2>0. work[n].step = "merge" /\ work[n].pc = "guarded"
    BY DEF MergeClaim, At
  <2>1. ASSUME NEW pc \in {"waiting", "failing", "empty"}, GoTo(n, pc)
        PROVE  WorkOf(n) /\ work'[n].step = "merge" /\ work'[n].pc = pc
    BY <1>1, <2>0, <2>1, WorkGoes, PcsAre DEF MergePcs
  <2>2. \/ /\ baker[n].held /\ state.owner /\ state.phase = "pending" /\ GoTo(n, "waiting")
           /\ UNCHANGED <<guard, baker, bakeLock, excused>>
        \/ baker[n].held /\ ~(state.owner /\ state.phase = "pending") /\ GoTo(n, "failing") /\ LetGo(n)
        \/ ~baker[n].held /\ GoTo(n, "failing") /\ UNCHANGED <<guard, baker, bakeLock, excused>>
        \/ /\ ~(state.owner /\ state.phase \in {"pending", "merging"}) /\ ~state.last /\ GoTo(n, "empty")
           /\ UNCHANGED <<guard, baker, bakeLock, excused>>
    BY Zenon DEF MergeClaim
  <2> QED BY Zenon, <1>1, <2>0, <2>1, <2>2, LetGoIsGone
<1>3. UNCHANGED <<lower, state, place, excl, mounted, advert, drain, lease, pick, bake, orphan, at>>
  BY DEF MergeClaim, disk, mediator
<1>4. n = Baked
  BY <1>1, <1>2 DEF OfBaked
<1>5. /\ orphan[n] = "none"
      /\ bake = "merge" /\ work'[n].pc = "empty" => lower.ver = 1 /\ lower.mark = 1
  BY <1>1, <1>2 DEF OfBaked, Fate, LowerTells
<1>6. baker[n].held => bakeLock = n /\ baker[n].bg = "off"
      /\ \A m \in Nodes : m # n => ~baker[m].held /\ ~guard[m].bake /\ ~baker[m].merging /\ baker[m].bg \in {"off", "stale"}
  BY HeldAlone
<1>7. lease[n] = "K" => ~baker[n].done
  BY <1>1, <1>2, <1>4 DEF WorkTells, BakerTells
<1>8. baker[n].held /\ ~baker[n].merging => state.phase # "merging"
  BY <1>1 DEF BakerTells
<1>9. Gone(n) => guard'[n].mark \in {guard[n].mark, lower.mark} /\ excused \subseteq excused'
                 /\ (lease[n] = "R" /\ n \notin excused' => guard'[n].mark = guard[n].mark /\ guard'[n].shared = guard[n].shared)
  BY DEF Gone
<1>10. BakeTyped'
  BY <1>1, <1>2, <1>3, <1>4, <1>5, <1>6 DEF BakeTyped, GuardOf, BakerOf, WorkOf, Gone
<1>11. OfBaked'
  BY <1>1, <1>2, <1>3, <1>4, <1>5, <1>6, <1>7, <1>8 DEF OfBaked, GuardOf, BakerOf, WorkOf, MergePcs, Gone
<1>12. BakerTells'
  BY <1>1, <1>2, <1>3, <1>4, <1>5, <1>6, <1>7, <1>8 DEF BakerTells, GuardOf, BakerOf, Result, Gone
<1>13. WorkTells'
  BY <1>1, <1>2, <1>3, <1>4, <1>5, <1>6, <1>7, <1>8 DEF WorkTells, InHand, Pending, WorkOf, Merging, Gone
<1>14. LowerTells'
  BY <1>1, <1>2, <1>3, <1>4, <1>5, <1>6 DEF LowerTells, Untouched, Result
<1>15. Fate'
  BY <1>1, <1>2, <1>3, <1>4 DEF Fate
<1>16. SharedTells'
  BY <1>1, <1>2, <1>3, <1>4, <1>5 DEF SharedTells, GuardOf, WorkOf, Gone
<1>17. MatchTells'
  <2>1. CASE Gone(n)
    BY <1>1, <1>3, <2>1, MatchStays DEF Gone
  <2>2. CASE UNCHANGED <<guard, excused>>
    BY <1>1, <1>3, <2>2 DEF MatchTells
  <2> QED BY <1>2, <2>1, <2>2
<1> QED BY <1>10, <1>11, <1>12, <1>13, <1>14, <1>15, <1>16, <1>17 DEF BakeInv

\* The state says merging before the lower is touched.
LEMMA WriteMergingKeeps ==
    ASSUME BakeInv, NEW n \in Nodes, WriteMerging(n)
    PROVE  BakeInv'
<1>1. /\ BakeTyped /\ OfBaked /\ BakerTells /\ WorkTells /\ LowerTells /\ Fate /\ SharedTells /\ MatchTells
      /\ Baked \in Nodes /\ NoNode \notin Nodes
  BY BakedIsANode, NoNodeIsNone DEF BakeInv
<1>2. /\ WorkOf(n) /\ work[n].step = "merge" /\ work[n].pc = "begun" /\ work'[n].step = "merge"
      /\ BakerOf(n) /\ baker'[n].held = baker[n].held /\ baker'[n].bg = baker[n].bg
      /\ \/ work'[n].pc = "merging" /\ state' = [state EXCEPT !.phase = "merging"] /\ UNCHANGED <<excl, baker>>
         \/ /\ work'[n].pc = "failing" /\ excl' = NoNode /\ UNCHANGED state /\ ~baker'[n].merging
            /\ \/ baker'[n].done = baker[n].done /\ baker'[n].abandon = baker[n].abandon
               \/ baker[n].held /\ ~baker[n].done /\ baker'[n].done /\ baker'[n].abandon = "write"
  BY <1>1, WritesMerging
<1>3. UNCHANGED <<lower, place, bakeLock, guard, mounted, advert, drain, lease, pick, bake, orphan, at, excused>>
  BY DEF WriteMerging, mediator, history
<1>4. n = Baked
  BY <1>1, <1>2 DEF OfBaked
<1>5. /\ excl = n /\ baker[n].held /\ ~baker[n].done /\ baker[n].merging /\ baker[n].abandon = "no"
      /\ state.phase = "pending" /\ place = "upper"
  BY <1>1, <1>2, <1>4 DEF WorkTells, Pending, BakerTells
<1>6. bakeLock = n /\ baker[n].bg = "off"
      /\ \A m \in Nodes : m # n => ~baker[m].held /\ ~guard[m].bake /\ ~baker[m].merging /\ baker[m].bg \in {"off", "stale"}
  BY <1>5, HeldAlone
<1>7. /\ state' \in [phase : Phases, owner : BOOLEAN, last : BOOLEAN] /\ state'.owner = state.owner
      /\ \/ work'[n].pc = "merging" /\ state'.phase = "merging"
         \/ work'[n].pc = "failing" /\ state'.phase = "pending"
  BY <1>1, <1>2, <1>5 DEF BakeTyped, Phases
<1>8. state.owner /\ state'.owner /\ Untouched
  BY <1>1, <1>5, <1>7 DEF LowerTells
<1>9. \A m \in Nodes : ~guard[m].shared
  BY <1>1, <1>5 DEF SharedTells
<1>10. baker'[n].held /\ (baker'[n].done <=> baker'[n].abandon # "no") /\ (work'[n].pc = "merging" => baker' = baker)
      /\ (work'[n].pc = "failing" => ~baker'[n].merging /\ excl' = NoNode) /\ (work'[n].pc = "merging" => excl' = excl)
  BY <1>2, <1>5
<1>11. bake # "build"
  BY <1>1, <1>2 DEF OfBaked
<1>12. BakeTyped'
  BY <1>1, <1>2, <1>3, <1>4, <1>5, <1>6, <1>7, <1>8 DEF BakeTyped, BakerOf, WorkOf
<1>13. OfBaked'
  BY <1>1, <1>2, <1>3, <1>4, <1>5, <1>6, <1>7, <1>8, <1>9, <1>10, <1>11 DEF OfBaked, GuardOf, BakerOf, WorkOf, MergePcs
<1>14. BakerTells'
  BY <1>1, <1>2, <1>3, <1>4, <1>5, <1>6, <1>7, <1>8, <1>9, <1>10, <1>11 DEF BakerTells, BakerOf
<1>15. WorkTells'
  BY <1>1, <1>2, <1>3, <1>4, <1>5, <1>6, <1>7, <1>8, <1>9, <1>10, <1>11 DEF WorkTells, InHand, Pending, Merging
<1>16. LowerTells'
  BY <1>1, <1>2, <1>3, <1>4, <1>5, <1>6, <1>7, <1>8, <1>11 DEF LowerTells, Untouched, Result
<1>17. Fate'
  BY <1>1, <1>2, <1>3, <1>4, <1>5, <1>6, <1>7 DEF Fate
<1>18. SharedTells'
  BY <1>1, <1>2, <1>3, <1>4, <1>5, <1>6, <1>7 DEF SharedTells, WorkOf
<1>19. MatchTells'
  BY <1>1, <1>2, <1>3, <1>4, <1>5, <1>6 DEF MatchTells
<1> QED BY <1>12, <1>13, <1>14, <1>15, <1>16, <1>17, <1>18, <1>19 DEF BakeInv

\* A node dies and starts again: the one that finds bake.lock free takes the merge up or cleans the bake.
LEMMA CrashKeeps ==
    ASSUME BakeInv, NEW n \in Nodes, Crash(n)
    PROVE  BakeInv'
<1>1. /\ BakeTyped /\ OfBaked /\ BakerTells /\ WorkTells /\ LowerTells /\ Fate /\ SharedTells /\ MatchTells
      /\ Baked \in Nodes /\ NoNode \notin Nodes
  BY BakedIsANode, NoNodeIsNone DEF BakeInv
<1>2. /\ GuardOf(n) /\ ~guard'[n].shared /\ ~guard'[n].bake /\ guard'[n].mark = lower.mark
      /\ WorkOf(n) /\ work'[n].step = "none" /\ work'[n].pc = "idle"
      /\ BakerOf(n) /\ ~baker'[n].held /\ ~baker'[n].done /\ ~baker'[n].merging /\ baker'[n].abandon = "no"
      /\ IF bakeLock \in {n, NoNode} /\ state.phase = "merging" THEN bakeLock' = n /\ baker'[n].bg = "wait"
         ELSE bakeLock' = (IF bakeLock \in {n, NoNode} THEN NoNode ELSE bakeLock) /\ baker'[n].bg = "off"
  BY <1>1, CrashDoes
<1>3. /\ UNCHANGED <<lower, drain, lease, pick, bake, at>>
      /\ mounted' = [mounted EXCEPT ![n] = None] /\ advert' = [advert EXCEPT ![n] = NoAnswer]
      /\ excl' = (IF excl = n THEN NoNode ELSE excl)
      /\ IF bakeLock \in {n, NoNode} /\ state.phase # "merging"
         THEN state' = Cleaned /\ place' = (IF state.phase = "committed" THEN place ELSE "trash") ELSE UNCHANGED <<state, place>>
      /\ excused' = (IF lease[n] = "R" THEN excused \cup {n} ELSE excused)
      /\ orphan' = (IF work[n] = NoWork THEN orphan
                    ELSE [orphan EXCEPT ![n] = IF lease[n] = (IF work[n].step = "r" THEN "R" ELSE "K") THEN lease[n] ELSE @])
  BY DEF Crash, Clean, Leased
<1>4. bakeLock \in {n, NoNode} => \A m \in Nodes : m # n => ~baker[m].held /\ baker[m].bg \in {"off", "stale"} /\ ~guard[m].bake
  BY <1>1 DEF BakerTells
<1>5. /\ Cleaned \in [phase : Phases, owner : BOOLEAN, last : BOOLEAN] /\ Cleaned.phase = "committed"
      /\ state.phase = "pending" /\ state.owner => Cleaned.last
      /\ state.phase = "committed" => Cleaned = state
  BY <1>1, CleanedIs
<1>6. /\ \A m \in Nodes : mounted'[m] = (IF m = n THEN None ELSE mounted[m])
      /\ mounted' \in [Nodes -> {None} \cup -1..1]
  BY <1>1, <1>3 DEF BakeTyped
<1>7. /\ advert' \in [Nodes -> Answer] /\ ~advert'[n].on /\ \A m \in Nodes : m # n => advert'[m] = advert[m]
  <2>1. NoAnswer \in Answer /\ ~NoAnswer.on
    BY DEF NoAnswer, Answer
  <2>2. advert \in [Nodes -> Answer] /\ advert' = [advert EXCEPT ![n] = NoAnswer]
    BY <1>1, <1>3 DEF BakeTyped
  <2> QED BY <2>1, <2>2
<1>8. /\ orphan' \in [Nodes -> {"none", "K", "R"}] /\ \A m \in Nodes : m # n => orphan'[m] = orphan[m]
      /\ orphan'[n] \in {orphan[n], lease[n]}
      /\ orphan'[n] = orphan[n] \/ (work[n].step # "r" /\ orphan'[n] = "K") \/ (work[n].step = "r" /\ orphan'[n] = "R")
      /\ (work[n].step \in {"build", "merge"} /\ lease[n] = "K" => orphan'[n] = "K")
  <2>1. work[n].step \in {"build", "merge"} => work[n] # NoWork
    BY DEF NoWork
  <2>2. orphan \in [Nodes -> {"none", "K", "R"}] /\ lease \in [Nodes -> {"none", "K", "R"}]
    BY <1>1 DEF BakeTyped
  <2>3. CASE work[n] = NoWork
    BY <1>3, <2>1, <2>2
  <2>4. CASE work[n] # NoWork
    BY <1>3, <2>2, <2>4
  <2> QED BY <2>3, <2>4
<1>9. (lease[n] = "R" => n \in excused') /\ excused \subseteq excused'
  BY <1>3
<1>10. BakeTyped'
  BY <1>1, <1>2, <1>3, <1>4, <1>5, <1>6, <1>7 DEF BakeTyped, GuardOf, BakerOf, WorkOf
<1>11. OfBaked'
  BY <1>1, <1>2, <1>3, <1>4, <1>5, <1>6, <1>7, <1>8, <1>9 DEF OfBaked, GuardOf, BakerOf, WorkOf
<1>12. BakerTells'
  BY <1>1, <1>2, <1>3, <1>4, <1>5, <1>6, <1>7, <1>8, <1>9 DEF BakerTells, GuardOf, BakerOf, Result, Merging
<1>13. WorkTells'
  BY <1>1, <1>2, <1>3, <1>4, <1>5, <1>6, <1>7, <1>8, <1>9 DEF WorkTells, InHand, Pending, WorkOf, BakerOf, GuardOf, Merging
<1>14. LowerTells'
  <2>1. CASE UNCHANGED <<state, place>>
    BY <1>1, <1>2, <1>3, <2>1 DEF LowerTells, Untouched, Result, WorkOf
  <2>2. CASE state' = Cleaned /\ state.phase # "merging"
    <3>1. Untouched \/ (state.phase = "committed" /\ lower.ver = lower.mark /\ lower.ver \in {0, 1} /\ ~lower.half)
      BY <1>1, <2>2 DEF LowerTells, BakeTyped, Phases
    <3>2. bake = "build" \/ work[Baked].step = "build" => Untouched
      BY <1>1, <2>2 DEF LowerTells
    <3>3. state'.phase = "committed" /\ work'[Baked].step \in {work[Baked].step, "none"}
      BY <1>1, <1>2, <1>5, <2>2 DEF WorkOf
    <3> QED BY <1>3, <3>1, <3>2, <3>3 DEF LowerTells, Untouched
  <2> QED BY <1>3, <2>1, <2>2
<1>15. Fate'
  <2>1. bake = "done" => lower.ver = 1 /\ lower.mark = 1
    BY <1>1 DEF Fate
  <2>2. ASSUME bake = "merge"
        PROVE  \/ orphan'[Baked] = "K" \/ (work'[Baked].step = "merge" /\ work'[Baked].pc = "failing")
               \/ state'.phase \in {"pending", "merging"} /\ state'.owner
               \/ state'.phase = "committed" /\ (state'.last \/ lower.ver = 1)
    <3>1. lease[Baked] = "K" /\ orphan[Baked] \in {"none", "K", "R"}
      BY <1>1, <2>2 DEF OfBaked, BakeTyped
    <3>2. CASE orphan[Baked] = "K"
      BY <1>1, <1>8, <3>1, <3>2
    <3>3. CASE work[Baked].step = "merge" /\ work[Baked].pc = "failing"
      BY <1>1, <1>2, <1>8, <3>1, <3>3 DEF WorkOf
    <3>4. CASE state.phase \in {"pending", "merging"} /\ state.owner
      BY <1>3, <1>5, <3>4
    <3>5. CASE state.phase = "committed" /\ (state.last \/ lower.ver = 1)
      BY <1>3, <1>5, <3>5
    <3> QED BY <1>1, <2>2, <3>2, <3>3, <3>4, <3>5 DEF Fate
  <2> QED BY <1>3, <2>1, <2>2 DEF Fate
<1>16. SharedTells'
  BY <1>1, <1>2, <1>3, <1>4, <1>5, <1>6 DEF SharedTells, GuardOf, WorkOf
<1>17. MatchTells'
  BY <1>1, <1>2, <1>3, MatchStays
<1> QED BY <1>10, <1>11, <1>12, <1>13, <1>14, <1>15, <1>16, <1>17 DEF BakeInv

\* An advert goes out, and the mediator answers.
LEMMA AdvertKeeps ==
    ASSUME BakeInv, NEW n \in Nodes, Advert(n)
    PROVE  BakeInv'
<1>1. /\ BakeTyped /\ OfBaked /\ BakerTells /\ WorkTells /\ LowerTells /\ Fate /\ SharedTells /\ MatchTells
      /\ Baked \in Nodes /\ NoNode \notin Nodes
  BY BakedIsANode, NoNodeIsNone DEF BakeInv
<1>2. /\ GuardOf(n) /\ guard'[n].bake = guard[n].bake /\ guard'[n].stepping = guard[n].stepping /\ guard'[n].mark = guard[n].mark
      /\ \/ guard'[n].shared = guard[n].shared
         \/ ~guard[n].shared /\ guard'[n].shared /\ excl = NoNode /\ state.phase # "merging" /\ (lease[n] = "R" => n \in excused')
      /\ BakerOf(n) /\ SameBake(baker'[n], baker[n])
      /\ baker'[n].bg = baker[n].bg \/ (~baker[n].held /\ baker[n].bg = "off" /\ baker'[n].bg = "stale")
  BY <1>1, AdvertDoes
<1>3. /\ UNCHANGED <<lower, state, place, bakeLock, excl, work, mounted, pick, at>>
      /\ lease' = Free({orphan[n]} \ {"none"}) /\ bake' = (IF orphan[n] = "K" THEN "failed" ELSE bake)
      /\ orphan' = [orphan EXCEPT ![n] = "none"]
      /\ excused' \in {excused, excused \cup {n}}
  BY DEF Advert, disk, locks
<1>4. /\ lease' \in [Nodes -> {"none", "K", "R"}]
      /\ \A m \in Nodes : lease'[m] = lease[m] \/ (lease'[m] = "none" /\ lease[m] = orphan[n])
      /\ \A m \in Nodes : lease[m] = orphan[n] => lease'[m] = "none"
  BY <1>1, <1>3 DEF BakeTyped, Free
<1>5. orphan' \in [Nodes -> {"none", "K", "R"}] /\ orphan'[n] = "none" /\ \A m \in Nodes : m # n => orphan'[m] = orphan[m]
  BY <1>1, <1>3 DEF BakeTyped
<1>6. /\ advert' \in [Nodes -> Answer] /\ advert'[n].lease = lease'[n] /\ \A m \in Nodes : m # n => advert'[m] = advert[m]
      /\ drain' \in [Nodes -> BOOLEAN]
  <2>1. PICK own \in BOOLEAN : advert' = [advert EXCEPT ![n] = [on |-> TRUE, drain |-> own, lease |-> lease'[n]]] /\ drain' = [drain EXCEPT ![n] = own]
    BY DEF Advert, Draining
  <2>2. [on |-> TRUE, drain |-> own, lease |-> lease'[n]] \in Answer
    BY <1>4 DEF Answer
  <2>3. advert \in [Nodes -> Answer] /\ drain \in [Nodes -> BOOLEAN]
    BY <1>1 DEF BakeTyped
  <2> QED BY <2>1, <2>2, <2>3
<1>7. /\ orphan[n] = "K" => n = Baked /\ lease'[Baked] # "K"
      /\ orphan[n] # "K" => (lease'[Baked] = "K" <=> lease[Baked] = "K")
  BY <1>1, <1>4 DEF OfBaked
<1>8. excused' \subseteq Nodes /\ bake' \in {"build", "merge", "bare", "done", "nothing", "failed"}
  BY <1>1, <1>3 DEF BakeTyped
<1>9. BakeTyped'
  BY <1>1, <1>2, <1>3, <1>4, <1>5, <1>6, <1>8 DEF BakeTyped, GuardOf, BakerOf
<1>10. OfBaked'
  <2>1. \A m \in Nodes \ {Baked} : /\ lease'[m] # "K" /\ orphan'[m] # "K" /\ work'[m].step \notin {"build", "merge"}
                                    /\ ~baker'[m].held
    <3>1. \A m \in Nodes : baker'[m].held = baker[m].held
      BY <1>2 DEF BakerOf, SameBake
    <3>2. \A m \in Nodes \ {Baked} : lease'[m] # "K"
      BY <1>1, <1>4 DEF OfBaked
    <3>3. \A m \in Nodes \ {Baked} : orphan'[m] # "K"
      BY <1>1, <1>5 DEF OfBaked
    <3>4. \A m \in Nodes \ {Baked} : work[m].step \notin {"build", "merge"} /\ ~baker[m].held
      BY <1>1 DEF OfBaked
    <3>5. work' = work
      BY <1>3
    <3> QED BY Zenon, <3>1, <3>2, <3>3, <3>4, <3>5
  <2>2. \A m \in Nodes : work'[m].step # "none" => orphan'[m] = "none"
    BY <1>1, <1>3 DEF OfBaked
  <2>3. lease'[Baked] = "K" <=> bake' \in {"build", "merge", "bare"}
    BY <1>1, <1>3, <1>7 DEF OfBaked
  <2>4. advert'[Baked].on /\ lease'[Baked] = "K" => advert'[Baked].lease = "K"
    BY <1>1, <1>4, <1>6 DEF OfBaked
  <2> QED BY <1>1, <1>3, <2>1, <2>2, <2>3, <2>4 DEF OfBaked, BuildPcs, MergePcs
<1>11. BakerTells'
  BY <1>1, <1>2, <1>3, <1>4, <1>5, <1>6, <1>7, <1>8 DEF BakerTells, GuardOf, BakerOf, SameBake, Result, Merging
<1>12. WorkTells'
  BY <1>1, <1>2, <1>3, <1>4, <1>5, <1>6, <1>7, <1>8 DEF WorkTells, InHand, Pending, BakerOf, GuardOf, SameBake
<1>13. LowerTells'
  BY <1>1, <1>2, <1>3, <1>4, <1>5 DEF LowerTells, Untouched, Result
<1>14. Fate'
  BY <1>1, <1>2, <1>3 DEF Fate
<1>15. SharedTells'
  BY <1>1, <1>2, <1>3, <1>4 DEF SharedTells, GuardOf
<1>16. MatchTells'
  BY <1>1, <1>2, <1>3, <1>4, MatchStays
<1> QED BY <1>9, <1>10, <1>11, <1>12, <1>13, <1>14, <1>15, <1>16 DEF BakeInv

\* The answer is heard, or lost.
LEMMA AnswerKeeps ==
    ASSUME BakeInv, NEW n \in Nodes, AfterResponse(n)
    PROVE  BakeInv'
<1>1. /\ BakeTyped /\ OfBaked /\ BakerTells /\ WorkTells /\ LowerTells /\ Fate /\ SharedTells /\ MatchTells
      /\ Baked \in Nodes /\ NoNode \notin Nodes
  BY BakedIsANode, NoNodeIsNone DEF BakeInv
<1>2. /\ GuardOf(n) /\ LockMoved(guard[n], guard'[n]) /\ guard'[n].stepping = guard[n].stepping
      /\ (guard'[n].bake => guard[n].bake) /\ (guard[n].shared /\ guard[n].stepping => guard'[n].shared)
      /\ BakerOf(n) /\ baker'[n].held = baker[n].held /\ baker'[n].merging = baker[n].merging /\ baker'[n].bg = baker[n].bg
      /\ \/ SameBaker(baker'[n], baker[n])
         \/ /\ baker[n].held /\ ~baker[n].done /\ ~baker[n].merging /\ baker'[n].done /\ baker'[n].abandon = "write"
            /\ guard[n].bake /\ advert[n].on /\ advert[n].lease # "K" /\ state.phase = "pending"
  BY <1>1, AnswerDoes
<1>3. /\ UNCHANGED <<lower, state, place, bakeLock, excl, work, mounted, drain, lease, pick, bake, orphan, at, excused>>
      /\ advert' = [advert EXCEPT ![n] = NoAnswer]
  BY DEF AfterResponse, disk, locks, mediator, history
<1>4. /\ advert' \in [Nodes -> Answer] /\ ~advert'[n].on /\ \A m \in Nodes : m # n => advert'[m] = advert[m]
  <2>1. NoAnswer \in Answer /\ ~NoAnswer.on
    BY DEF NoAnswer, Answer
  <2>2. advert \in [Nodes -> Answer] /\ advert' = [advert EXCEPT ![n] = NoAnswer]
    BY <1>1, <1>3 DEF BakeTyped
  <2> QED BY <2>1, <2>2
<1>5. \/ baker'[n].done = baker[n].done /\ baker'[n].abandon = baker[n].abandon
      \/ /\ baker[n].held /\ ~baker[n].done /\ ~baker[n].merging /\ baker'[n].done /\ baker'[n].abandon = "write"
         /\ n = Baked /\ lease[Baked] # "K" /\ state.phase = "pending"
  BY <1>1, <1>2 DEF SameBaker, SameBake, OfBaked
<1>6. guard'[n].shared => excl = NoNode /\ state.phase # "merging"
  BY <1>1, <1>2 DEF SharedTells, LockMoved
<1>7. guard'[n].mark \in {guard[n].mark, lower.mark}
  BY <1>2 DEF LockMoved
<1>8. BakeTyped'
  BY <1>1, <1>2, <1>3, <1>4 DEF BakeTyped, GuardOf, BakerOf
<1>9. OfBaked'
  BY <1>1, <1>2, <1>3, <1>4, <1>5, <1>6, <1>7 DEF OfBaked, GuardOf, BakerOf
<1>10. BakerTells'
  BY <1>1, <1>2, <1>3, <1>4, <1>5, <1>6, <1>7 DEF BakerTells, GuardOf, BakerOf, Result
<1>11. WorkTells'
  BY <1>1, <1>2, <1>3, <1>4, <1>5, <1>6, <1>7 DEF WorkTells, InHand, Pending, BakerOf, GuardOf, SameBaker, SameBake
<1>12. LowerTells'
  BY <1>1, <1>2, <1>3, <1>4 DEF LowerTells, Untouched, Result
<1>13. Fate'
  BY <1>1, <1>2, <1>3 DEF Fate
<1>14. SharedTells'
  BY <1>1, <1>2, <1>3, <1>6 DEF SharedTells, GuardOf
<1>15. MatchTells'
  BY <1>1, <1>2, <1>3, <1>7, MatchStays
<1> QED BY <1>8, <1>9, <1>10, <1>11, <1>12, <1>13, <1>14, <1>15 DEF BakeInv

\* A step is claimed, with the lock its kind needs.
LEMMA ClaimKeeps ==
    ASSUME BakeInv, NEW n \in Nodes, NEW step \in {"r", "build", "merge"}, Claim(n, step)
    PROVE  BakeInv'
<1>1. /\ BakeTyped /\ OfBaked /\ BakerTells /\ WorkTells /\ LowerTells /\ Fate /\ SharedTells /\ MatchTells
      /\ Baked \in Nodes /\ NoNode \notin Nodes
  BY BakedIsANode, NoNodeIsNone DEF BakeInv
<1>2. /\ GuardOf(n) /\ LockMoved(guard[n], guard'[n]) /\ guard'[n].bake = guard[n].bake /\ guard'[n].stepping
      /\ WorkOf(n) /\ work[n].step = "none" /\ work'[n].step = step
      /\ IF step # "r" THEN work'[n].pc = "guarded"
         ELSE work'[n].pc = "refused" \/ (work'[n].pc = "running" /\ guard'[n].shared)
      /\ mounted' = [mounted EXCEPT ![n] = IF work'[n].pc = "running" THEN lower.ver ELSE mounted[n]]
  BY <1>1, ClaimDoes
<1>3. /\ UNCHANGED <<lower, state, place, bakeLock, excl, baker, advert, drain, lease, pick, bake, orphan, at, excused>>
      /\ orphan[n] = "none"
      /\ step = "r" => lease[n] = "R"
      /\ step = "build" => lease[n] = "K" /\ bake = "build"
      /\ step = "merge" => lease[n] = "K" /\ bake \in {"merge", "bare"}
  BY DEF Claim, Leased, disk, locks, mediator, history
<1>4. /\ mounted' \in [Nodes -> {None} \cup -1..1] /\ \A m \in Nodes : m # n => mounted'[m] = mounted[m]
      /\ work'[n].pc # "running" => mounted'[n] = mounted[n]
  BY <1>1, <1>2 DEF BakeTyped
<1>5. step # "r" => n = Baked
  BY <1>1, <1>3 DEF OfBaked
<1>6. guard'[n].shared => excl = NoNode /\ state.phase # "merging"
  BY <1>1, <1>2 DEF SharedTells, LockMoved
<1>7. guard'[n].mark \in {guard[n].mark, lower.mark}
  BY <1>2 DEF LockMoved
<1>8. BakeTyped'
  BY <1>1, <1>2, <1>3 DEF BakeTyped, GuardOf, WorkOf
<1>9. OfBaked'
  BY <1>1, <1>2, <1>3, <1>4, <1>5, <1>6 DEF OfBaked, GuardOf, WorkOf, BuildPcs, MergePcs
<1>10. BakerTells'
  BY <1>1, <1>2, <1>3, <1>4, <1>5, <1>6 DEF BakerTells, GuardOf, Result
<1>11. WorkTells'
  BY <1>1, <1>2, <1>3, <1>4, <1>5, <1>6 DEF WorkTells, InHand, Pending, WorkOf, GuardOf, Merging
<1>12. LowerTells'
  BY <1>1, <1>2, <1>3 DEF LowerTells, Untouched, Result, WorkOf
<1>13. Fate'
  BY <1>1, <1>2, <1>3 DEF Fate, WorkOf
<1>14. SharedTells'
  BY <1>1, <1>2, <1>3, <1>6 DEF SharedTells, GuardOf, WorkOf
<1>15. MatchTells'
  BY <1>1, <1>2, <1>3, <1>7, MatchStays
<1> QED BY <1>8, <1>9, <1>10, <1>11, <1>12, <1>13, <1>14, <1>15 DEF BakeInv

\* A step of the ordinary Run ends.
LEMMA StepEndsKeeps ==
    ASSUME BakeInv, NEW n \in Nodes, StepEnds(n)
    PROVE  BakeInv'
<1>1. /\ BakeTyped /\ OfBaked /\ BakerTells /\ WorkTells /\ LowerTells /\ Fate /\ SharedTells /\ MatchTells
      /\ Baked \in Nodes /\ NoNode \notin Nodes
  BY BakedIsANode, NoNodeIsNone DEF BakeInv
<1>2. /\ WorkOf(n) /\ work[n].step = "r" /\ work'[n].step = "none" /\ work'[n].pc = "idle"
      /\ GuardOf(n) /\ guard'[n].shared = guard[n].shared /\ guard'[n].mark = guard[n].mark /\ guard'[n].bake = guard[n].bake
  <2>1. work' = [work EXCEPT ![n] = NoWork] /\ guard' = [guard EXCEPT ![n].stepping = FALSE] /\ work[n].step = "r"
    BY DEF StepEnds
  <2> QED BY <1>1, <2>1, WorkEnds
<1>3. /\ UNCHANGED <<lower, state, place, bakeLock, excl, baker, advert, drain, pick, bake, orphan, at, excused>>
      /\ mounted' = [mounted EXCEPT ![n] = None] /\ lease' = IF left' = 0 THEN Free({"R"}) ELSE lease
  BY DEF StepEnds, disk, locks, history
<1>4. /\ mounted' \in [Nodes -> {None} \cup -1..1] /\ \A m \in Nodes : mounted'[m] = (IF m = n THEN None ELSE mounted[m])
  BY <1>1, <1>3 DEF BakeTyped
<1>5. /\ lease' \in [Nodes -> {"none", "K", "R"}]
      /\ \A m \in Nodes : lease'[m] = lease[m] \/ (lease[m] = "R" /\ lease'[m] = "none")
  BY <1>1, <1>3 DEF BakeTyped, Free
<1>6. \A m \in Nodes : lease'[m] = "R" => lease[m] = "R"
  BY <1>5
<1>7. \A m \in Nodes : lease'[m] = "K" <=> lease[m] = "K"
  BY <1>5
<1>8. BakeTyped'
  BY <1>1, <1>2, <1>3, <1>5 DEF BakeTyped, GuardOf, WorkOf
<1>9. OfBaked'
  BY <1>1, <1>2, <1>3, <1>4, <1>5, <1>7 DEF OfBaked, GuardOf, WorkOf
<1>10. BakerTells'
  BY <1>1, <1>2, <1>3, <1>4, <1>5, <1>7 DEF BakerTells, GuardOf, Result
<1>11. WorkTells'
  BY <1>1, <1>2, <1>3, <1>4, <1>5, <1>7 DEF WorkTells, InHand, Pending, WorkOf, GuardOf
<1>12. LowerTells'
  BY <1>1, <1>2, <1>3 DEF LowerTells, Untouched, Result, WorkOf
<1>13. Fate'
  BY <1>1, <1>2, <1>3 DEF Fate, WorkOf
<1>14. SharedTells'
  BY <1>1, <1>2, <1>3, <1>4 DEF SharedTells, GuardOf, WorkOf
<1>15. MatchTells'
  BY <1>1, <1>2, <1>3, <1>6, MatchStays
<1> QED BY <1>8, <1>9, <1>10, <1>11, <1>12, <1>13, <1>14, <1>15 DEF BakeInv

\* The ordinary Run is matched to the lower of now.
LEMMA MatchKeeps ==
    ASSUME BakeInv, Match
    PROVE  BakeInv'
<1>1. /\ BakeTyped /\ OfBaked /\ BakerTells /\ WorkTells /\ LowerTells /\ Fate /\ SharedTells /\ MatchTells
      /\ Baked \in Nodes /\ NoNode \notin Nodes
  BY BakedIsANode, NoNodeIsNone DEF BakeInv
<1>2. /\ UNCHANGED <<lower, state, place, bakeLock, excl, guard, baker, work, mounted, advert, drain, bake, orphan, excused>>
      /\ pick # NoNode /\ pick' = NoNode /\ at' = lower.ver
      /\ lease' = lease \/ (lease[pick] = "none" /\ lease' = [lease EXCEPT ![pick] = "R"])
  BY DEF Match, Leased, disk, locks, process
<1>3. /\ lease' \in [Nodes -> {"none", "K", "R"}] /\ pick \in Nodes /\ lower.ver \in -1..1
      /\ \A m \in Nodes : lease'[m] = lease[m] \/ (lease[m] = "none" /\ lease'[m] = "R")
  BY <1>1, <1>2 DEF BakeTyped
<1>4. \A m \in Nodes : lease'[m] = "K" <=> lease[m] = "K"
  BY <1>3
<1>5. /\ \A m \in Nodes : guard[m].mark \in -1..1 /\ guard[m].mark <= lower.mark
      /\ lower.mark \in -1..1 /\ lower.mark <= lower.ver
  <2>1. \A m \in Nodes : guard[m].mark \in -1..1 /\ guard[m].mark <= lower.mark
    BY <1>1 DEF BakeTyped, Guard, MatchTells
  <2>2. lower.mark \in -1..1 /\ lower.ver \in -1..1 /\ state.phase \in Phases
    BY <1>1 DEF BakeTyped
  <2>3. lower.mark <= lower.ver
    BY <1>1, <2>2 DEF LowerTells, Untouched, Phases
  <2> QED BY <2>1, <2>2, <2>3
<1>6. BakeTyped'
  BY <1>1, <1>2 DEF BakeTyped
<1>7. OfBaked'
  BY <1>1, <1>2, <1>3, <1>4, <1>5 DEF OfBaked, GuardOf
<1>8. BakerTells'
  BY <1>1, <1>2, <1>3, <1>4, <1>5 DEF BakerTells, Result
<1>9. WorkTells'
  BY <1>1, <1>2, <1>3, <1>4, <1>5 DEF WorkTells, InHand, Pending
<1>10. LowerTells'
  BY <1>1, <1>2 DEF LowerTells, Untouched, Result
<1>11. Fate'
  BY <1>1, <1>2 DEF Fate
<1>12. SharedTells'
  BY <1>1, <1>2 DEF SharedTells
<1>13. MatchTells'
  BY <1>1, <1>2, <1>3, <1>5 DEF MatchTells
<1> QED BY <1>6, <1>7, <1>8, <1>9, <1>10, <1>11, <1>12, <1>13 DEF BakeInv

\* A Run is cancelled: its lease goes at once, its node hears of it later.
LEMMA CancelKeeps ==
    ASSUME BakeInv, Cancel
    PROVE  BakeInv'
<1>1. /\ BakeTyped /\ OfBaked /\ BakerTells /\ WorkTells /\ LowerTells /\ Fate /\ SharedTells /\ MatchTells
      /\ Baked \in Nodes /\ NoNode \notin Nodes
  BY BakedIsANode, NoNodeIsNone DEF BakeInv
<1>2. /\ UNCHANGED <<lower, state, place, bakeLock, excl, guard, baker, work, mounted, advert, drain, pick, orphan, at, excused>>
      /\ \/ bake' = "failed" /\ lease' = Free({"K"})
         \/ bake' = bake /\ lease' = Free({"R"})
  BY DEF Cancel, disk, locks, process, history
<1>3. /\ lease' \in [Nodes -> {"none", "K", "R"}]
      /\ \A m \in Nodes : lease'[m] \in {lease[m], "none"}
      /\ \/ bake' = "failed" /\ \A m \in Nodes : lease'[m] # "K"
         \/ bake' = bake /\ \A m \in Nodes : lease'[m] = "K" <=> lease[m] = "K"
  BY <1>1, <1>2 DEF BakeTyped, Free
<1>4. BakeTyped'
  BY <1>1, <1>2, <1>3 DEF BakeTyped
<1>5. OfBaked'
  BY <1>1, <1>2, <1>3 DEF OfBaked, GuardOf
<1>6. BakerTells'
  BY <1>1, <1>2, <1>3 DEF BakerTells, Result
<1>7. WorkTells'
  BY <1>1, <1>2, <1>3 DEF WorkTells, InHand, Pending
<1>8. LowerTells'
  BY <1>1, <1>2 DEF LowerTells, Untouched, Result
<1>9. Fate'
  BY <1>1, <1>2 DEF Fate
<1>10. SharedTells'
  BY <1>1, <1>2 DEF SharedTells
<1>11. MatchTells'
  BY <1>1, <1>2, <1>3 DEF MatchTells
<1> QED BY <1>4, <1>5, <1>6, <1>7, <1>8, <1>9, <1>10, <1>11 DEF BakeInv

\* A step that changes nothing of it.
LEMMA IdleKeeps ==
    ASSUME BakeInv, UNCHANGED vars
    PROVE  BakeInv'
<1>1. UNCHANGED <<lower, state, place, bakeLock, excl, guard, baker, work, mounted, advert, drain, lease, pick, bake, orphan, at, excused>>
  BY DEF vars, disk, locks, process, mediator, history
<1>2. Result' = Result
  BY <1>1 DEF Result
<1>3. BakeTyped' /\ OfBaked'
  BY <1>1 DEF BakeInv, BakeTyped, OfBaked
<1>4. BakerTells' /\ WorkTells'
  BY <1>1, <1>2 DEF BakeInv, BakerTells, WorkTells, InHand, Pending
<1>5. LowerTells' /\ Fate'
  BY <1>1, <1>2 DEF BakeInv, LowerTells, Untouched, Fate
<1>6. SharedTells' /\ MatchTells'
  BY <1>1 DEF BakeInv, SharedTells, MatchTells
<1> QED BY <1>3, <1>4, <1>5, <1>6 DEF BakeInv

\* A node that is new to the lower, or shares its lock from the start.
LEMMA NewShares ==
    LET g == [NewGuard(0) EXCEPT !.shared = TRUE] IN
    g \in Guard /\ g.mark = 0 /\ g.shared = TRUE /\ g.bake = FALSE
<1> DEFINE k == NewGuard(0)
           g == [k EXCEPT !.shared = TRUE]
<1>1. k \in Guard /\ k.mark = 0 /\ ~k.shared /\ ~k.bake
  BY NewGuardTypes
<1> HIDE DEF k
<1>2. k.bake = FALSE
  BY <1>1 DEF Guard
<1>3. g \in Guard
  <2>1. \A b \in BOOLEAN, s \in 0..2 : [[k EXCEPT !.shared = b] EXCEPT !.streak = k.streak] \in Guard
    BY <1>1 DEF Guard
  <2>2. [[k EXCEPT !.shared = TRUE] EXCEPT !.streak = k.streak] = g
    BY <1>1 DEF Guard
  <2> QED BY Zenon, <2>1, <2>2, Values
<1>4. g.mark = 0 /\ g.shared = TRUE /\ g.bake = FALSE
  BY <1>1, <1>2 DEF Guard
<1> QED BY <1>3, <1>4 DEF k

\* The mediator and the nodes' work at the start, on a whole lower or one a merge was broken off on.
LEMMA Starts ==
    ASSUME Init
    PROVE  /\ work = [n \in Nodes |-> NoWork] /\ mounted = [n \in Nodes |-> None] /\ advert = [n \in Nodes |-> NoAnswer]
           /\ work \in [Nodes -> WorkPlace] /\ mounted \in [Nodes -> {None} \cup -1..1] /\ advert \in [Nodes -> Answer]
           /\ \A n \in Nodes : work[n].step = "none" /\ work[n].pc = "idle" /\ mounted[n] = None /\ ~advert[n].on
           /\ \A n \in Nodes : lease[n] = (IF n = Baked THEN "K" ELSE "none") /\ orphan[n] = "none"
           /\ lease \in [Nodes -> {"none", "K", "R"}] /\ orphan \in [Nodes -> {"none", "K", "R"}]
           /\ excl = NoNode /\ pick = NoNode /\ bake = "build" /\ at = 0 /\ excused = {}
<1>1. /\ work = [n \in Nodes |-> NoWork] /\ mounted = [n \in Nodes |-> None] /\ advert = [n \in Nodes |-> NoAnswer]
      /\ lease = [n \in Nodes |-> IF n = Baked THEN "K" ELSE "none"] /\ orphan = [n \in Nodes |-> "none"]
      /\ excl = NoNode /\ pick = NoNode /\ bake = "build" /\ at = 0 /\ excused = {}
  BY DEF Init
<1>2. NoAnswer \in Answer /\ ~NoAnswer.on
  BY DEF NoAnswer, Answer
<1>3. NoWork \in WorkPlace /\ NoWork.step = "none" /\ NoWork.pc = "idle"
  BY NoWorkIs
<1>4. advert \in [Nodes -> Answer] /\ \A n \in Nodes : ~advert[n].on
  <2> HIDE DEF NoAnswer, Answer
  <2> QED BY <1>1, <1>2
<1>5. work \in [Nodes -> WorkPlace] /\ \A n \in Nodes : work[n].step = "none" /\ work[n].pc = "idle"
  BY <1>1, <1>3
<1> QED BY <1>1, <1>4, <1>5

\* The lower is whole at the start.
LEMMA FreshStarts ==
    ASSUME Init, Fresh
    PROVE  BakeInv
<1>1. Baked \in Nodes /\ NoNode \notin Nodes
  BY BakedIsANode, NoNodeIsNone
<1>2. /\ guard \in [Nodes -> Guard]
      /\ \A n \in Nodes : guard[n].mark = 0 /\ guard[n].shared = TRUE /\ guard[n].bake = FALSE
  <2>1. guard = [n \in Nodes |-> [NewGuard(0) EXCEPT !.shared = TRUE]]
    BY DEF Fresh
  <2> DEFINE g == [NewGuard(0) EXCEPT !.shared = TRUE]
  <2>2. g \in Guard /\ g.mark = 0 /\ g.shared = TRUE /\ g.bake = FALSE
    BY NewShares
  <2> HIDE DEF g
  <2>3. guard = [n \in Nodes |-> g]
    BY <2>1 DEF g
  <2> QED BY <2>2, <2>3
<1>3. /\ baker \in [Nodes -> BakerPlace]
      /\ \A n \in Nodes : ~baker[n].held /\ ~baker[n].done /\ baker[n].abandon = "no" /\ baker[n].bg = "off" /\ ~baker[n].merging
  <2>1. baker = [n \in Nodes |-> NewBaker]
    BY DEF Fresh
  <2>2. NewBaker \in BakerPlace /\ ~NewBaker.held /\ ~NewBaker.done /\ NewBaker.abandon = "no" /\ NewBaker.bg = "off" /\ ~NewBaker.merging
    BY NewBakerTypes DEF BgPcs
  <2> QED BY <2>1, <2>2
<1>4. /\ lower = [ver |-> 0, half |-> FALSE, mark |-> 0] /\ state = [phase |-> "committed", owner |-> FALSE, last |-> FALSE]
      /\ place = "none" /\ bakeLock = NoNode /\ drain = [n \in Nodes |-> FALSE]
  BY DEF Fresh, Committed
<1>5. lower.ver = 0 /\ ~lower.half /\ lower.mark = 0 /\ state.phase = "committed"
  BY <1>4
<1>6. BakeTyped
  BY <1>1, <1>2, <1>3, <1>4, Starts DEF BakeTyped, Phases
<1>7. OfBaked
  BY <1>1, <1>3, Starts DEF OfBaked
<1>8. BakerTells
  BY <1>2, <1>3 DEF BakerTells, Merging
<1>9. WorkTells
  BY <1>1, <1>3, <1>5, Starts DEF WorkTells, InHand
<1>10. LowerTells
  BY <1>1, <1>5, Starts DEF LowerTells, Untouched
<1>11. Fate
  BY Starts DEF Fate
<1>12. SharedTells
  BY <1>5, Starts DEF SharedTells
<1>13. MatchTells
  BY <1>2, <1>5, Starts DEF MatchTells
<1> QED BY <1>6, <1>7, <1>8, <1>9, <1>10, <1>11, <1>12, <1>13 DEF BakeInv

\* Or a merge of an earlier bake was broken off.
LEMMA BrokenOffStarts ==
    ASSUME Init, BrokenOff
    PROVE  BakeInv
<1>1. Baked \in Nodes /\ NoNode \notin Nodes
  BY BakedIsANode, NoNodeIsNone
<1>2. /\ guard \in [Nodes -> Guard]
      /\ \A n \in Nodes : guard[n].mark = -1 /\ ~guard[n].shared /\ ~guard[n].bake
  <2>1. guard = [n \in Nodes |-> NewGuard(-1)]
    BY DEF BrokenOff
  <2>2. NewGuard(-1) \in Guard /\ NewGuard(-1).mark = -1 /\ ~NewGuard(-1).shared /\ ~NewGuard(-1).bake
    BY NewGuardTypes
  <2> QED BY <2>1, <2>2
<1>3. /\ baker \in [Nodes -> BakerPlace]
      /\ \A n \in Nodes : /\ ~baker[n].held /\ ~baker[n].done /\ baker[n].abandon = "no" /\ ~baker[n].merging
                          /\ baker[n].bg = IF n = bakeLock THEN "wait" ELSE "off"
  <2> DEFINE w == [NewBaker EXCEPT !.bg = "wait"]
  <2>1. baker = [n \in Nodes |-> IF n = bakeLock THEN w ELSE NewBaker]
    BY DEF BrokenOff
  <2>2. /\ NewBaker \in BakerPlace /\ ~NewBaker.held /\ ~NewBaker.done /\ NewBaker.abandon = "no" /\ NewBaker.bg = "off" /\ ~NewBaker.merging
        /\ w \in BakerPlace /\ ~w.held /\ ~w.done /\ w.abandon = "no" /\ w.bg = "wait" /\ ~w.merging
    BY NewBakerTypes DEF BgPcs
  <2> HIDE DEF w
  <2> QED BY <2>1, <2>2
<1>4. /\ lower = [ver |-> -1, half |-> TRUE, mark |-> -1] /\ state = [phase |-> "merging", owner |-> FALSE, last |-> FALSE]
      /\ place = "upper" /\ bakeLock \in Nodes /\ drain = [n \in Nodes |-> TRUE]
  BY DEF BrokenOff, Committed
<1>5. lower.ver = -1 /\ lower.half /\ lower.mark = -1 /\ state.phase = "merging" /\ ~state.owner
  BY <1>4
<1>6. BakeTyped
  BY <1>1, <1>2, <1>3, <1>4, Starts DEF BakeTyped, Phases
<1>7. OfBaked
  BY <1>1, <1>3, Starts DEF OfBaked
<1>8. BakerTells
  BY <1>2, <1>3, <1>5 DEF BakerTells, Merging
<1>9. WorkTells
  BY <1>1, <1>3, <1>5, Starts DEF WorkTells, InHand
<1>10. LowerTells
  BY <1>1, <1>4, <1>5, Starts DEF LowerTells, Untouched, Result
<1>11. Fate
  BY Starts DEF Fate
<1>12. SharedTells
  BY <1>2, Starts DEF SharedTells
<1>13. MatchTells
  BY <1>2, <1>5, Starts DEF MatchTells
<1> QED BY <1>6, <1>7, <1>8, <1>9, <1>10, <1>11, <1>12, <1>13 DEF BakeInv
-----------------------------------------------------------------------------
(* The theorems.                                                           *)

\* Every step keeps the invariant.
LEMMA BakeStep ==
    ASSUME BakeInv, [Next]_vars
    PROVE  BakeInv'
<1>1. ASSUME NEW n \in Nodes, Guarding(n) \/ Working(n) \/ Cleaning(n)
      PROVE  BakeInv'
  BY <1>1, AdvertKeeps, AnswerKeeps, ClaimKeeps, StepEndsKeeps, AbandonWritesKeeps, AbandonEndsKeeps DEF Guarding, Working,
     Cleaning
<1>2. ASSUME NEW n \in Nodes, Baking(n) \/ GaveUp(n)
      PROVE  BakeInv'
  BY <1>2, BakeInProgressKeeps, TakeForBuildKeeps, BuiltKeeps, WritePendingKeeps, HoldBakeKeeps, BakeStepEndsKeeps,
     MergeClaimKeeps, ExclusiveKeeps, StartMergingKeeps, WriteMergingKeeps, MergeStepKeeps, StoppedKeeps, MergedKeeps,
     GaveUpKeeps DEF Baking
<1>3. ASSUME NEW n \in Nodes, Resuming(n) \/ Crash(n) \/ Pick(n)
      PROVE  BakeInv'
  BY <1>3, StaleKeeps, ResumeExclusiveKeeps, ResumeKeeps, CompleteMergeKeeps, ResumeEndsKeeps, RetryKeeps, CrashKeeps,
     PickKeeps DEF Resuming
<1>4. CASE UNCHANGED vars
  BY <1>4, IdleKeeps
<1>5. CASE Match \/ Cancel
  BY <1>5, MatchKeeps, CancelKeeps
<1> QED BY <1>1, <1>2, <1>3, <1>4, <1>5 DEF Next

\* The lower, its state and its locks tell one story, whatever the nodes were doing when they died.
THEOREM BakeInvariant == Spec => []BakeInv
<1>1. Init => BakeInv
  <2>1. Init => Fresh \/ BrokenOff
    BY DEF Init
  <2> QED BY <2>1, FreshStarts, BrokenOffStarts
<1>2. BakeInv /\ [Next]_vars => BakeInv'
  BY BakeStep
<1> QED BY <1>1, <1>2, PTL DEF Spec

\* A bake Run whose build handed over an upper ends DONE only if the lower was changed by it.
THEOREM BakeDoneIsMerged == Spec => []HandedIsMerged
<1>1. BakeInv => HandedIsMerged
  BY DEF BakeInv, Fate, HandedIsMerged
<1> QED BY <1>1, BakeInvariant, PTL

\* The lower under the steps of a Run is the one of its match, on every node that is not excused.
THEOREM RunsOnWhatItMatched == Spec => []UnchangedSinceMatch
<1>1. ASSUME BakeInv, NEW n \in Nodes \ excused, At(n, "r", "running"), Leased(n, "R")
      PROVE  lower.ver = at /\ ~lower.half
  <2>1. work[n].step = "r" /\ work[n].pc = "running" /\ lease[n] = "R"
    BY <1>1 DEF At, Leased
  <2>2. guard[n].shared /\ state.phase # "merging"
    BY <1>1, <2>1 DEF BakeInv, SharedTells
  <2>3. lower.ver = at
    BY <1>1, <2>1, <2>2 DEF BakeInv, MatchTells
  <2>4. ~lower.half
    BY <1>1, <2>2 DEF BakeInv, LowerTells
  <2> QED BY <2>3, <2>4
<1>2. BakeInv => UnchangedSinceMatch
  BY <1>1 DEF UnchangedSinceMatch
<1> QED BY <1>2, BakeInvariant, PTL

\* While a merge is changing the lower nobody mounts it, and what it takes to go on with is kept.
THEOREM MergesAlone == Spec => []MergeAlone
<1>1. ASSUME BakeInv, lower.half
      PROVE  (\A n \in Nodes : mounted[n] = None) /\ state.phase = "merging" /\ place = "upper"
  <2>1. state.phase = "merging" /\ place = "upper"
    BY <1>1 DEF BakeInv, LowerTells
  <2>2. ASSUME NEW n \in Nodes, mounted[n] # None
        PROVE  FALSE
    <3>1. ~guard[n].shared
      BY <1>1, <2>1 DEF BakeInv, SharedTells
    <3>2. work[n].step = "build" /\ work[n].pc = "building"
      BY <1>1, <2>2, <3>1 DEF BakeInv, SharedTells
    <3>3. n = Baked
      BY <1>1, <3>2 DEF BakeInv, OfBaked
    <3>4. state.phase = "building"
      BY <1>1, <3>2, <3>3 DEF BakeInv, WorkTells
    <3> QED BY <2>1, <3>4
  <2> QED BY <2>1, <2>2
<1>2. BakeInv => MergeAlone
  BY <1>1 DEF MergeAlone
<1> QED BY <1>2, BakeInvariant, PTL

=============================================================================
