-------------------------- MODULE RunReports_proofs --------------------------
(***************************************************************************)
(* Proofs about what a report sets off. StepGraph, for every contract that *)
(* Validate accepts: its tables keep their types; what a Run holds is in   *)
(* order; the roads not taken stay closed; releases that come last take no *)
(* node from a step that needs it. PlanColumn, for every contract and plan *)
(* whose names Validate accepts: its tables keep their types; the rows     *)
(* follow the contract in force; steps of a plan that was taken back do    *)
(* not begin; versions are added and approvals stand.                      *)
(***************************************************************************)
EXTENDS RunReports, FiniteSetTheorems, WellFoundedInduction, TLAPS

-----------------------------------------------------------------------------
(* The types.                                                               *)

Names == {NoRole} \cup Roles \cup {contract[i].want : i \in DOMAIN contract}
Places == {"idle", "back", "effects", "acquire", "commit"}
Verdicts == [met : BOOLEAN, passed : BOOLEAN, pick : Nat]
Whoever == Nodes \cup {NoNode}

\* Rows of steps in I; the transactions over steps I and roles N.
Rewrites(I) == UNION {[S -> Row] : S \in SUBSET I}
TxOf(I, N) ==
    [pc : Places, seq : I \cup {0}, who : Whoever, res : SUBSET Verdicts, w : Rewrites(I),
     grab : SUBSET Nodes, drop : SUBSET Nodes, assigned : SUBSET (N \X Nodes), given : SUBSET N]

Typed ==
    /\ contract \in Contracts
    /\ row \in [Seqs -> Row]
    /\ held \in SUBSET Nodes
    /\ assigned \in SUBSET (Names \X Nodes)
    /\ work \in [Nodes -> {NoWork} \cup (Seqs \X Nat)]
    /\ tx \in [Handlers -> TxOf(Seqs, Names)]
    /\ faults \in 0..MaxFaults
    /\ overlap \in BOOLEAN
    /\ yielded \in SUBSET Names

\* A transaction that is not open has written nothing; one that has not come
\* to its effects yet has written the end of its step and nothing else.
Begun(t) ==
    /\ t.pc = "idle" => t = Closed
    /\ t.pc \in {"back", "effects"} =>
        /\ t.seq \in Seqs
        /\ DOMAIN t.w = {t.seq} /\ t.w[t.seq].state = "DONE"
        /\ t.grab = {} /\ t.drop = {} /\ t.assigned = {}

TypedInv == Typed /\ \A h \in Handlers : Begun(tx[h])

-----------------------------------------------------------------------------
(* The shape of a contract.                                                 *)

LEMMA LeastExists ==
    ASSUME NEW S \in SUBSET Nat, S # {}
    PROVE  \E m \in S : \A k \in S : m <= k
<1>1. PICK x \in S : \A y \in S : ~ (<<y, x>> \in OpToRel(<, Nat))
  BY NatLessThanWellFounded, WFMin, Zenon
<1>2. \A y \in S : ~(y < x)
  BY <1>1 DEF OpToRel
<1> QED BY <1>2

\* The first of some steps is one of them.
LEMMA LeastIsMember ==
    ASSUME NEW S \in SUBSET Nat, S # {}
    PROVE  Least(S) \in S
BY LeastExists DEF Least

\* The last of finitely many steps is one of them.
LEMMA MostIsMember ==
    ASSUME NEW n \in Nat, NEW S \in SUBSET (1..n), S # {}
    PROVE  Most(S) \in S
<1> DEFINE D == {n - x : x \in S}
<1>1. D \in SUBSET Nat /\ D # {}
  <2>1. \A x \in S : x \in 1..n /\ n - x \in Nat
    OBVIOUS
  <2> QED BY <2>1
<1>2. PICK m \in D : \A k \in D : m <= k
  BY <1>1, LeastExists
<1>3. PICK x \in S : m = n - x
  OBVIOUS
<1>4. \A y \in S : y <= x
  <2>1. SUFFICES ASSUME NEW y \in S PROVE y <= x
    OBVIOUS
  <2>2. n - x <= n - y /\ x \in Nat /\ y \in Nat
    BY <1>2, <1>3
  <2> QED BY <2>2
<1> QED BY <1>4 DEF Most

\* What the proofs use of Validate.
StepOk(s) ==
    /\ contract[s].kind \in {"work", "acquire", "ask"}
    /\ contract[s].uses \in Names /\ contract[s].want \in Names
    /\ contract[s].release \subseteq Names
    /\ contract[s].to \subseteq Seqs
    /\ contract[s].back \in Nat /\ contract[s].max \in Nat
    /\ contract[s].checker \in Nat /\ contract[s].tries \in Nat
    /\ contract[s].back # 0 => contract[s].back < s
    /\ contract[s].kind # "work" => contract[s].uses = NoRole
    /\ contract[s].kind # "acquire" =>
        contract[s].want = NoRole /\ contract[s].acquired = 0 /\ contract[s].unavailable = 0
    /\ contract[s].kind = "acquire" =>
        /\ contract[s].want # NoRole
        /\ contract[s].acquired \in Seqs /\ contract[s].acquired > s
        /\ contract[s].unavailable \in Seqs /\ contract[s].unavailable > s
        /\ contract[s].acquired # contract[s].unavailable

LEMMA ContractShape ==
    ASSUME contract \in Contracts
    PROVE  /\ Len(contract) \in Nat /\ Len(contract) > 0
           /\ Seqs = 1..Len(contract) /\ DOMAIN contract = Seqs
           /\ \A s \in Seqs : StepOk(s)
<1> DEFINE c == contract
<1>1. Shaped(c, Roles) /\ Validate(c, Roles)
  BY Accepted
<1> DEFINE Shape ==
        [kind : {"work", "acquire", "ask"}, uses : Names, needs : SUBSET SUBSET Nat,
         to : SUBSET Nat, want : Names, acquired : Nat, unavailable : Nat,
         back : Nat, max : Nat, checker : Nat, tries : Nat, release : SUBSET Names]
<1>2. c \in Seq(Shape)
  BY <1>1 DEF Shaped, Names
<1> HIDE DEF Shape
<1>3. Len(c) \in Nat /\ DOMAIN c = 1..Len(c) /\ c # <<>>
  BY <1>1, <1>2 DEF Validate
<1>4. Len(c) > 0
  BY <1>2, <1>3
<1>5. ASSUME NEW s \in Seqs PROVE StepOk(s)
  <2>1. s \in DOMAIN c /\ s \in 1..Len(c)
    BY <1>3 DEF Seqs
  <2>2. c[s] \in Shape
    BY <1>2, <2>1
  <2>3. c[s].kind # "acquire" => c[s].want = NoRole /\ c[s].acquired = 0 /\ c[s].unavailable = 0
    BY <1>1, <2>1 DEF Shaped
  <2>4. c[s].to # {} => c[s].to \subseteq (s + 1)..Len(c)
    BY <1>1, <2>1 DEF Validate, DispatchOk
  <2>5. c[s].to \subseteq Seqs
    BY <1>3, <2>1, <2>4 DEF Seqs
  <2>6. c[s].back # 0 => c[s].back < s
    BY <1>1, <2>1 DEF Validate, LoopOk
  <2>7. c[s].kind # "work" => c[s].uses = NoRole
    BY <1>1, <2>1 DEF Validate, RolesOk
  <2>8. c[s].kind = "acquire" =>
            /\ c[s].want # NoRole
            /\ c[s].acquired # c[s].unavailable
            /\ {c[s].acquired, c[s].unavailable} \subseteq (s + 1)..Len(c)
    BY <1>1, <2>1 DEF Validate, AcquireOk
  <2>9. c[s].kind = "acquire" =>
            /\ c[s].acquired \in Seqs /\ c[s].acquired > s
            /\ c[s].unavailable \in Seqs /\ c[s].unavailable > s
    BY <2>1, <2>8, <1>3 DEF Seqs
  <2> QED BY <2>2, <2>3, <2>5, <2>6, <2>7, <2>8, <2>9 DEF StepOk, Shape
<1> QED BY <1>3, <1>4, <1>5 DEF Seqs

-----------------------------------------------------------------------------
(* Views and writes.                                                        *)

LEMMA TxFields ==
    ASSUME NEW I, NEW N, NEW t \in TxOf(I, N)
    PROVE  /\ t.pc \in Places /\ t.seq \in I \cup {0} /\ t.who \in Whoever
           /\ t.res \in SUBSET Verdicts /\ t.w \in Rewrites(I)
           /\ t.grab \in SUBSET Nodes /\ t.drop \in SUBSET Nodes
           /\ t.assigned \in SUBSET (N \X Nodes) /\ t.given \in SUBSET N
BY DEF TxOf

LEMMA RewritesAre ==
    ASSUME NEW I, NEW w \in Rewrites(I)
    PROVE  /\ DOMAIN w \in SUBSET I
           /\ \A s \in DOMAIN w : w[s] \in Row
           /\ w = [s \in DOMAIN w |-> w[s]]
BY DEF Rewrites

LEMMA MakeRewrites ==
    ASSUME NEW I, NEW D \in SUBSET I, NEW w \in [D -> Row]
    PROVE  w \in Rewrites(I)
BY DEF Rewrites

LEMMA ClosedIs ==
    ASSUME NEW I, NEW N
    PROVE  /\ Closed \in TxOf(I, N) /\ Closed.pc = "idle" /\ Closed.seq = 0 /\ Closed.who = NoNode
           /\ DOMAIN Closed.w = {} /\ Closed.grab = {} /\ Closed.drop = {}
           /\ Closed.assigned = {} /\ Closed.given = {}
<1>1. NoWrites \in [{} -> Row]
  BY DEF NoWrites
<1>2. NoWrites \in Rewrites(I) /\ DOMAIN NoWrites = {}
  BY <1>1, MakeRewrites
<1> QED BY <1>2 DEF Closed, TxOf, Places, Whoever

LEMMA ViewIs ==
    ASSUME Typed, NEW h \in Handlers
    PROVE  /\ View(h) \in [Seqs -> Row]
           /\ DOMAIN tx[h].w \in SUBSET Seqs
           /\ \A s \in DOMAIN tx[h].w : View(h)[s] = tx[h].w[s]
           /\ \A s \in Seqs \ DOMAIN tx[h].w : View(h)[s] = row[s]
<1>1. tx[h].w \in Rewrites(Seqs) /\ row \in [Seqs -> Row]
  BY TxFields DEF Typed
<1>2. DOMAIN tx[h].w \in SUBSET Seqs /\ \A s \in DOMAIN tx[h].w : tx[h].w[s] \in Row
  BY <1>1, RewritesAre
<1>3. \A s \in Seqs : row[s] \in Row
  BY <1>1
<1>4. View(h) = [s \in Seqs |-> IF s \in DOMAIN tx[h].w THEN tx[h].w[s] ELSE row[s]]
  BY DEF View
<1> QED BY <1>2, <1>3, <1>4

\* u is transaction h after it has written v, S at least.
Written(h, S, v, u) ==
    /\ DOMAIN u.w \in SUBSET Seqs
    /\ DOMAIN tx[h].w \cup S \subseteq DOMAIN u.w
    /\ DOMAIN u.w = DOMAIN tx[h].w \cup Writes(h, S, v)
    /\ \A s \in DOMAIN u.w : u.w[s] = v[s]
    /\ \A s \in Seqs \ DOMAIN u.w : v[s] = row[s]

\* u is t but for its place, its writes, what it gives up.
SameNodes(t, u) ==
    /\ u.seq = t.seq /\ u.who = t.who /\ u.res = t.res
    /\ u.grab = t.grab /\ u.drop = t.drop /\ u.assigned = t.assigned /\ u.given = t.given

LEMMA WroteIs ==
    ASSUME Typed, NEW h \in Handlers, NEW S \in SUBSET Seqs, NEW v \in [Seqs -> Row],
           NEW pc \in Places
    PROVE  /\ Wrote(h, S, v, pc) \in TxOf(Seqs, Names)
           /\ Wrote(h, S, v, pc).pc = pc
           /\ Written(h, S, v, Wrote(h, S, v, pc))
           /\ SameNodes(tx[h], Wrote(h, S, v, pc))
<1> DEFINE D == DOMAIN tx[h].w \cup Writes(h, S, v)
           W == [s \in D |-> v[s]]
<1>1. tx[h] \in TxOf(Seqs, Names)
  BY DEF Typed
<1>2. D \in SUBSET Seqs /\ S \subseteq D
  BY ViewIs DEF Writes
<1>3. W \in [D -> Row]
  BY <1>2
<1>4. W \in Rewrites(Seqs)
  BY <1>2, <1>3, MakeRewrites
<1>5. \A s \in Seqs \ D : v[s] = row[s]
  BY ViewIs DEF Writes
<1>6. Wrote(h, S, v, pc) = [tx[h] EXCEPT !.pc = pc, !.w = W]
  BY DEF Wrote
<1>7. DOMAIN W = D /\ \A s \in D : W[s] = v[s]
  OBVIOUS
<1> HIDE DEF D, W
<1>8. LET u == [tx[h] EXCEPT !.pc = pc, !.w = W]
      IN  /\ u \in TxOf(Seqs, Names) /\ u.pc = pc /\ u.w = W
          /\ u.seq = tx[h].seq /\ u.who = tx[h].who /\ u.res = tx[h].res
          /\ u.grab = tx[h].grab /\ u.drop = tx[h].drop
          /\ u.assigned = tx[h].assigned /\ u.given = tx[h].given
  <2> DEFINE T == TxOf(Seqs, Names)
             t == tx[h]
  <2>1. t \in T
    BY <1>1
  <2> QED BY <2>1, <1>4 DEF TxOf
<1> QED BY <1>2, <1>5, <1>6, <1>7, <1>8 DEF D, Written, SameNodes

-----------------------------------------------------------------------------
(* What the rewrites of rows do.                                            *)

\* v is u with some pending steps skipped.
Skips(u, v) ==
    \A s \in Seqs : \/ v[s] = u[s]
                    \/ u[s].state = "PENDING" /\ v[s] = [u[s] EXCEPT !.state = "SKIPPED"]

LEMMA RowFields ==
    ASSUME NEW x \in Row
    PROVE  /\ x.state \in {"ABSENT", "PENDING", "CLAIMED", "ASKED", "DONE", "SKIPPED", "FAILED"}
           /\ x.attempt \in Nat /\ x.chosen \in BOOLEAN /\ x.node \in Whoever
BY DEF Row, Whoever

LEMMA RowState ==
    ASSUME NEW x \in Row,
           NEW st \in {"ABSENT", "PENDING", "CLAIMED", "ASKED", "DONE", "SKIPPED", "FAILED"}
    PROVE  LET y == [x EXCEPT !.state = st]
           IN  /\ y \in Row /\ y.state = st
               /\ y.attempt = x.attempt /\ y.chosen = x.chosen /\ y.node = x.node
BY DEF Row

LEMMA RowNode ==
    ASSUME NEW x \in Row, NEW n \in Whoever
    PROVE  LET y == [x EXCEPT !.node = n]
           IN  /\ y \in Row /\ y.node = n
               /\ y.attempt = x.attempt /\ y.chosen = x.chosen /\ y.state = x.state
BY DEF Row, Whoever

LEMMA RowAgain ==
    ASSUME NEW x \in Row, NEW a \in Nat
    PROVE  LET y == [x EXCEPT !.state = "PENDING", !.attempt = a]
           IN  /\ y \in Row /\ y.state = "PENDING"
               /\ y.attempt = a /\ y.chosen = x.chosen /\ y.node = x.node
BY DEF Row

LEMMA PropagateSkips ==
    ASSUME NEW v \in [Seqs -> Row]
    PROVE  Propagate(v) \in [Seqs -> Row] /\ Skips(v, Propagate(v))
<1>1. PICK D : Propagate(v) = [s \in Seqs |-> IF v[s].state = "PENDING" /\ D[s]
                                              THEN [v[s] EXCEPT !.state = "SKIPPED"] ELSE v[s]]
  BY Zenon DEF Propagate
<1>2. \A s \in Seqs : v[s] \in Row /\ [v[s] EXCEPT !.state = "SKIPPED"] \in Row
  BY RowState
<1> QED BY <1>1, <1>2 DEF Skips

LEMMA SkipPendingSkips ==
    ASSUME NEW v \in [Seqs -> Row], NEW S
    PROVE  /\ SkipPending(v, S) \in [Seqs -> Row] /\ Skips(v, SkipPending(v, S))
           /\ \A s \in Seqs \cap S : SkipPending(v, S)[s].state # "PENDING"
<1>1. \A s \in Seqs : v[s] \in Row /\ LET y == [v[s] EXCEPT !.state = "SKIPPED"]
                                      IN  y \in Row /\ y.state = "SKIPPED"
  BY RowState
<1> QED BY <1>1 DEF Skips, SkipPending

\* Of each step, what skipping may have changed.
LEMMA SkippedRow ==
    ASSUME NEW u \in [Seqs -> Row], NEW v \in [Seqs -> Row], Skips(u, v), NEW s \in Seqs
    PROVE  /\ v[s].chosen = u[s].chosen /\ v[s].node = u[s].node /\ v[s].attempt = u[s].attempt
           /\ v[s].state = u[s].state \/ (u[s].state = "PENDING" /\ v[s].state = "SKIPPED")
<1>1. u[s] \in Row
  OBVIOUS
<1>2. LET y == [u[s] EXCEPT !.state = "SKIPPED"]
      IN  y.state = "SKIPPED" /\ y.attempt = u[s].attempt /\ y.chosen = u[s].chosen /\ y.node = u[s].node
  BY <1>1, RowState
<1> QED BY <1>2 DEF Skips

LEMMA AgainIs ==
    ASSUME NEW v \in [Seqs -> Row], NEW S, NEW a \in Nat
    PROVE  /\ Again(v, S, a) \in [Seqs -> Row]
           /\ \A s \in Seqs \cap S : /\ Again(v, S, a)[s].state = "PENDING"
                                     /\ Again(v, S, a)[s].chosen = v[s].chosen
                                     /\ Again(v, S, a)[s].node = v[s].node
           /\ \A s \in Seqs \ S : Again(v, S, a)[s] = v[s]
<1>1. \A s \in Seqs : v[s] \in Row /\ LET y == [v[s] EXCEPT !.state = "PENDING", !.attempt = a]
                                      IN  /\ y \in Row /\ y.state = "PENDING"
                                          /\ y.chosen = v[s].chosen /\ y.node = v[s].node
  BY RowAgain
<1> QED BY <1>1 DEF Again

\* A chosen end lives and is marked, the other ends do not wait any more, what
\* else changes is skipped.
LEMMA DispatchedIs ==
    ASSUME NEW v \in [Seqs -> Row], NEW to \in SUBSET Seqs, NEW t \in to
    PROVE  LET d == Dispatched(v, to, t)
           IN  /\ d \in [Seqs -> Row]
               /\ d[t].chosen
               /\ \A s \in to \ {t} : d[s].state # "PENDING"
               /\ \A s \in Seqs :
                   /\ s # t => d[s].chosen = v[s].chosen
                   /\ d[s].node = v[s].node
                   /\ \/ d[s].state = v[s].state
                      \/ v[s].state = "PENDING" /\ d[s].state = "SKIPPED"
                      \/ s = t /\ v[s].state = "SKIPPED" /\ d[s].state = "PENDING"
<1> DEFINE live == IF v[t].state = "SKIPPED" THEN "PENDING" ELSE v[t].state
           r == [v EXCEPT ![t].chosen = TRUE, ![t].state = IF @ = "SKIPPED" THEN "PENDING" ELSE @]
           k == SkipPending(r, to \ {t})
<1>1. v[t] \in Row /\ t \in Seqs
  OBVIOUS
<1>2. r = [v EXCEPT ![t] = [v[t] EXCEPT !.chosen = TRUE, !.state = live]]
  BY <1>1
<1>3. LET y == [v[t] EXCEPT !.chosen = TRUE, !.state = live]
      IN  y \in Row /\ y.chosen = TRUE /\ y.state = live /\ y.node = v[t].node
  BY <1>1 DEF Row
<1>4. /\ r \in [Seqs -> Row] /\ r[t].chosen = TRUE /\ r[t].state = live /\ r[t].node = v[t].node
      /\ \A s \in Seqs \ {t} : r[s] = v[s]
  BY <1>1, <1>2, <1>3
<1> HIDE DEF r
<1>5. /\ k \in [Seqs -> Row] /\ Skips(r, k)
      /\ \A s \in to \ {t} : k[s].state # "PENDING"
  BY <1>4, SkipPendingSkips
<1>6. Dispatched(v, to, t) = Propagate(k)
  BY DEF Dispatched, r
<1> HIDE DEF k
<1> DEFINE d == Propagate(k)
<1>7. d \in [Seqs -> Row] /\ Skips(k, d)
  BY <1>5, PropagateSkips
<1> HIDE DEF d
<1>8. ASSUME NEW s \in Seqs
      PROVE  /\ d[s].chosen = r[s].chosen /\ d[s].node = r[s].node
             /\ d[s].state = r[s].state \/ (r[s].state = "PENDING" /\ d[s].state = "SKIPPED")
             /\ s \in to \ {t} => d[s].state # "PENDING"
  <2>1. /\ k[s].chosen = r[s].chosen /\ k[s].node = r[s].node
        /\ k[s].state = r[s].state \/ (r[s].state = "PENDING" /\ k[s].state = "SKIPPED")
    BY <1>4, <1>5, SkippedRow
  <2>2. /\ d[s].chosen = k[s].chosen /\ d[s].node = k[s].node
        /\ d[s].state = k[s].state \/ (k[s].state = "PENDING" /\ d[s].state = "SKIPPED")
    BY <1>5, <1>7, SkippedRow
  <2> QED BY <1>5, <2>1, <2>2
<1>9. ASSUME NEW s \in Seqs
      PROVE  /\ s # t => d[s].chosen = v[s].chosen
             /\ d[s].node = v[s].node
             /\ \/ d[s].state = v[s].state
                \/ v[s].state = "PENDING" /\ d[s].state = "SKIPPED"
                \/ s = t /\ v[s].state = "SKIPPED" /\ d[s].state = "PENDING"
                \/ s = t /\ v[s].state = "SKIPPED" /\ d[s].state = "SKIPPED"
  BY <1>4, <1>8
<1>10. d[t].chosen
  BY <1>1, <1>4, <1>8
<1> QED BY <1>6, <1>7, <1>8, <1>9, <1>10 DEF d

LEMMA BoundIs ==
    ASSUME NEW v \in [Seqs -> Row], NEW r, NEW n \in Nodes
    PROVE  /\ Bound(v, r, n) \in [Seqs -> Row]
           /\ \A s \in Seqs : /\ Bound(v, r, n)[s].state = v[s].state
                              /\ Bound(v, r, n)[s].chosen = v[s].chosen
                              /\ contract[s].uses # r => Bound(v, r, n)[s] = v[s]
<1>1. \A s \in Seqs : v[s] \in Row /\ LET y == [v[s] EXCEPT !.node = n]
                                      IN  y \in Row /\ y.state = v[s].state /\ y.chosen = v[s].chosen
  BY RowNode DEF Whoever
<1> QED BY <1>1 DEF Bound

\* d is v after acquire s is done and its other end o does not wait any more.
AcquireEnds(v, s, o, d) ==
    /\ d[s].state = "DONE" /\ d[s].node = v[s].node
    /\ o \in Seqs => d[o].state # "PENDING"
    /\ \A k \in Seqs :
        /\ d[k].chosen = v[k].chosen /\ d[k].node = v[k].node
        /\ k # s => d[k].state = v[k].state \/ (v[k].state = "PENDING" /\ d[k].state = "SKIPPED")

LEMMA AcquireDoneIs ==
    ASSUME NEW v \in [Seqs -> Row], NEW s \in Seqs, NEW o
    PROVE  /\ AcquireDone(v, s, o) \in [Seqs -> Row]
           /\ AcquireEnds(v, s, o, AcquireDone(v, s, o))
<1> DEFINE r == [v EXCEPT ![s].state = "DONE"]
           k == SkipPending(r, {o})
<1>1. LET y == [v[s] EXCEPT !.state = "DONE"]
      IN  y \in Row /\ y.state = "DONE" /\ y.chosen = v[s].chosen /\ y.node = v[s].node
  BY RowState
<1>2. /\ r \in [Seqs -> Row] /\ r[s].state = "DONE" /\ r[s].node = v[s].node /\ r[s].chosen = v[s].chosen
      /\ \A j \in Seqs \ {s} : r[j] = v[j]
  BY <1>1
<1> HIDE DEF r
<1>3. /\ k \in [Seqs -> Row] /\ Skips(r, k)
      /\ \A j \in Seqs \cap {o} : k[j].state # "PENDING"
  BY <1>2, SkipPendingSkips
<1>4. AcquireDone(v, s, o) = Propagate(k)
  BY DEF AcquireDone, r
<1> HIDE DEF k
<1> DEFINE d == Propagate(k)
<1>5. d \in [Seqs -> Row] /\ Skips(k, d)
  BY <1>3, PropagateSkips
<1> HIDE DEF d
<1>6. ASSUME NEW j \in Seqs
      PROVE  /\ d[j].chosen = r[j].chosen /\ d[j].node = r[j].node
             /\ d[j].state = r[j].state \/ (r[j].state = "PENDING" /\ d[j].state = "SKIPPED")
             /\ j = o => d[j].state # "PENDING"
  <2>1. /\ k[j].chosen = r[j].chosen /\ k[j].node = r[j].node
        /\ k[j].state = r[j].state \/ (r[j].state = "PENDING" /\ k[j].state = "SKIPPED")
    BY <1>2, <1>3, SkippedRow
  <2>2. /\ d[j].chosen = k[j].chosen /\ d[j].node = k[j].node
        /\ d[j].state = k[j].state \/ (k[j].state = "PENDING" /\ d[j].state = "SKIPPED")
    BY <1>3, <1>5, SkippedRow
  <2> QED BY <1>3, <2>1, <2>2
<1>7. AcquireEnds(v, s, o, d)
  BY <1>2, <1>6 DEF AcquireEnds
<1> QED BY <1>4, <1>5, <1>7 DEF d

LEMMA RaisedIs ==
    ASSUME NEW v \in [Seqs -> Row]
    PROVE  /\ Raised(v) \in [Seqs -> Row]
           /\ \A s \in Seqs : \/ Raised(v)[s] = v[s]
                              \/ /\ contract[s].kind = "ask" /\ v[s].state = "PENDING"
                                 /\ Raised(v)[s].state = "ASKED"
                                 /\ Raised(v)[s].chosen = v[s].chosen
<1>1. \A s \in Seqs : v[s] \in Row /\ LET y == [v[s] EXCEPT !.state = "ASKED"]
                                      IN  y \in Row /\ y.state = "ASKED" /\ y.chosen = v[s].chosen
  BY RowState
<1> QED BY <1>1 DEF Raised

-----------------------------------------------------------------------------
(* The types stay.                                                          *)

LEMMA TypesKept ==
    ASSUME TypedInv, contract' = contract, row' \in [Seqs -> Row], held' \in SUBSET Nodes,
           assigned' \in SUBSET (Names \X Nodes),
           work' \in [Nodes -> {NoWork} \cup (Seqs \X Nat)],
           tx' \in [Handlers -> TxOf(Seqs, Names)], \A h \in Handlers : Begun(tx'[h]),
           faults' \in 0..MaxFaults, overlap' \in BOOLEAN, yielded' \in SUBSET Names
    PROVE  TypedInv'
<1>1. Seqs' = Seqs /\ Names' = Names
  BY DEF Seqs, Names
<1>2. contract' \in Contracts
  BY DEF TypedInv, Typed
<1>3. Typed'
  BY <1>1, <1>2 DEF Typed
<1>4. ASSUME NEW h \in Handlers PROVE Begun(tx[h])'
  <2>1. Begun(tx'[h])
    OBVIOUS
  <2> QED BY <1>1, <2>1 DEF Begun
<1> QED BY <1>3, <1>4 DEF TypedInv

\* A transaction goes on, and nothing else changes but the work of nodes, the
\* faults, and whether transactions have overlapped.
LEMMA TxMoves ==
    ASSUME TypedInv, NEW h \in Handlers, NEW t \in TxOf(Seqs, Names), Begun(t), Step(h, t),
           UNCHANGED <<contract, tables, yielded>>,
           work' \in [Nodes -> {NoWork} \cup (Seqs \X Nat)],
           faults' \in 0..MaxFaults, overlap' \in BOOLEAN
    PROVE  TypedInv'
<1>1. /\ contract' = contract /\ row' = row /\ held' = held /\ assigned' = assigned
      /\ yielded' = yielded /\ tx' = [tx EXCEPT ![h] = t]
  BY DEF tables, Step
<1>2. row' \in [Seqs -> Row] /\ held' \in SUBSET Nodes /\ assigned' \in SUBSET (Names \X Nodes)
      /\ yielded' \in SUBSET Names
  BY <1>1 DEF TypedInv, Typed
<1>3. tx' \in [Handlers -> TxOf(Seqs, Names)] /\ \A k \in Handlers : Begun(tx'[k])
  <2>1. tx \in [Handlers -> TxOf(Seqs, Names)] /\ \A k \in Handlers : Begun(tx[k])
    BY DEF TypedInv, Typed
  <2> HIDE DEF TypedInv
  <2>2. tx' \in [Handlers -> TxOf(Seqs, Names)]
    BY <1>1, <2>1
  <2>3. \A k \in Handlers : tx'[k] = IF k = h THEN t ELSE tx[k]
    BY <1>1, <2>1
  <2> QED BY <2>1, <2>2, <2>3
<1> QED BY <1>1, <1>2, <1>3, TypesKept

\* A transaction goes on in Handle.
LEMMA TxStays ==
    ASSUME TypedInv, NEW h \in Handlers, NEW t \in TxOf(Seqs, Names), Begun(t), Step(h, t),
           UNCHANGED <<contract, tables, work, faults, history>>
    PROVE  TypedInv'
<1>1. work' \in [Nodes -> {NoWork} \cup (Seqs \X Nat)] /\ faults' \in 0..MaxFaults /\ overlap' \in BOOLEAN
      /\ UNCHANGED <<contract, tables, yielded>>
  BY DEF TypedInv, Typed, history
<1> QED BY <1>1, TxMoves

\* The writes of a transaction that goes on to its effects or beyond.
LEMMA WroteStays ==
    ASSUME TypedInv, NEW h \in Handlers, NEW S \in SUBSET Seqs, NEW v \in [Seqs -> Row],
           NEW pc \in {"acquire", "commit"}, Step(h, Wrote(h, S, v, pc)),
           UNCHANGED <<contract, tables, work, faults, history>>
    PROVE  TypedInv'
<1> DEFINE t == Wrote(h, S, v, pc)
<1>1. t \in TxOf(Seqs, Names) /\ t.pc = pc
  <2>1. Typed /\ pc \in Places
    BY DEF TypedInv, Places
  <2> HIDE DEF TypedInv
  <2> QED BY <2>1, WroteIs
<1>2. Begun(t)
  BY <1>1 DEF Begun
<1> QED BY <1>1, <1>2, TxStays

\* What is true of the step a transaction is about.
LEMMA OfTheStep ==
    ASSUME TypedInv, NEW h \in Handlers, tx[h].pc \in {"back", "effects"}
    PROVE  /\ tx[h].seq \in Seqs /\ StepOk(tx[h].seq)
           /\ DOMAIN tx[h].w = {tx[h].seq} /\ tx[h].w[tx[h].seq].state = "DONE"
           /\ tx[h].grab = {} /\ tx[h].drop = {} /\ tx[h].assigned = {}
<1>1. Begun(tx[h]) /\ contract \in Contracts
  BY DEF TypedInv, Typed
<1> QED BY <1>1, ContractShape DEF Begun

LEMMA TargetIs ==
    ASSUME contract \in Contracts, NEW s \in Seqs, Checked(s) # {}
    PROVE  Target(s) \in Checked(s) /\ Target(s) \in Seqs /\ Target(s) < s
           /\ contract[Target(s)].checker = s
<1>1. Seqs = 1..Len(contract) /\ Len(contract) \in Nat
  BY ContractShape
<1>2. Checked(s) \in SUBSET (1..(s - 1)) /\ s - 1 \in Nat
  BY <1>1 DEF Checked
<1>3. Target(s) \in Checked(s)
  BY <1>2, MostIsMember DEF Target
<1> QED BY <1>1, <1>3 DEF Checked

LEMMA LoopRangeIs ==
    ASSUME contract \in Contracts, NEW s \in Seqs
    PROVE  contract[s].back # 0 => LoopRange(s) \in SUBSET Seqs
<1>1. Seqs = 1..Len(contract) /\ Len(contract) \in Nat /\ StepOk(s)
  BY ContractShape
<1> QED BY <1>1 DEF LoopRange, StepOk

\* What going back writes: the rows R wait again, the others are as before.
GoesBack(h, R, v) ==
    /\ R \in SUBSET Seqs /\ v \in [Seqs -> Row]
    /\ \A s \in R : v[s].state = "PENDING" /\ v[s].chosen = View(h)[s].chosen /\ v[s].node = View(h)[s].node
    /\ \A s \in Seqs \ R : v[s] = View(h)[s]

LEMMA LoopBackIs ==
    ASSUME TypedInv, NEW h \in Handlers, LoopBack(h)
    PROVE  \E v : LET R == LoopRange(tx[h].seq)
                  IN  /\ contract[tx[h].seq].back # 0
                      /\ GoesBack(h, R, v) /\ Free(h, R, v) /\ Step(h, Wrote(h, R, v, "commit"))
<1> DEFINE s == tx[h].seq
           R == LoopRange(s)
           v == Again(View(h), R, View(h)[s].attempt + 1)
<1>1. s \in Seqs /\ StepOk(s) /\ contract \in Contracts /\ contract[s].back # 0
  BY OfTheStep DEF LoopBack, LoopsBack, TypedInv, Typed
<1>2. R \in SUBSET Seqs
  BY <1>1, LoopRangeIs
<1>3. View(h) \in [Seqs -> Row] /\ View(h)[s].attempt + 1 \in Nat
  BY <1>1, ViewIs, RowFields DEF TypedInv
<1>4. GoesBack(h, R, v)
  <2> HIDE DEF R
  <2> QED BY <1>2, <1>3, AgainIs DEF GoesBack
<1> QED BY <1>1, <1>4, Zenon DEF LoopBack

LEMMA ValidateBackIs ==
    ASSUME TypedInv, NEW h \in Handlers, ValidateBack(h)
    PROVE  \E v : LET R == {Target(tx[h].seq), tx[h].seq}
                  IN  /\ Checked(tx[h].seq) # {}
                      /\ GoesBack(h, R, v) /\ Free(h, R, v) /\ Step(h, Wrote(h, R, v, "commit"))
<1> DEFINE s == tx[h].seq
           t == Target(s)
           R == {t, s}
           v == Again(View(h), R, View(h)[t].attempt + 1)
<1>1. s \in Seqs /\ contract \in Contracts /\ Checked(s) # {}
  BY OfTheStep DEF ValidateBack, ValidatesBack, TypedInv, Typed
<1>2. R \in SUBSET Seqs /\ t \in Seqs
  BY <1>1, TargetIs
<1>3. View(h) \in [Seqs -> Row] /\ View(h)[t].attempt + 1 \in Nat
  BY <1>2, ViewIs, RowFields DEF TypedInv
<1>4. GoesBack(h, R, v)
  <2> HIDE DEF R
  <2> QED BY <1>2, <1>3, AgainIs DEF GoesBack
<1> QED BY <1>1, <1>4, Zenon DEF ValidateBack

\* u is t with other leases to give up, and roles G given.
GivesUp(t, D, G, u) ==
    /\ u.drop = D /\ u.given = t.given \cup G
    /\ u.pc = t.pc /\ u.seq = t.seq /\ u.who = t.who /\ u.res = t.res /\ u.w = t.w
    /\ u.grab = t.grab /\ u.assigned = t.assigned

LEMMA WithDrop ==
    ASSUME NEW I, NEW N, NEW t \in TxOf(I, N), NEW D \in SUBSET Nodes, NEW G \in SUBSET N
    PROVE  /\ [t EXCEPT !.drop = D, !.given = @ \cup G] \in TxOf(I, N)
           /\ GivesUp(t, D, G, [t EXCEPT !.drop = D, !.given = @ \cup G])
BY DEF TxOf, GivesUp

\* u is t with node n taken for role r.
Takes(t, n, A, r, u) ==
    /\ u.grab = t.grab \cup {n} /\ u.drop = t.drop \ {n}
    /\ u.assigned = A /\ u.given = t.given \ {r}
    /\ u.pc = t.pc /\ u.seq = t.seq /\ u.who = t.who /\ u.res = t.res /\ u.w = t.w

WithNode(t, n, A, r) ==
    [t EXCEPT !.grab = @ \cup {n}, !.drop = @ \ {n}, !.assigned = A, !.given = @ \ {r}]

LEMMA WithGrab ==
    ASSUME NEW I, NEW N, NEW t \in TxOf(I, N), NEW n \in Nodes, NEW A \in SUBSET (N \X Nodes), NEW r
    PROVE  /\ WithNode(t, n, A, r) \in TxOf(I, N)
           /\ Takes(t, n, A, r, WithNode(t, n, A, r))
BY DEF TxOf, Takes, WithNode

LEMMA WithPlace ==
    ASSUME NEW I, NEW N, NEW t \in TxOf(I, N), NEW pc \in Places
    PROVE  /\ [t EXCEPT !.pc = pc] \in TxOf(I, N)
           /\ [t EXCEPT !.pc = pc].pc = pc /\ [t EXCEPT !.pc = pc].w = t.w
           /\ SameNodes(t, [t EXCEPT !.pc = pc])
BY DEF TxOf, SameNodes

\* u is t with its step failed.
Fails(t, u) ==
    /\ u.pc = "commit" /\ DOMAIN u.w = DOMAIN t.w
    /\ \A s \in DOMAIN u.w :
        IF s = t.seq THEN /\ u.w[s].state = "FAILED"
                          /\ u.w[s].chosen = t.w[s].chosen /\ u.w[s].node = t.w[s].node
                     ELSE u.w[s] = t.w[s]

\* A step of a transaction that fails is failed, or all is undone.
LEMMA FailedIs ==
    ASSUME Typed, NEW h \in Handlers
    PROVE  \/ Failed(h, tx[h]) = Closed
           \/ /\ Failed(h, tx[h]) \in TxOf(Seqs, Names)
              /\ Fails(tx[h], Failed(h, tx[h])) /\ SameNodes(tx[h], Failed(h, tx[h]))
<1> DEFINE t == tx[h]
           q == tx[h].seq
           W == [t.w EXCEPT ![q].state = "FAILED"]
<1>1. t \in TxOf(Seqs, Names) /\ t.w \in Rewrites(Seqs)
  BY TxFields DEF Typed
<1>2. DOMAIN t.w \in SUBSET Seqs /\ (\A s \in DOMAIN t.w : t.w[s] \in Row)
      /\ t.w = [s \in DOMAIN t.w |-> t.w[s]]
  BY <1>1, RewritesAre
<1>3. \A s \in DOMAIN t.w : LET y == [t.w[s] EXCEPT !.state = "FAILED"]
                            IN  y \in Row /\ y.state = "FAILED" /\ y.chosen = t.w[s].chosen
                                /\ y.node = t.w[s].node
  BY <1>2, RowState
<1>4. W = [s \in DOMAIN t.w |-> IF s = q THEN [t.w[s] EXCEPT !.state = "FAILED"] ELSE t.w[s]]
  BY <1>2
<1>5. /\ DOMAIN W = DOMAIN t.w
      /\ \A s \in DOMAIN W : /\ W[s] \in Row
                             /\ s # q => W[s] = t.w[s]
                             /\ s = q => /\ W[s].state = "FAILED" /\ W[s].chosen = t.w[s].chosen
                                         /\ W[s].node = t.w[s].node
  BY <1>2, <1>3, <1>4
<1>6. W \in [DOMAIN t.w -> Row]
  BY <1>4, <1>5
<1>7. W \in Rewrites(Seqs)
  BY <1>2, <1>6, MakeRewrites
<1>8. Failed(h, t) = Closed \/ Failed(h, t) = [t EXCEPT !.pc = "commit", !.w = W]
  BY DEF Failed
<1> HIDE DEF W
<1> DEFINE u == [t EXCEPT !.pc = "commit", !.w = W]
<1>9. /\ u \in TxOf(Seqs, Names) /\ u.pc = "commit" /\ u.w = W /\ SameNodes(t, u)
  BY <1>1, <1>7 DEF TxOf, Places, SameNodes
<1> HIDE DEF u
<1>10. Fails(t, u)
  BY <1>5, <1>9 DEF Fails
<1>11. Failed(h, t) = Closed \/ Failed(h, t) = u
  BY <1>8 DEF u
<1> QED BY <1>9, <1>10, <1>11

LEMMA KnownIs ==
    ASSUME Typed, NEW h \in Handlers
    PROVE  Known(h) \in SUBSET (Names \X Nodes)
BY TxFields DEF Typed, Known

\* Effects: the fork and the releases of the step.
DispatchOf(h, S, v) ==
    LET to == contract[tx[h].seq].to
    IN  /\ to = {} => v = View(h)
        /\ to # {} => \E e \in to : S = {e} /\ v = Dispatched(View(h), to, e)

LEMMA EffectsIs ==
    ASSUME TypedInv, NEW h \in Handlers, Effects(h)
    PROVE  \E v \in [Seqs -> Row], S \in SUBSET Seqs, t \in TxOf(Seqs, Names) :
              /\ DispatchOf(h, S, v)
              /\ Free(h, S, v) /\ Step(h, t)
              /\ GivesUp(Wrote(h, S, v, "acquire"), Released(h) \cap held, contract[tx[h].seq].release, t)
<1> DEFINE q == tx[h].seq
           to == contract[q].to
           e == TheResult(h).pick
           v == IF to = {} THEN View(h) ELSE Dispatched(View(h), to, e)
           S == IF to = {} THEN {} ELSE {e}
           u == Wrote(h, S, v, "acquire")
           t == [u EXCEPT !.drop = Released(h) \cap held, !.given = @ \cup contract[q].release]
<1>1. S \subseteq to /\ Free(h, S, v) /\ Step(h, t)
  BY DEF Effects
<1>2. q \in Seqs /\ StepOk(q)
  BY OfTheStep DEF Effects
<1>3. to \in SUBSET Seqs /\ contract[q].release \in SUBSET Names
  BY <1>2 DEF StepOk
<1>4. Typed /\ "acquire" \in Places
  BY DEF TypedInv, Places
<1>5. View(h) \in [Seqs -> Row]
  BY <1>4, ViewIs
<1>6. v \in [Seqs -> Row]
  <2>1. ASSUME to # {} PROVE Dispatched(View(h), to, e) \in [Seqs -> Row]
    <3>1. e \in to
      BY <1>1, <2>1
    <3> HIDE DEF to, e
    <3> QED BY <1>3, <1>5, <3>1, DispatchedIs
  <2> QED BY <1>5, <2>1
<1>7. S \in SUBSET Seqs
  BY <1>1, <1>3
<1>8. DispatchOf(h, S, v)
  BY <1>1 DEF DispatchOf
<1>9. Released(h) \cap held \in SUBSET Nodes
  BY <1>4 DEF Typed
<1>10. u \in TxOf(Seqs, Names)
  <2> HIDE DEF v, S
  <2> QED BY <1>4, <1>6, <1>7, WroteIs
<1>11. t \in TxOf(Seqs, Names) /\ GivesUp(u, Released(h) \cap held, contract[q].release, t)
  <2> HIDE DEF u
  <2> QED BY <1>3, <1>9, <1>10, WithDrop
<1>12. GivesUp(Wrote(h, S, v, "acquire"), Released(h) \cap held, contract[tx[h].seq].release, t)
  BY <1>11
<1> HIDE DEF v, S, t
<1> QED BY <1>1, <1>6, <1>7, <1>8, <1>11, <1>12

LEMMA AcquirableIs ==
    ASSUME TypedInv, NEW h \in Handlers, Acquirable(h) # {}
    PROVE  LET s == Least(Acquirable(h))
           IN  /\ s \in Seqs /\ StepOk(s)
               /\ contract[s].kind = "acquire" /\ View(h)[s].state = "PENDING"
<1>1. Seqs = 1..Len(contract) /\ Len(contract) \in Nat /\ \A s \in Seqs : StepOk(s)
  BY ContractShape DEF TypedInv, Typed
<1>2. Acquirable(h) \in SUBSET Nat
  BY <1>1 DEF Acquirable
<1>3. Least(Acquirable(h)) \in Acquirable(h)
  BY <1>2, LeastIsMember
<1> QED BY <1>1, <1>3 DEF Acquirable

\* Acquire: node n is taken for the role that acquire s wants.
AcquiredRows(h, s, n) ==
    AcquireDone(Bound([View(h) EXCEPT ![s].node = n], contract[s].want, n), s, contract[s].unavailable)

LEMMA AcquireIs ==
    ASSUME TypedInv, NEW h \in Handlers, Acquire(h)
    PROVE  \E n \in Grabbable(h), t \in TxOf(Seqs, Names) :
              LET s == Least(Acquirable(h))
                  v == AcquiredRows(h, s, n)
              IN  /\ s \in Seqs /\ n \in Nodes /\ v \in [Seqs -> Row]
                  /\ Free(h, {s}, v) /\ Step(h, t)
                  /\ Takes(Wrote(h, {s}, v, "acquire"), n, Known(h) \cup {<<contract[s].want, n>>},
                           contract[s].want, t)
<1> DEFINE s == Least(Acquirable(h))
           st == contract[s]
<1>1. s \in Seqs /\ StepOk(s)
  BY AcquirableIs DEF Acquire
<1>2. PICK n \in Grabbable(h) :
        /\ Free(h, {s}, AcquiredRows(h, s, n))
        /\ Step(h, WithNode(Wrote(h, {s}, AcquiredRows(h, s, n), "acquire"), n,
                            Known(h) \cup {<<st.want, n>>}, st.want))
  BY DEF Acquire, AcquiredRows, WithNode
<1> DEFINE r == [View(h) EXCEPT ![s].node = n]
           v == AcquiredRows(h, s, n)
           u == Wrote(h, {s}, v, "acquire")
           A == Known(h) \cup {<<st.want, n>>}
           t == WithNode(u, n, A, st.want)
<1>3. n \in Nodes
  BY DEF Grabbable
<1>4. Typed /\ "acquire" \in Places
  BY DEF TypedInv, Places
<1>5. View(h) \in [Seqs -> Row]
  BY <1>4, ViewIs
<1>6. r \in [Seqs -> Row]
  <2>1. [View(h)[s] EXCEPT !.node = n] \in Row
    BY <1>1, <1>3, <1>5, RowNode DEF Whoever
  <2> QED BY <1>1, <1>5, <2>1
<1>7. v \in [Seqs -> Row]
  <2> DEFINE b == Bound(r, st.want, n)
  <2>1. b \in [Seqs -> Row]
    <3> HIDE DEF r
    <3> QED BY <1>3, <1>6, BoundIs
  <2>2. v = AcquireDone(b, s, st.unavailable)
    BY DEF AcquiredRows
  <2> HIDE DEF b, v
  <2> QED BY <1>1, <2>1, <2>2, AcquireDoneIs
<1>8. u \in TxOf(Seqs, Names)
  <2> HIDE DEF v
  <2>1. {s} \in SUBSET Seqs
    BY <1>1
  <2> QED BY <1>4, <1>7, <2>1, WroteIs
<1>9. A \in SUBSET (Names \X Nodes)
  <2>1. st.want \in Names
    BY <1>1 DEF StepOk
  <2> QED BY <1>3, <1>4, <2>1, KnownIs
<1>10. t \in TxOf(Seqs, Names) /\ Takes(u, n, A, st.want, t)
  <2> HIDE DEF u, A
  <2> QED BY <1>3, <1>8, <1>9, WithGrab
<1>11. Free(h, {s}, v) /\ Step(h, t) /\ Takes(Wrote(h, {s}, v, "acquire"), n, A, st.want, t)
  BY <1>2, <1>10
<1> HIDE DEF t
<1> QED BY <1>1, <1>3, <1>7, <1>10, <1>11

LEMMA AcquireNothingIs ==
    ASSUME TypedInv, NEW h \in Handlers, AcquireNothing(h)
    PROVE  LET s == Least(Acquirable(h))
               v == AcquireDone([View(h) EXCEPT ![s].node = NoNode], s, contract[s].acquired)
           IN  /\ s \in Seqs /\ v \in [Seqs -> Row]
               /\ Free(h, {s}, v) /\ Step(h, Wrote(h, {s}, v, "acquire"))
<1> DEFINE s == Least(Acquirable(h))
           r == [View(h) EXCEPT ![s].node = NoNode]
<1>1. s \in Seqs
  BY AcquirableIs DEF AcquireNothing
<1>2. View(h) \in [Seqs -> Row]
  BY ViewIs DEF TypedInv
<1>3. r \in [Seqs -> Row]
  <2>1. [View(h)[s] EXCEPT !.node = NoNode] \in Row
    BY <1>1, <1>2, RowNode DEF Whoever
  <2> QED BY <1>1, <1>2, <2>1
<1>4. AcquireDone(r, s, contract[s].acquired) \in [Seqs -> Row]
  <2> HIDE DEF r
  <2> QED BY <1>1, <1>3, AcquireDoneIs
<1> QED BY <1>1, <1>4 DEF AcquireNothing

-----------------------------------------------------------------------------
(* The types, action by action.                                             *)

\* u is a transaction that has just begun, about the end of step s.
Begins(s, n, x, pc, u) ==
    /\ u.pc = pc /\ u.seq = s /\ u.who = n
    /\ DOMAIN u.w = {s} /\ u.w[s] = x
    /\ u.grab = {} /\ u.drop = {} /\ u.assigned = {} /\ u.given = yielded

Beginning(s, n, res, x, pc) == [Opened(s, n, res, x) EXCEPT !.pc = pc]

LEMMA BeginningIs ==
    ASSUME Typed, NEW s \in Seqs, NEW n \in Whoever, NEW res \in Results(s), NEW x \in Row,
           NEW pc \in Places
    PROVE  /\ Beginning(s, n, res, x, pc) \in TxOf(Seqs, Names)
           /\ Begins(s, n, x, pc, Beginning(s, n, res, x, pc))
           /\ Opened(s, n, res, x) = Beginning(s, n, res, x, "back")
<1> DEFINE W == [i \in {s} |-> x]
<1>1. /\ DOMAIN W = {s} /\ W[s] = x /\ W \in [{s} -> Row]
  OBVIOUS
<1>2. W \in Rewrites(Seqs)
  BY <1>1, MakeRewrites
<1> HIDE DEF W
<1>3. {res} \in SUBSET Verdicts
  <2>1. StepOk(s) /\ contract[s].to \subseteq Nat
    BY ContractShape DEF Typed, StepOk
  <2>2. contract[s].to \cup {0} \subseteq Nat
    BY <2>1
  <2>3. res \in [met : BOOLEAN, passed : BOOLEAN, pick : contract[s].to \cup {0}]
    BY DEF Results
  <2> QED BY <2>2, <2>3 DEF Verdicts
<1>4. yielded \in SUBSET Names
  BY DEF Typed
<1> DEFINE u == Beginning(s, n, res, x, pc)
<1>5. Opened(s, n, res, x) = [pc |-> "back", seq |-> s, who |-> n, res |-> {res}, w |-> W,
                             grab |-> {}, drop |-> {}, assigned |-> {}, given |-> yielded]
  <2>1. Opened(s, n, res, x) = [Closed EXCEPT !.pc = "back", !.seq = s, !.who = n, !.res = {res}, !.w = W,
                                              !.given = yielded]
    BY DEF Opened, W
  <2> DEFINE c == NoWrites
  <2>2. Closed = [pc |-> "idle", seq |-> 0, who |-> NoNode, res |-> {}, w |-> c, grab |-> {}, drop |-> {},
                  assigned |-> {}, given |-> {}]
    BY DEF Closed
  <2> HIDE DEF c
  <2> QED BY <2>1, <2>2
<1>6. u = [pc |-> pc, seq |-> s, who |-> n, res |-> {res}, w |-> W, grab |-> {}, drop |-> {},
           assigned |-> {}, given |-> yielded]
  BY <1>5 DEF Beginning
<1>7. u \in TxOf(Seqs, Names)
  BY <1>2, <1>3, <1>4, <1>6 DEF TxOf
<1>8. Begins(s, n, x, pc, u)
  BY <1>1, <1>6 DEF Begins
<1>9. Opened(s, n, res, x) = Beginning(s, n, res, x, "back")
  BY <1>5 DEF Beginning
<1> QED BY <1>7, <1>8, <1>9

\* A report or an answer opens a transaction with the end of its step.
LEMMA ReportIs ==
    ASSUME TypedInv, NEW h \in Handlers,
           \/ \E n \in Nodes : ReportOk(h, n) \/ ReportFailed(h, n)
           \/ \E s \in Seqs : Answer(h, s)
    PROVE  /\ ~Open(h) /\ Overlaps /\ UNCHANGED <<contract, tables, work, faults>>
           /\ \E s \in Seqs, n \in Whoever, x \in Row, pc \in {"back", "commit"},
                 u \in TxOf(Seqs, Names) :
                /\ Begins(s, n, x, pc, u) /\ Step(h, u) /\ Unlocked(s)
                /\ row[s].state \in {"CLAIMED", "ASKED"}
                /\ x.state \in {"DONE", "FAILED"} /\ (pc = "back" => x.state = "DONE")
                /\ (pc = "commit" => x.state = "FAILED")
                /\ x.chosen = row[s].chosen /\ x.node = row[s].node
<1> DEFINE Ended(s, n, x, pc, u) ==
        /\ Begins(s, n, x, pc, u) /\ Step(h, u) /\ Unlocked(s)
        /\ row[s].state \in {"CLAIMED", "ASKED"}
        /\ x.state \in {"DONE", "FAILED"} /\ (pc = "back" => x.state = "DONE")
        /\ (pc = "commit" => x.state = "FAILED")
        /\ x.chosen = row[s].chosen /\ x.node = row[s].node
<1>1. Typed
  BY DEF TypedInv
<1>2. ASSUME NEW s \in Seqs, NEW n \in Whoever, NEW st \in {"DONE", "FAILED"}, NEW pc \in {"back", "commit"},
             NEW res \in Results(s), Unlocked(s), row[s].state \in {"CLAIMED", "ASKED"},
             pc = "back" => st = "DONE", pc = "commit" => st = "FAILED",
             Step(h, Beginning(s, n, res, [row[s] EXCEPT !.state = st], pc))
      PROVE  \E i \in Seqs, m \in Whoever, x \in Row, q \in {"back", "commit"}, u \in TxOf(Seqs, Names) :
                Ended(i, m, x, q, u)
  <2> DEFINE x == [row[s] EXCEPT !.state = st]
             u == Beginning(s, n, res, x, pc)
  <2>1. x \in Row /\ x.state = st /\ x.chosen = row[s].chosen /\ x.node = row[s].node
    <3>1. row[s] \in Row
      BY <1>1 DEF Typed
    <3>2. st \in {"ABSENT", "PENDING", "CLAIMED", "ASKED", "DONE", "SKIPPED", "FAILED"}
      OBVIOUS
    <3> QED BY <3>1, <3>2, RowState
  <2>2. u \in TxOf(Seqs, Names) /\ Begins(s, n, x, pc, u)
    <3>1. pc \in Places
      BY DEF Places
    <3> HIDE DEF x
    <3> QED BY <1>1, <2>1, <3>1, BeginningIs
  <2>3. Ended(s, n, x, pc, u)
    BY <1>2, <2>1, <2>2
  <2> HIDE DEF x, u, Ended
  <2> QED BY <2>1, <2>2, <2>3
<1>3. ASSUME NEW s \in Seqs, NEW n \in Whoever, NEW res \in Results(s), NEW x \in Row
      PROVE  Opened(s, n, res, x) = Beginning(s, n, res, x, "back")
  BY <1>1, <1>3, BeginningIs DEF Places
<1>4. \A s \in Seqs : [row[s] EXCEPT !.state = "DONE"] \in Row
  BY <1>1, RowState DEF Typed
<1>5. ASSUME NEW n \in Nodes, ReportOk(h, n) \/ ReportFailed(h, n)
      PROVE  work[n][1] \in Seqs /\ n \in Whoever
  <2>1. work[n] \in Seqs \X Nat
    BY <1>1, <1>5 DEF Typed, ReportOk, ReportFailed, Reportable
  <2> QED BY <2>1 DEF Whoever
<1>6. CASE \E n \in Nodes : ReportOk(h, n)
  <2>1. PICK n \in Nodes : ReportOk(h, n)
    BY <1>6
  <2> DEFINE s == work[n][1]
  <2>2. s \in Seqs /\ n \in Whoever
    BY <1>5, <2>1
  <2>3. PICK res \in Results(s) : Step(h, Opened(s, n, res, [row[s] EXCEPT !.state = "DONE"]))
    BY <2>1 DEF ReportOk
  <2>4. /\ ~Open(h) /\ Overlaps /\ UNCHANGED <<contract, tables, work, faults>>
        /\ Unlocked(s) /\ row[s].state \in {"CLAIMED", "ASKED"}
    BY <2>1 DEF ReportOk, Accepts
  <2> HIDE DEF s, Ended
  <2>5. Step(h, Beginning(s, n, res, [row[s] EXCEPT !.state = "DONE"], "back"))
    BY <1>3, <1>4, <2>2, <2>3
  <2>6. \E i \in Seqs, m \in Whoever, x \in Row, q \in {"back", "commit"}, u \in TxOf(Seqs, Names) :
            Ended(i, m, x, q, u)
    BY <1>2, <2>2, <2>4, <2>5
  <2> QED BY <2>4, <2>6 DEF Ended
<1>7. CASE \E n \in Nodes : ReportFailed(h, n)
  <2>1. PICK n \in Nodes : ReportFailed(h, n)
    BY <1>7
  <2> DEFINE s == work[n][1]
  <2>2. s \in Seqs /\ n \in Whoever
    BY <1>5, <2>1
  <2>3. PICK res \in Results(s) :
            Step(h, Beginning(s, n, res, [row[s] EXCEPT !.state = "FAILED"], "commit"))
    BY <2>1 DEF ReportFailed, Beginning
  <2>4. /\ ~Open(h) /\ Overlaps /\ UNCHANGED <<contract, tables, work, faults>>
        /\ Unlocked(s) /\ row[s].state \in {"CLAIMED", "ASKED"}
    BY <2>1 DEF ReportFailed, Accepts
  <2> HIDE DEF s, Ended
  <2>5. \E i \in Seqs, m \in Whoever, x \in Row, q \in {"back", "commit"}, u \in TxOf(Seqs, Names) :
            Ended(i, m, x, q, u)
    BY <1>2, <2>2, <2>3, <2>4
  <2> QED BY <2>4, <2>5 DEF Ended
<1>8. CASE \E s \in Seqs : Answer(h, s)
  <2>1. PICK s \in Seqs : Answer(h, s)
    BY <1>8
  <2>2. PICK res \in Results(s) : Step(h, Opened(s, NoNode, res, [row[s] EXCEPT !.state = "DONE"]))
    BY <2>1 DEF Answer
  <2>3. /\ ~Open(h) /\ Overlaps /\ UNCHANGED <<contract, tables, work, faults>>
        /\ Unlocked(s) /\ row[s].state \in {"CLAIMED", "ASKED"}
    BY <2>1 DEF Answer
  <2>4. NoNode \in Whoever
    BY DEF Whoever
  <2> HIDE DEF Ended
  <2>5. Step(h, Beginning(s, NoNode, res, [row[s] EXCEPT !.state = "DONE"], "back"))
    BY <1>3, <1>4, <2>2, <2>4
  <2>6. \E i \in Seqs, m \in Whoever, x \in Row, q \in {"back", "commit"}, u \in TxOf(Seqs, Names) :
            Ended(i, m, x, q, u)
    BY <1>2, <2>3, <2>4, <2>5
  <2> QED BY <2>3, <2>6 DEF Ended
<1> QED BY <1>6, <1>7, <1>8

LEMMA ReportTyped ==
    ASSUME TypedInv, NEW h \in Handlers,
           \/ \E n \in Nodes : ReportOk(h, n) \/ ReportFailed(h, n)
           \/ \E s \in Seqs : Answer(h, s)
    PROVE  TypedInv'
<1>1. PICK s \in Seqs, n \in Whoever, x \in Row, pc \in {"back", "commit"}, u \in TxOf(Seqs, Names) :
            /\ Begins(s, n, x, pc, u) /\ Step(h, u) /\ (pc = "back" => x.state = "DONE")
  BY ReportIs, Zenon
<1>2. Begun(u)
  BY <1>1 DEF Begun, Begins
<1>3. UNCHANGED <<contract, tables, work, faults>> /\ Overlaps
  BY ReportIs
<1>4. /\ UNCHANGED <<contract, tables, yielded>> /\ overlap' \in BOOLEAN
      /\ work' \in [Nodes -> {NoWork} \cup (Seqs \X Nat)] /\ faults' \in 0..MaxFaults
  BY <1>3 DEF Overlaps, TypedInv, Typed
<1> QED BY <1>1, <1>2, <1>4, TxMoves

LEMMA HandleTyped ==
    ASSUME TypedInv, NEW h \in Handlers,
           \/ LoopBack(h) \/ ValidateBack(h) \/ GoOn(h) \/ Effects(h) \/ NamesNoTarget(h)
           \/ Acquire(h) \/ AcquireWithoutLease(h) \/ AcquireNothing(h) \/ RaiseAsks(h)
    PROVE  TypedInv'
<1>1. UNCHANGED <<contract, tables, work, faults, history>>
  BY DEF LoopBack, ValidateBack, GoOn, Effects, NamesNoTarget, Acquire, AcquireWithoutLease,
         AcquireNothing, RaiseAsks
<1>2. Typed /\ tx[h] \in TxOf(Seqs, Names) /\ Begun(tx[h])
  BY DEF TypedInv, Typed
<1>3. CASE LoopBack(h)
  <2>1. PICK v : GoesBack(h, LoopRange(tx[h].seq), v)
                 /\ Step(h, Wrote(h, LoopRange(tx[h].seq), v, "commit"))
    BY <1>3, LoopBackIs
  <2> QED BY <1>1, <2>1, WroteStays DEF GoesBack
<1>4. CASE ValidateBack(h)
  <2> DEFINE R == {Target(tx[h].seq), tx[h].seq}
  <2>1. PICK v : GoesBack(h, R, v) /\ Step(h, Wrote(h, R, v, "commit"))
    BY <1>4, ValidateBackIs
  <2> HIDE DEF R
  <2> QED BY <1>1, <2>1, WroteStays DEF GoesBack
<1>5. CASE GoOn(h)
  <2> DEFINE u == [tx[h] EXCEPT !.pc = "effects"]
  <2>1. u \in TxOf(Seqs, Names) /\ u.pc = "effects" /\ u.w = tx[h].w /\ SameNodes(tx[h], u)
    <3>1. "effects" \in Places
      BY DEF Places
    <3> QED BY <1>2, <3>1, WithPlace
  <2>2. Step(h, u) /\ tx[h].pc = "back"
    BY <1>5 DEF GoOn
  <2> HIDE DEF u
  <2>3. Begun(u)
    BY <1>2, <2>1, <2>2 DEF Begun, SameNodes
  <2> QED BY <1>1, <2>1, <2>2, <2>3, TxStays
<1>6. CASE Effects(h)
  <2>1. PICK v \in [Seqs -> Row], S \in SUBSET Seqs, t \in TxOf(Seqs, Names) :
            /\ Step(h, t)
            /\ GivesUp(Wrote(h, S, v, "acquire"), Released(h) \cap held, contract[tx[h].seq].release, t)
    BY <1>6, EffectsIs
  <2>2. t.pc = "acquire"
    BY <1>2, <2>1, WroteIs DEF GivesUp, Places
  <2>3. Begun(t)
    BY <2>2 DEF Begun
  <2> QED BY <1>1, <2>1, <2>3, TxStays
<1>7. CASE NamesNoTarget(h) \/ AcquireWithoutLease(h)
  <2> DEFINE u == Failed(h, tx[h])
  <2>1. Step(h, u)
    BY <1>7 DEF NamesNoTarget, AcquireWithoutLease
  <2>2. u = Closed \/ (u \in TxOf(Seqs, Names) /\ u.pc = "commit")
    BY <1>2, FailedIs DEF Fails
  <2> HIDE DEF u
  <2>3. u \in TxOf(Seqs, Names) /\ Begun(u)
    BY <2>2, ClosedIs DEF Begun
  <2> QED BY <1>1, <2>1, <2>3, TxStays
<1>8. CASE Acquire(h)
  <2>1. PICK n \in Grabbable(h), t \in TxOf(Seqs, Names) :
            LET s == Least(Acquirable(h))
                v == AcquiredRows(h, s, n)
            IN  /\ s \in Seqs /\ n \in Nodes /\ v \in [Seqs -> Row]
                /\ Step(h, t)
                /\ Takes(Wrote(h, {s}, v, "acquire"), n, Known(h) \cup {<<contract[s].want, n>>},
                         contract[s].want, t)
    BY <1>8, AcquireIs
  <2> DEFINE s == Least(Acquirable(h))
             v == AcquiredRows(h, s, n)
             S == {s}
             A == Known(h) \cup {<<contract[s].want, n>>}
             r == contract[s].want
  <2>2. /\ S \in SUBSET Seqs /\ n \in Nodes /\ v \in [Seqs -> Row]
        /\ Step(h, t) /\ Takes(Wrote(h, S, v, "acquire"), n, A, r, t)
    BY <2>1
  <2> HIDE DEF s, v, S, A, r
  <2>3. t.pc = "acquire"
    BY <1>2, <2>2, WroteIs DEF Takes, Places
  <2>4. Begun(t)
    BY <2>3 DEF Begun
  <2> QED BY <1>1, <2>2, <2>4, TxStays
<1>9. CASE AcquireNothing(h)
  <2> DEFINE s == Least(Acquirable(h))
             v == AcquireDone([View(h) EXCEPT ![s].node = NoNode], s, contract[s].acquired)
             S == {s}
  <2>1. S \in SUBSET Seqs /\ v \in [Seqs -> Row] /\ Step(h, Wrote(h, S, v, "acquire"))
    BY <1>9, AcquireNothingIs
  <2> HIDE DEF v, S
  <2> QED BY <1>1, <2>1, WroteStays
<1>10. CASE RaiseAsks(h)
  <2> DEFINE v == Raised(View(h))
             S == {}
  <2>1. v \in [Seqs -> Row]
    BY <1>2, ViewIs, RaisedIs
  <2>2. Step(h, Wrote(h, S, v, "commit")) /\ S \in SUBSET Seqs
    BY <1>10 DEF RaiseAsks
  <2> HIDE DEF v, S
  <2> QED BY <1>1, <2>1, <2>2, WroteStays
<1> QED BY <1>3, <1>4, <1>5, <1>6, <1>7, <1>8, <1>9, <1>10

LEMMA ClaimIs ==
    ASSUME TypedInv, NEW n \in Nodes, Claim(n)
    PROVE  \E s \in Seqs :
              /\ row[s].state = "PENDING" /\ row[s].node = n
              /\ \A h \in Handlers : s \notin DOMAIN tx[h].w
              /\ row' = [row EXCEPT ![s] = [row[s] EXCEPT !.state = "CLAIMED"]]
              /\ work' = [work EXCEPT ![n] = <<s, row[s].attempt>>]
              /\ UNCHANGED <<contract, held, assigned, tx, faults, history>>
<1> DEFINE s == Least(Claimable(n))
<1>1. Seqs \subseteq Nat
  BY ContractShape DEF TypedInv, Typed
<1>2. s \in Claimable(n)
  <2>1. Claimable(n) \in SUBSET Nat /\ Claimable(n) # {}
    BY <1>1 DEF Claimable, Claim
  <2> QED BY <2>1, LeastIsMember
<1>3. /\ row' = [row EXCEPT ![s].state = "CLAIMED"]
      /\ work' = [work EXCEPT ![n] = <<s, row[s].attempt>>]
      /\ UNCHANGED <<contract, held, assigned, tx, faults, history>>
  BY DEF Claim
<1> HIDE DEF s
<1> QED BY <1>2, <1>3 DEF Claimable

LEMMA WorkerTyped ==
    ASSUME TypedInv, NEW n \in Nodes, Work(n) \/ ReportRefused(n)
    PROVE  TypedInv'
<1>1. Typed /\ \A h \in Handlers : Begun(tx[h])
  BY DEF TypedInv
<1>2. \A s \in Seqs : row[s] \in Row /\ row[s].attempt \in Nat
  BY <1>1, RowFields DEF Typed
<1>3. CASE Claim(n)
  <2>1. PICK s \in Seqs :
            /\ row' = [row EXCEPT ![s] = [row[s] EXCEPT !.state = "CLAIMED"]]
            /\ work' = [work EXCEPT ![n] = <<s, row[s].attempt>>]
            /\ UNCHANGED <<contract, held, assigned, tx, faults, history>>
    BY <1>3, ClaimIs
  <2>2. [row[s] EXCEPT !.state = "CLAIMED"] \in Row
    BY <1>2, RowState
  <2>3. row' \in [Seqs -> Row]
    BY <1>1, <2>1, <2>2 DEF Typed
  <2>4. work' \in [Nodes -> {NoWork} \cup (Seqs \X Nat)]
    BY <1>1, <1>2, <2>1 DEF Typed
  <2> QED BY <1>1, <2>1, <2>3, <2>4, TypesKept DEF Typed, history
<1>4. CASE Redeliver(n)
  <2> DEFINE s == Least(Claimed(n))
  <2>1. s \in Seqs
    <3>1. Claimed(n) \in SUBSET Nat /\ Claimed(n) # {}
      BY <1>1, <1>4, ContractShape DEF Typed, Claimed, Redeliver
    <3>2. s \in Claimed(n)
      BY <3>1, LeastIsMember
    <3> QED BY <3>2 DEF Claimed
  <2>2. /\ work' = [work EXCEPT ![n] = <<s, row[s].attempt>>]
        /\ UNCHANGED <<contract, tables, tx, faults, history>>
    BY <1>4 DEF Redeliver
  <2> HIDE DEF s
  <2>3. work' \in [Nodes -> {NoWork} \cup (Seqs \X Nat)]
    BY <1>1, <1>2, <2>1, <2>2 DEF Typed
  <2> QED BY <1>1, <2>2, <2>3, TypesKept DEF Typed, history, tables
<1>5. CASE Abandon(n) \/ ReportRefused(n)
  <2>1. work' = [work EXCEPT ![n] = NoWork] /\ UNCHANGED <<contract, tables, tx, faults, history>>
    BY <1>5 DEF Abandon, ReportRefused
  <2>2. work' \in [Nodes -> {NoWork} \cup (Seqs \X Nat)]
    BY <1>1, <2>1 DEF Typed
  <2> QED BY <1>1, <2>1, <2>2, TypesKept DEF Typed, history, tables
<1> QED BY <1>3, <1>4, <1>5 DEF Work

LEMMA EndTyped ==
    ASSUME TypedInv, NEW h \in Handlers, Commit(h) \/ Rollback(h)
    PROVE  TypedInv'
<1>1. Typed /\ \A k \in Handlers : Begun(tx[k])
  BY DEF TypedInv
<1>2. Step(h, Closed) /\ work' = [m \in Nodes |-> IF m = tx[h].who THEN NoWork ELSE work[m]]
  BY DEF Commit, Rollback
<1>3. work' \in [Nodes -> {NoWork} \cup (Seqs \X Nat)]
  BY <1>1, <1>2 DEF Typed
<1>4. Closed \in TxOf(Seqs, Names) /\ Begun(Closed)
  BY ClosedIs DEF Begun
<1>5. tx' \in [Handlers -> TxOf(Seqs, Names)] /\ \A k \in Handlers : Begun(tx'[k])
  <2>1. tx' = [tx EXCEPT ![h] = Closed] /\ tx \in [Handlers -> TxOf(Seqs, Names)]
    BY <1>1, <1>2 DEF Step, Typed
  <2>2. tx' \in [Handlers -> TxOf(Seqs, Names)]
    BY <1>4, <2>1
  <2>3. \A k \in Handlers : tx'[k] = IF k = h THEN Closed ELSE tx[k]
    BY <2>1
  <2> QED BY <1>1, <1>4, <2>2, <2>3
<1>6. CASE Rollback(h)
  <2>1. faults' = faults + 1 /\ faults < MaxFaults /\ UNCHANGED <<contract, tables, history>>
    BY <1>6 DEF Rollback
  <2>2. faults' \in 0..MaxFaults
    BY <1>1, <2>1, Limits DEF Typed
  <2> QED BY <1>1, <1>3, <1>5, <2>1, <2>2, TypesKept DEF Typed, tables, history
<1>7. CASE Commit(h)
  <2>1. /\ row' = View(h) /\ held' = HeldBy(h) /\ assigned' = Known(h) /\ yielded' = tx[h].given
        /\ UNCHANGED <<contract, faults, overlap>>
    BY <1>7 DEF Commit
  <2>2. /\ tx[h].grab \in SUBSET Nodes /\ tx[h].drop \in SUBSET Nodes /\ tx[h].given \in SUBSET Names
        /\ held \in SUBSET Nodes
    BY <1>1, TxFields DEF Typed
  <2>3. held' \in SUBSET Nodes
    BY <2>1, <2>2 DEF HeldBy
  <2>4. row' \in [Seqs -> Row] /\ assigned' \in SUBSET (Names \X Nodes)
    BY <1>1, <2>1, ViewIs, KnownIs
  <2>5. yielded' \in SUBSET Names /\ faults' \in 0..MaxFaults /\ overlap' \in BOOLEAN /\ contract' = contract
    BY <1>1, <2>1, <2>2 DEF Typed
  <2> QED BY <1>3, <1>5, <2>3, <2>4, <2>5, TypesKept
<1> QED BY <1>6, <1>7

\* The first transaction of the Run.
FirstTx ==
    [Closed EXCEPT !.pc = "acquire", !.grab = {Assignment[r] : r \in Roles},
                   !.w = [s \in Seqs |-> FirstRow(contract, s)]]

FirstTxIs(u) ==
    /\ u.pc = "acquire" /\ u.seq = 0 /\ u.who = NoNode
    /\ u.w = [s \in Seqs |-> FirstRow(contract, s)]
    /\ u.grab = {Assignment[r] : r \in Roles} /\ u.drop = {} /\ u.assigned = {} /\ u.given = {}

LEMMA FirstRowIs ==
    ASSUME contract \in Contracts, NEW s \in Seqs
    PROVE  LET x == FirstRow(contract, s)
           IN  /\ x \in Row /\ x.state = "PENDING" /\ x.chosen = FALSE
               /\ contract[s].kind = "acquire" => x.node = NoNode
<1>1. StepOk(s)
  BY ContractShape
<1>2. contract[s].kind = "acquire" => contract[s].uses \notin Roles
  BY <1>1, Matched DEF StepOk
<1>3. (IF contract[s].uses \in Roles THEN Assignment[contract[s].uses] ELSE NoNode) \in Whoever
  BY Matched DEF Whoever
<1> QED BY <1>2, <1>3 DEF FirstRow, Row, Whoever

LEMMA InitIs ==
    ASSUME Init
    PROVE  /\ TypedInv
           /\ contract \in Contracts /\ held = {} /\ yielded = {} /\ overlap = FALSE
           /\ assigned = {<<r, Assignment[r]>> : r \in Roles}
           /\ \A s \in Seqs : /\ row[s] \in Row /\ row[s].state = "ABSENT"
                              /\ row[s].chosen = FALSE
                              /\ contract[s].kind = "acquire" => row[s].node = NoNode
           /\ Creator \in Handlers /\ FirstTxIs(tx[Creator])
           /\ \A h \in Handlers : h # Creator => tx[h] = Closed
<1>1. contract \in Contracts /\ Creator \in Handlers
  BY Fleet DEF Init, Creator
<1>2. \A s \in Seqs : LET x == FirstRow(contract, s)
                      IN  /\ x \in Row /\ x.state = "PENDING" /\ x.chosen = FALSE
                          /\ contract[s].kind = "acquire" => x.node = NoNode
  BY <1>1, FirstRowIs
<1>3. \A s \in Seqs : LET x == [FirstRow(contract, s) EXCEPT !.state = "ABSENT"]
                      IN  /\ x \in Row /\ x.state = "ABSENT" /\ x.chosen = FALSE
                          /\ contract[s].kind = "acquire" => x.node = NoNode
  <2>1. \A x \in Row : LET y == [x EXCEPT !.state = "ABSENT"]
                       IN  y \in Row /\ y.state = "ABSENT" /\ y.chosen = x.chosen /\ y.node = x.node
    BY RowState
  <2> QED BY <1>2, <2>1
<1>4. row = [s \in Seqs |-> [FirstRow(contract, s) EXCEPT !.state = "ABSENT"]]
  BY DEF Init
<1>5. /\ row \in [Seqs -> Row]
      /\ \A s \in Seqs : /\ row[s] \in Row /\ row[s].state = "ABSENT" /\ row[s].chosen = FALSE
                         /\ contract[s].kind = "acquire" => row[s].node = NoNode
  BY <1>3, <1>4
<1>6. FirstTx \in TxOf(Seqs, Names) /\ FirstTxIs(FirstTx)
  <2> DEFINE W == [s \in Seqs |-> FirstRow(contract, s)]
             G == {Assignment[r] : r \in Roles}
             c == NoWrites
  <2>1. W \in [Seqs -> Row]
    BY <1>2
  <2>2. W \in Rewrites(Seqs)
    BY <2>1, MakeRewrites
  <2>3. G \in SUBSET Nodes
    BY Matched
  <2>4. Closed = [pc |-> "idle", seq |-> 0, who |-> NoNode, res |-> {}, w |-> c, grab |-> {}, drop |-> {},
                  assigned |-> {}, given |-> {}]
    BY DEF Closed
  <2>5. FirstTx = [Closed EXCEPT !.pc = "acquire", !.grab = G, !.w = W]
    BY DEF FirstTx
  <2> HIDE DEF W, G, c
  <2>6. FirstTx = [pc |-> "acquire", seq |-> 0, who |-> NoNode, res |-> {}, w |-> W, grab |-> G,
                   drop |-> {}, assigned |-> {}, given |-> {}]
    BY <2>4, <2>5
  <2>7. FirstTx \in TxOf(Seqs, Names)
    BY <2>2, <2>3, <2>6 DEF TxOf, Places, Whoever
  <2> QED BY <2>6, <2>7 DEF FirstTxIs, W, G
<1>7. tx = [h \in Handlers |-> IF h = Creator THEN FirstTx ELSE Closed]
  BY DEF Init, FirstTx
<1>8. /\ tx \in [Handlers -> TxOf(Seqs, Names)] /\ tx[Creator] = FirstTx
      /\ \A h \in Handlers : h # Creator => tx[h] = Closed
  BY <1>1, <1>6, <1>7, ClosedIs
<1>9. Begun(FirstTx) /\ Begun(Closed)
  BY <1>6, ClosedIs DEF Begun, FirstTxIs
<1>10. /\ held = {} /\ yielded = {} /\ overlap = FALSE /\ faults = 0
       /\ assigned = {<<r, Assignment[r]>> : r \in Roles} /\ work = [n \in Nodes |-> NoWork]
  BY DEF Init
<1>11. assigned \in SUBSET (Names \X Nodes)
  BY <1>10, Matched DEF Names
<1>12. Typed
  <2>1. work \in [Nodes -> {NoWork} \cup (Seqs \X Nat)] /\ held \in SUBSET Nodes /\ yielded \in SUBSET Names
        /\ overlap \in BOOLEAN
    BY <1>10
  <2>2. faults \in 0..MaxFaults
    BY <1>10, Limits
  <2> QED BY <1>1, <1>5, <1>8, <1>11, <2>1, <2>2 DEF Typed
<1>13. TypedInv
  BY <1>8, <1>9, <1>12 DEF TypedInv
<1> QED BY <1>1, <1>5, <1>6, <1>8, <1>10, <1>13

LEMMA StutterTyped ==
    ASSUME TypedInv, UNCHANGED vars
    PROVE  TypedInv'
<1>1. Typed /\ \A h \in Handlers : Begun(tx[h])
  BY DEF TypedInv
<1>2. /\ contract' = contract /\ row' = row /\ held' = held /\ assigned' = assigned /\ work' = work
      /\ tx' = tx /\ faults' = faults /\ overlap' = overlap /\ yielded' = yielded
  BY DEF vars, tables, history
<1> QED BY <1>1, <1>2, TypesKept DEF Typed

\* The tables of a Run, the Workers and the transactions keep their types.
THEOREM GraphTyped == Spec => []TypedInv
<1>1. Init => TypedInv
  BY InitIs
<1>2. TypedInv /\ [Next]_vars => TypedInv'
  <2> SUFFICES ASSUME TypedInv, [Next]_vars PROVE TypedInv'
    OBVIOUS
  <2>1. ASSUME NEW n \in Nodes, Work(n) \/ Report(n) PROVE TypedInv'
    BY <2>1, WorkerTyped, ReportTyped DEF Report
  <2>2. ASSUME NEW h \in Handlers, Handle(h) \/ Rollback(h) PROVE TypedInv'
    BY <2>2, HandleTyped, EndTyped DEF Handle
  <2>3. ASSUME NEW h \in Handlers, NEW s \in Seqs, Answer(h, s) PROVE TypedInv'
    BY <2>3, ReportTyped
  <2> QED BY <2>1, <2>2, <2>3, StutterTyped DEF Next
<1> QED BY <1>1, <1>2, PTL DEF Spec

THEOREM GraphTypes == Spec => []TypeOK
<1>1. TypedInv => TypeOK
  <2> SUFFICES ASSUME TypedInv PROVE TypeOK
    OBVIOUS
  <2>1. Typed
    BY DEF TypedInv
  <2>2. Len(contract) > 0
    BY <2>1, ContractShape DEF Typed
  <2>3. ASSUME NEW h \in Handlers
        PROVE  /\ tx[h].pc \in {"idle", "back", "effects", "acquire", "commit"}
               /\ tx[h].seq \in Seqs \cup {0} /\ tx[h].who \in Nodes \cup {NoNode}
               /\ DOMAIN tx[h].w \subseteq Seqs
               /\ \A s \in DOMAIN tx[h].w : tx[h].w[s] \in Row
               /\ tx[h].grab \cup tx[h].drop \subseteq Nodes
    <3>1. tx[h] \in TxOf(Seqs, Names)
      BY <2>1 DEF Typed
    <3>2. tx[h].w \in Rewrites(Seqs)
      BY <3>1, TxFields
    <3> QED BY <3>1, <3>2, TxFields, RewritesAre DEF Places, Whoever
  <2>4. \A n \in Nodes : work[n] = NoWork \/ work[n][1] \in Seqs
    <3>1. \A n \in Nodes : work[n] \in {NoWork} \cup (Seqs \X Nat)
      BY <2>1 DEF Typed
    <3> QED BY <3>1
  <2>5. \A p \in assigned : p[2] \in Nodes
    BY <2>1 DEF Typed
  <2> QED BY <2>1, <2>2, <2>3, <2>4, <2>5 DEF TypeOK, Typed
<1> QED BY <1>1, GraphTyped, PTL

-----------------------------------------------------------------------------
(* What the Run holds. Unless two transactions have been open at once, the  *)
(* leases are in order, and will be when the open transaction commits.      *)

RolesIn(A, n) == {p[1] : p \in {q \in A : q[2] = n}}

HeldOk(H, A, Y) ==
    /\ \A n \in H : RolesIn(A, n) # {}
    /\ \A n \in H, r \in Y : RolesIn(A, n) # {r}
    /\ MaxLeases # 0 => Cardinality(H) <= MaxLeases

HeldOf(t) == (held \ t.drop) \cup t.grab
KnownOf(t) == IF t.assigned = {} THEN assigned ELSE t.assigned
TxHeld(t) == HeldOk(HeldOf(t), KnownOf(t), t.given)

HoldInv ==
    ~overlap => /\ \A h, k \in Handlers : Open(h) /\ Open(k) => h = k
                /\ HeldOk(held, assigned, yielded)
                /\ \A h \in Handlers : Open(h) => TxHeld(tx[h])

LEMMA RolesInIs ==
    ASSUME NEW N, NEW A \in SUBSET (N \X Nodes), NEW n
    PROVE  \A r : r \in RolesIn(A, n) <=> <<r, n>> \in A
<1>1. ASSUME NEW r, r \in RolesIn(A, n) PROVE <<r, n>> \in A
  <2>1. PICK q \in A : q[2] = n /\ q[1] = r
    BY <1>1 DEF RolesIn
  <2> QED BY <2>1
<1>2. ASSUME NEW r, <<r, n>> \in A PROVE r \in RolesIn(A, n)
  <2> DEFINE q == <<r, n>>
  <2>1. q \in A /\ q[1] = r /\ q[2] = n
    BY <1>2
  <2> HIDE DEF q
  <2> QED BY <2>1 DEF RolesIn
<1> QED BY <1>1, <1>2

\* An open transaction goes on, or is undone.
LEMMA HoldMoves ==
    ASSUME TypedInv, HoldInv, NEW h \in Handlers, NEW t, Open(h), Step(h, t),
           t = Closed \/ (~overlap => TxHeld(t)),
           UNCHANGED <<contract, tables, history>>
    PROVE  HoldInv'
<1>1. /\ held' = held /\ assigned' = assigned /\ yielded' = yielded /\ overlap' = overlap
      /\ \A k \in Handlers : tx'[k] = IF k = h THEN t ELSE tx[k]
  BY DEF tables, history, Step, TypedInv, Typed
<1>2. SUFFICES ASSUME ~overlap
               PROVE  /\ \A k, l \in Handlers : Open(k)' /\ Open(l)' => k = l
                      /\ HeldOk(held, assigned, yielded)'
                      /\ \A k \in Handlers : Open(k)' => TxHeld(tx[k])'
  BY <1>1 DEF HoldInv
<1>3. \A k \in Handlers : Open(k) => k = h
  BY <1>2 DEF HoldInv
<1>4. \A k \in Handlers : Open(k)' => k = h
  BY <1>1, <1>3 DEF Open
<1>5. HeldOk(held, assigned, yielded)'
  BY <1>1, <1>2 DEF HoldInv, HeldOk
<1>6. ASSUME Open(h)' PROVE TxHeld(tx[h])'
  <2>1. tx'[h] = t /\ t # Closed
    BY <1>1, <1>6, ClosedIs DEF Open
  <2>2. TxHeld(t)
    BY <1>2, <2>1
  <2> QED BY <1>1, <2>1, <2>2 DEF TxHeld, HeldOf, KnownOf, HeldOk
<1> QED BY <1>4, <1>5, <1>6

\* A transaction that takes and gives up nothing.
LEMMA HoldStays ==
    ASSUME TypedInv, HoldInv, NEW h \in Handlers, NEW t, Open(h), Step(h, t), SameNodes(tx[h], t),
           UNCHANGED <<contract, tables, history>>
    PROVE  HoldInv'
<1>1. ~overlap => TxHeld(tx[h])
  BY DEF HoldInv
<1>2. TxHeld(tx[h]) => TxHeld(t)
  BY DEF TxHeld, HeldOf, KnownOf, SameNodes
<1> QED BY <1>1, <1>2, HoldMoves

\* A transaction begins with the leases as they are.
LEMMA HoldReport ==
    ASSUME TypedInv, HoldInv, NEW h \in Handlers,
           \/ \E n \in Nodes : ReportOk(h, n) \/ ReportFailed(h, n)
           \/ \E s \in Seqs : Answer(h, s)
    PROVE  HoldInv'
<1>1. ~Open(h) /\ Overlaps /\ UNCHANGED <<contract, tables, work, faults>>
  BY ReportIs
<1>2. PICK s \in Seqs, n \in Whoever, x \in Row, pc \in {"back", "commit"}, u \in TxOf(Seqs, Names) :
            Begins(s, n, x, pc, u) /\ Step(h, u)
  BY ReportIs, Zenon
<1>3. /\ held' = held /\ assigned' = assigned /\ yielded' = yielded
      /\ overlap' = (overlap \/ \E k \in Handlers : Open(k))
      /\ \A k \in Handlers : tx'[k] = IF k = h THEN u ELSE tx[k]
  BY <1>1, <1>2 DEF tables, Overlaps, Step, TypedInv, Typed
<1>4. SUFFICES ASSUME ~overlap, \A k \in Handlers : ~Open(k)
               PROVE  /\ \A k, l \in Handlers : Open(k)' /\ Open(l)' => k = l
                      /\ HeldOk(held, assigned, yielded)'
                      /\ \A k \in Handlers : Open(k)' => TxHeld(tx[k])'
  BY <1>3 DEF HoldInv
<1>5. \A k \in Handlers : Open(k)' => k = h
  BY <1>3, <1>4 DEF Open
<1>6. HeldOk(held, assigned, yielded)
  BY <1>4 DEF HoldInv
<1>7. TxHeld(u)
  <2>1. HeldOf(u) = held /\ KnownOf(u) = assigned /\ u.given = yielded
    BY <1>2 DEF Begins, HeldOf, KnownOf
  <2> QED BY <1>6, <2>1 DEF TxHeld
<1>8. HeldOk(held, assigned, yielded)'
  BY <1>3, <1>6 DEF HeldOk
<1>9. TxHeld(tx[h])'
  BY <1>3, <1>7 DEF TxHeld, HeldOf, KnownOf, HeldOk
<1> QED BY <1>5, <1>8, <1>9

\* Effects: a node whose only role is given up is given up.
LEMMA HoldEffects ==
    ASSUME TypedInv, HoldInv, NEW h \in Handlers, Effects(h)
    PROVE  HoldInv'
<1>1. PICK v \in [Seqs -> Row], S \in SUBSET Seqs, t \in TxOf(Seqs, Names) :
            /\ Step(h, t)
            /\ GivesUp(Wrote(h, S, v, "acquire"), Released(h) \cap held, contract[tx[h].seq].release, t)
  BY EffectsIs
<1>2. Open(h) /\ UNCHANGED <<contract, tables, history>> /\ tx[h].pc = "effects"
  BY DEF Effects, Open
<1> DEFINE out == contract[tx[h].seq].release
           A == Known(h)
<1>3. Typed /\ "acquire" \in Places
  BY DEF TypedInv, Places
<1>4. tx[h].grab = {} /\ tx[h].drop = {} /\ tx[h].assigned = {}
  BY <1>2, OfTheStep
<1>5. SameNodes(tx[h], Wrote(h, S, v, "acquire"))
  BY <1>3, WroteIs
<1>6. HeldOf(tx[h]) = held /\ KnownOf(tx[h]) = A /\ A \in SUBSET (Names \X Nodes)
  BY <1>3, <1>4, KnownIs DEF HeldOf, KnownOf, Known
<1>7. HeldOf(t) = held \ Released(h) /\ KnownOf(t) = A /\ t.given = tx[h].given \cup out
  BY <1>1, <1>4, <1>5, <1>6 DEF GivesUp, SameNodes, HeldOf, KnownOf
<1>8. ASSUME ~overlap PROVE TxHeld(t)
  <2>1. HeldOk(held, A, tx[h].given)
    BY <1>2, <1>6, <1>8 DEF HoldInv, TxHeld
  <2> DEFINE H == held \ Released(h)
  <2>2. \A n \in H : RolesIn(A, n) # {}
    BY <2>1 DEF HeldOk
  <2>3. ASSUME NEW n \in H, NEW r \in tx[h].given \cup out, RolesIn(A, n) = {r} PROVE FALSE
    <3>1. r \in out
      BY <2>1, <2>3 DEF HeldOk
    <3> DEFINE of(R) == {p[2] : p \in {q \in A : q[1] \in R}}
               rest == {p[1] : p \in A} \ out
    <3>2. <<r, n>> \in A
      BY <1>6, <2>3, RolesInIs
    <3>3. n \in of(out)
      <4> DEFINE q == <<r, n>>
      <4>1. q \in A /\ q[1] \in out /\ q[2] = n
        BY <3>1, <3>2
      <4> HIDE DEF q, A, out
      <4> QED BY <4>1
    <3>4. n \notin of(rest)
      <4>1. SUFFICES ASSUME n \in of(rest) PROVE FALSE
        OBVIOUS
      <4>2. PICK q \in A : q[1] \in rest /\ q[2] = n
        BY <4>1
      <4>3. <<q[1], n>> \in A
        <5>1. q = <<q[1], q[2]>>
          BY <1>6
        <5> QED BY <4>2, <5>1
      <4>4. q[1] \in RolesIn(A, n)
        BY <1>6, <4>3, RolesInIs
      <4> QED BY <2>3, <3>1, <4>2, <4>4
    <3>5. Released(h) = of(out) \ of(rest)
      BY DEF Released
    <3> HIDE DEF of, rest
    <3> QED BY <3>3, <3>4, <3>5
  <2>4. MaxLeases # 0 => Cardinality(H) <= MaxLeases
    <3>1. IsFiniteSet(held)
      BY <1>3, Fleet, FS_Subset DEF Typed
    <3>2. IsFiniteSet(H) /\ Cardinality(H) <= Cardinality(held)
      BY <3>1, FS_Subset
    <3>3. Cardinality(held) \in Nat /\ Cardinality(H) \in Nat
      BY <3>1, <3>2, FS_CardinalityType
    <3> QED BY <2>1, <3>2, <3>3, Limits DEF HeldOk
  <2> HIDE DEF H, A, out
  <2>5. HeldOk(H, A, tx[h].given \cup out)
    BY <2>2, <2>3, <2>4 DEF HeldOk
  <2> QED BY <1>7, <2>5 DEF TxHeld, H, out
<1> QED BY <1>1, <1>2, <1>8, HoldMoves

\* Acquire: the node taken gets a role, and the Run is not too wide for it.
LEMMA HoldAcquire ==
    ASSUME TypedInv, HoldInv, NEW h \in Handlers, Acquire(h)
    PROVE  HoldInv'
<1>1. PICK n \in Grabbable(h), t \in TxOf(Seqs, Names) :
            LET s == Least(Acquirable(h))
                v == AcquiredRows(h, s, n)
            IN  /\ s \in Seqs /\ n \in Nodes /\ v \in [Seqs -> Row]
                /\ Step(h, t)
                /\ Takes(Wrote(h, {s}, v, "acquire"), n, Known(h) \cup {<<contract[s].want, n>>},
                         contract[s].want, t)
  BY AcquireIs
<1> DEFINE s == Least(Acquirable(h))
           S == {s}
           v == AcquiredRows(h, s, n)
           r == contract[s].want
           A == Known(h)
           B == A \cup {<<r, n>>}
<1>2. Open(h) /\ UNCHANGED <<contract, tables, history>>
  BY DEF Acquire, Open
<1>3. Typed /\ "acquire" \in Places
  BY DEF TypedInv, Places
<1>4. S \in SUBSET Seqs /\ v \in [Seqs -> Row] /\ Takes(Wrote(h, S, v, "acquire"), n, B, r, t)
  BY <1>1
<1>5. r \in Names
  BY <1>1, AcquirableIs DEF Acquire, StepOk
<1>6. A \in SUBSET (Names \X Nodes) /\ B \in SUBSET (Names \X Nodes)
  BY <1>1, <1>3, <1>5, KnownIs
<1>7. KnownOf(tx[h]) = A /\ HeldOf(tx[h]) = HeldBy(h)
  BY DEF KnownOf, Known, HeldOf, HeldBy
<1> HIDE DEF v, S, r, A
<1>8. SameNodes(tx[h], Wrote(h, S, v, "acquire"))
  BY <1>3, <1>4, WroteIs
<1>9. n \notin HeldBy(h) /\ (MaxLeases # 0 => ~(Cardinality(HeldBy(h)) >= MaxLeases))
  BY <1>1 DEF Grabbable
<1>10. HeldOf(t) = HeldBy(h) \cup {n} /\ KnownOf(t) = B /\ t.given = tx[h].given \ {r}
  <2>1. t.grab = tx[h].grab \cup {n} /\ t.drop = tx[h].drop \ {n} /\ t.assigned = B
        /\ t.given = tx[h].given \ {r}
    BY <1>4, <1>8 DEF Takes, SameNodes
  <2>2. B # {}
    OBVIOUS
  <2> QED BY <2>1, <2>2 DEF HeldOf, HeldBy, KnownOf
<1>11. ASSUME ~overlap PROVE TxHeld(t)
  <2>1. HeldOk(HeldBy(h), A, tx[h].given)
    BY <1>2, <1>7, <1>11 DEF HoldInv, TxHeld
  <2>2. ASSUME NEW m PROVE /\ RolesIn(A, m) \subseteq RolesIn(B, m)
                           /\ m # n => RolesIn(B, m) = RolesIn(A, m)
                           /\ r \in RolesIn(B, n)
    <3>1. \A q : q \in RolesIn(A, m) <=> <<q, m>> \in A
      BY <1>6, RolesInIs
    <3>2. \A q : q \in RolesIn(B, m) <=> <<q, m>> \in B
      BY <1>6, RolesInIs
    <3>3. \A q : q \in RolesIn(B, n) <=> <<q, n>> \in B
      BY <1>6, RolesInIs
    <3> QED BY <3>1, <3>2, <3>3
  <2> HIDE DEF B
  <2> DEFINE H == HeldBy(h) \cup {n}
             Y == tx[h].given \ {r}
  <2>3. \A m \in H : RolesIn(B, m) # {}
    <3>1. SUFFICES ASSUME NEW m \in H PROVE RolesIn(B, m) # {}
      OBVIOUS
    <3>2. CASE m = n
      BY <2>2, <3>2
    <3>3. CASE m # n
      BY <2>1, <2>2, <3>3 DEF HeldOk
    <3> QED BY <3>2, <3>3
  <2>4. \A m \in H, q \in Y : RolesIn(B, m) # {q}
    <3>1. SUFFICES ASSUME NEW m \in H, NEW q \in Y PROVE RolesIn(B, m) # {q}
      OBVIOUS
    <3>2. CASE m = n
      BY <2>2, <3>2
    <3>3. CASE m # n
      BY <2>1, <2>2, <3>3 DEF HeldOk
    <3> QED BY <3>2, <3>3
  <2>5. MaxLeases # 0 => Cardinality(H) <= MaxLeases
    <3>1. IsFiniteSet(HeldBy(h))
      <4>1. held \in SUBSET Nodes /\ tx[h].grab \in SUBSET Nodes
        BY <1>3, TxFields DEF Typed
      <4>2. HeldBy(h) \in SUBSET Nodes
        BY <4>1 DEF HeldBy
      <4> QED BY <4>2, Fleet, FS_Subset
    <3>2. Cardinality(H) = Cardinality(HeldBy(h)) + 1
      BY <1>9, <3>1, FS_AddElement
    <3>3. Cardinality(HeldBy(h)) \in Nat
      BY <3>1, FS_CardinalityType
    <3> QED BY <1>9, <3>2, <3>3, Limits
  <2> HIDE DEF H, Y
  <2>6. HeldOk(H, B, Y)
    BY <2>3, <2>4, <2>5 DEF HeldOk
  <2> QED BY <1>10, <2>6 DEF TxHeld, H, Y
<1>12. Step(h, t)
  BY <1>1
<1> QED BY <1>2, <1>11, <1>12, HoldMoves

LEMMA HoldHandle ==
    ASSUME TypedInv, HoldInv, NEW h \in Handlers,
           \/ LoopBack(h) \/ ValidateBack(h) \/ GoOn(h) \/ NamesNoTarget(h)
           \/ AcquireWithoutLease(h) \/ AcquireNothing(h) \/ RaiseAsks(h)
    PROVE  HoldInv'
<1>1. UNCHANGED <<contract, tables, history>> /\ Open(h)
  BY DEF LoopBack, ValidateBack, GoOn, NamesNoTarget, AcquireWithoutLease, AcquireNothing, RaiseAsks, Open
<1>2. Typed /\ tx[h] \in TxOf(Seqs, Names)
  BY DEF TypedInv, Typed
<1>3. ASSUME NEW S \in SUBSET Seqs, NEW v \in [Seqs -> Row], NEW pc \in {"acquire", "commit"},
             Step(h, Wrote(h, S, v, pc))
      PROVE  HoldInv'
  <2>1. SameNodes(tx[h], Wrote(h, S, v, pc))
    BY <1>2, WroteIs DEF Places
  <2> QED BY <1>1, <1>3, <2>1, HoldStays
<1>4. CASE LoopBack(h)
  <2>1. PICK v : GoesBack(h, LoopRange(tx[h].seq), v)
                 /\ Step(h, Wrote(h, LoopRange(tx[h].seq), v, "commit"))
    BY <1>4, LoopBackIs
  <2> QED BY <1>3, <2>1 DEF GoesBack
<1>5. CASE ValidateBack(h)
  <2> DEFINE R == {Target(tx[h].seq), tx[h].seq}
  <2>1. PICK v : GoesBack(h, R, v) /\ Step(h, Wrote(h, R, v, "commit"))
    BY <1>5, ValidateBackIs
  <2> HIDE DEF R
  <2> QED BY <1>3, <2>1 DEF GoesBack
<1>6. CASE GoOn(h)
  <2>1. "effects" \in Places
    BY DEF Places
  <2>2. SameNodes(tx[h], [tx[h] EXCEPT !.pc = "effects"])
    BY <1>2, <2>1, WithPlace
  <2>3. Step(h, [tx[h] EXCEPT !.pc = "effects"])
    BY <1>6 DEF GoOn
  <2> QED BY <1>1, <2>2, <2>3, HoldStays
<1>7. CASE NamesNoTarget(h) \/ AcquireWithoutLease(h)
  <2> DEFINE u == Failed(h, tx[h])
  <2>1. Step(h, u)
    BY <1>7 DEF NamesNoTarget, AcquireWithoutLease
  <2>2. u = Closed \/ SameNodes(tx[h], u)
    BY <1>2, FailedIs
  <2> HIDE DEF u
  <2> QED BY <1>1, <2>1, <2>2, HoldMoves, HoldStays
<1>8. CASE AcquireNothing(h)
  <2> DEFINE s == Least(Acquirable(h))
             v == AcquireDone([View(h) EXCEPT ![s].node = NoNode], s, contract[s].acquired)
             S == {s}
  <2>1. S \in SUBSET Seqs /\ v \in [Seqs -> Row] /\ Step(h, Wrote(h, S, v, "acquire"))
    BY <1>8, AcquireNothingIs
  <2> HIDE DEF v, S
  <2> QED BY <1>3, <2>1
<1>9. CASE RaiseAsks(h)
  <2> DEFINE v == Raised(View(h))
             S == {}
  <2>1. v \in [Seqs -> Row]
    BY <1>2, ViewIs, RaisedIs
  <2>2. Step(h, Wrote(h, S, v, "commit")) /\ S \in SUBSET Seqs
    BY <1>9 DEF RaiseAsks
  <2> HIDE DEF v, S
  <2> QED BY <1>3, <2>1, <2>2
<1> QED BY <1>4, <1>5, <1>6, <1>7, <1>8, <1>9

LEMMA HoldCommit ==
    ASSUME TypedInv, HoldInv, NEW h \in Handlers, Commit(h)
    PROVE  HoldInv'
<1>1. /\ held' = HeldBy(h) /\ assigned' = Known(h) /\ yielded' = tx[h].given /\ overlap' = overlap
      /\ Open(h) /\ Step(h, Closed)
  BY DEF Commit, Open
<1>2. \A k \in Handlers : tx'[k] = IF k = h THEN Closed ELSE tx[k]
  BY <1>1 DEF Step, TypedInv, Typed
<1>3. SUFFICES ASSUME ~overlap
               PROVE  /\ \A k \in Handlers : ~Open(k)'
                      /\ HeldOk(held, assigned, yielded)'
  BY <1>1 DEF HoldInv
<1>4. \A k \in Handlers : ~Open(k)'
  BY <1>1, <1>2, <1>3, ClosedIs DEF HoldInv, Open
<1>5. HeldOk(HeldBy(h), Known(h), tx[h].given)
  BY <1>1, <1>3 DEF HoldInv, TxHeld, HeldOf, KnownOf, HeldBy, Known
<1> QED BY <1>1, <1>4, <1>5 DEF HeldOk

LEMMA HoldStutters ==
    ASSUME HoldInv, UNCHANGED <<held, assigned, tx, history>>
    PROVE  HoldInv'
<1>1. held' = held /\ assigned' = assigned /\ tx' = tx /\ overlap' = overlap /\ yielded' = yielded
  BY DEF history
<1> QED BY <1>1 DEF HoldInv, HeldOk, Open, TxHeld, HeldOf, KnownOf

LEMMA HoldFirst ==
    ASSUME Init
    PROVE  HoldInv
<1>1. /\ held = {} /\ yielded = {} /\ assigned = {<<r, Assignment[r]>> : r \in Roles}
      /\ Creator \in Handlers /\ FirstTxIs(tx[Creator])
      /\ \A h \in Handlers : h # Creator => tx[h] = Closed
      /\ TypedInv
  BY InitIs
<1>2. \A h \in Handlers : Open(h) => h = Creator
  BY <1>1, ClosedIs DEF Open
<1>3. HeldOk(held, assigned, yielded)
  BY <1>1, FS_EmptySet, Limits DEF HeldOk
<1> DEFINE t == tx[Creator]
           H == {Assignment[r] : r \in Roles}
<1>4. HeldOf(t) = H /\ KnownOf(t) = assigned /\ t.given = {}
  BY <1>1 DEF FirstTxIs, HeldOf, KnownOf
<1>5. \A n \in H : RolesIn(assigned, n) # {}
  <2>1. SUFFICES ASSUME NEW r \in Roles PROVE RolesIn(assigned, Assignment[r]) # {}
    OBVIOUS
  <2>2. <<r, Assignment[r]>> \in assigned /\ assigned \in SUBSET (Names \X Nodes)
    BY <1>1 DEF TypedInv, Typed
  <2> QED BY <2>2, RolesInIs
<1>6. TxHeld(t)
  BY <1>4, <1>5, Width DEF TxHeld, HeldOk
<1> QED BY <1>2, <1>3, <1>6 DEF HoldInv

\* What a Run holds is in order, for every accepted contract and fleet
\* (release.go, acquire.go).
THEOREM HoldingsStayInOrder == Spec => []HoldingsInOrder
<1>1. Init => HoldInv
  BY HoldFirst
<1>2. TypedInv /\ HoldInv /\ [Next]_vars => HoldInv'
  <2> SUFFICES ASSUME TypedInv, HoldInv, [Next]_vars PROVE HoldInv'
    OBVIOUS
  <2>1. ASSUME NEW n \in Nodes, Work(n) \/ Report(n) PROVE HoldInv'
    BY <2>1, HoldStutters, HoldReport
       DEF Work, Report, Claim, Redeliver, Abandon, ReportRefused, tables
  <2>2. ASSUME NEW h \in Handlers, Handle(h) PROVE HoldInv'
    BY <2>2, HoldHandle, HoldEffects, HoldAcquire, HoldCommit DEF Handle
  <2>3. ASSUME NEW h \in Handlers, Rollback(h) PROVE HoldInv'
    BY <2>3, HoldMoves DEF Rollback
  <2>4. ASSUME NEW h \in Handlers, NEW s \in Seqs, Answer(h, s) PROVE HoldInv'
    BY <2>4, HoldReport
  <2>5. ASSUME UNCHANGED vars PROVE HoldInv'
    BY <2>5, HoldStutters DEF vars, tables
  <2> QED BY <2>1, <2>2, <2>3, <2>4, <2>5 DEF Next
<1>3. HoldInv => HoldingsInOrder
  BY DEF HoldInv, HeldOk, HoldingsInOrder, RolesOf, RolesIn
<1> QED BY <1>1, <1>2, <1>3, GraphTyped, PTL DEF Spec

-----------------------------------------------------------------------------
(* The roads not taken, if forks begin again with what they lead into and   *)
(* acquires are plain. However transactions interleave, what one of them    *)
(* will commit closes the ends its forks do not take, and opens an end      *)
(* again only together with all the forks that lead to it.                  *)

Tame == ForksBeginAgain /\ AcquiresArePlain

Forks(s) == {f \in Seqs : s \in Branches(contract[f])}

\* A row that waits, and that nobody has chosen.
Waiting(x) == x.state = "PENDING" /\ ~x.chosen

\* Fork f, whose row is x, is over; if it is an acquire, it has not taken s.
Passed(x, f, s) ==
    /\ x.state = "DONE"
    /\ contract[f].kind = "acquire" =>
        s # IF x.node = NoNode THEN contract[f].unavailable ELSE contract[f].acquired

\* Only a fork chooses; no node works at an acquire.
RowFits(s, x) ==
    /\ x.chosen => \E f \in Seqs : contract[f].kind # "acquire" /\ s \in contract[f].to
    /\ contract[s].kind = "acquire" =>
        /\ x.state \in {"ABSENT", "PENDING", "DONE", "SKIPPED"}
        /\ x.state # "DONE" => x.node = NoNode

\* Committed rows r: who waits has a fork that may still take it.
RoadsFit(r) ==
    \A s \in Seqs :
        /\ RowFits(s, r[s])
        /\ Waiting(r[s]) => Forks(s) = {} \/ \E f \in Forks(s) : ~Passed(r[f], f, s)

\* What transaction t, over committed rows r, sees of step s.
Seen(t, r, s) == IF s \in DOMAIN t.w THEN t.w[s] ELSE r[s]

\* What t lets wait again, it does so with all forks to it.
Reopens(t, r) ==
    \A s \in DOMAIN t.w : Waiting(t.w[s]) /\ ~Waiting(r[s]) =>
        \A f \in Forks(s) : f \in DOMAIN t.w /\ ~(Passed(r[f], f, s) /\ Passed(t.w[f], f, s))

\* What t's forks pass by does not wait, once t has come to its effects.
Closes(t, r) ==
    \A f \in DOMAIN t.w : ~(t.pc \in {"back", "effects"} /\ f = t.seq) =>
        \A s \in Branches(contract[f]) :
            Passed(t.w[f], f, s) /\ ~Passed(r[f], f, s) => ~Waiting(Seen(t, r, s))

TxGood(t, r) ==
    /\ \A s \in DOMAIN t.w : RowFits(s, t.w[s])
    /\ t.seq # 0 => contract[t.seq].kind # "acquire"
    /\ Reopens(t, r) /\ Closes(t, r)

\* No row is written by two open transactions.
Locks(x) == \A h, k \in Handlers : h # k => DOMAIN x[h].w \cap DOMAIN x[k].w = {}

RoadInv ==
    /\ Locks(tx)
    /\ Tame => RoadsFit(row) /\ \A h \in Handlers : TxGood(tx[h], row)

LEMMA RoadsKept ==
    ASSUME contract' = contract, Locks(tx'),
           Tame => RoadsFit(row') /\ \A h \in Handlers : TxGood(tx'[h], row')
    PROVE  RoadInv'
<1>1. Seqs' = Seqs
  BY DEF Seqs
<1>2. \A s : Forks(s)' = Forks(s)
  BY <1>1 DEF Forks
<1>3. \A x, f, s : Passed(x, f, s) <=> Passed(x, f, s)'
  BY DEF Passed
<1>4. Tame' <=> Tame
  BY <1>1 DEF Tame, ForksBeginAgain, AcquiresArePlain, Rounds, LoopRange, Target, Checked
<1>5. RoadsFit(row') => RoadsFit(row)'
  BY <1>1, <1>2 DEF RoadsFit, RowFits, Passed
<1>6. ASSUME NEW h \in Handlers, TxGood(tx'[h], row') PROVE TxGood(tx[h], row)'
  <2>1. Reopens(tx[h], row)'
    BY <1>2, <1>6 DEF TxGood, Reopens, Passed
  <2>2. Closes(tx[h], row)'
    BY <1>6 DEF TxGood, Closes, Passed, Seen
  <2> QED BY <1>1, <1>6, <2>1, <2>2 DEF TxGood, RowFits
<1>7. Locks(tx)'
  BY DEF Locks
<1> QED BY <1>4, <1>5, <1>6, <1>7 DEF RoadInv

LEMMA BranchesAre ==
    ASSUME contract \in Contracts, AcquiresArePlain, NEW f \in Seqs, NEW s \in Branches(contract[f])
    PROVE  /\ s \in Seqs
           /\ contract[f].kind # "acquire" => s \in contract[f].to
           /\ contract[f].kind = "acquire" => s \in {contract[f].acquired, contract[f].unavailable}
<1>1. StepOk(f)
  BY ContractShape
<1>2. contract[f].kind = "acquire" => contract[f].to = {}
  BY DEF AcquiresArePlain
<1> QED BY <1>1, <1>2 DEF StepOk, Branches

\* A transaction moves and nothing is committed.
LEMMA RoadMoves ==
    ASSUME TypedInv, RoadInv, NEW h \in Handlers, NEW t, Step(h, t),
           DOMAIN t.w \cap Locked(h) = {}, Tame => TxGood(t, row), UNCHANGED <<contract, row>>
    PROVE  RoadInv'
<1>1. \A k \in Handlers : tx'[k] = IF k = h THEN t ELSE tx[k]
  BY DEF Step, TypedInv, Typed
<1>2. \A k \in Handlers \ {h} : DOMAIN t.w \cap DOMAIN tx[k].w = {}
  BY DEF Locked
<1>3. Locks(tx')
  BY <1>1, <1>2 DEF Locks, RoadInv
<1>4. Tame => RoadsFit(row') /\ \A k \in Handlers : TxGood(tx'[k], row')
  BY <1>1 DEF RoadInv
<1> QED BY <1>3, <1>4, RoadsKept

\* A transaction is undone, or it has written nothing.
LEMMA ClosedIsGood ==
    ASSUME NEW r
    PROVE  TxGood(Closed, r)
BY ClosedIs DEF TxGood, Reopens, Closes

LEMMA LockedIs ==
    ASSUME RoadInv, NEW h \in Handlers
    PROVE  DOMAIN tx[h].w \cap Locked(h) = {}
BY DEF RoadInv, Locks, Locked

-----------------------------------------------------------------------------
(* Writes that open no road.                                                *)

Quiet(u, v) ==
    \A s \in Seqs :
        /\ Waiting(v[s]) => Waiting(u[s])
        /\ \A f \in Forks(s) : Passed(v[f], f, s) /\ Waiting(v[s]) => Passed(u[f], f, s)

LEMMA QuietWrite ==
    ASSUME TypedInv, RoadInv, Tame, NEW h \in Handlers, NEW S \in SUBSET Seqs, NEW v \in [Seqs -> Row],
           NEW t, Written(h, S, v, t), t.seq = tx[h].seq, t.pc \in {"acquire", "commit"},
           tx[h].pc # "back", Quiet(View(h), v), \A s \in Seqs : RowFits(s, v[s]),
           tx[h].pc = "effects" => \A s \in Branches(contract[tx[h].seq]) : ~Waiting(v[s])
    PROVE  TxGood(t, row)
<1> DEFINE u == View(h)
           w == tx[h].w
<1>1. TxGood(tx[h], row)
  BY DEF RoadInv
<1>2. /\ DOMAIN w \in SUBSET Seqs
      /\ \A s \in DOMAIN w : u[s] = w[s]
      /\ \A s \in Seqs \ DOMAIN w : u[s] = row[s]
  BY ViewIs DEF TypedInv
<1>3. /\ DOMAIN t.w \in SUBSET Seqs /\ DOMAIN w \subseteq DOMAIN t.w
      /\ \A s \in DOMAIN t.w : t.w[s] = v[s]
      /\ \A s \in Seqs \ DOMAIN t.w : v[s] = row[s]
  BY DEF Written
<1>4. \A s \in Seqs : Seen(t, row, s) = v[s] /\ Seen(tx[h], row, s) = u[s]
  BY <1>2, <1>3 DEF Seen
<1>5. contract \in Contracts /\ AcquiresArePlain
  BY DEF TypedInv, Typed, Tame
<1> HIDE DEF u, w
<1>6. Quiet(u, v)
  BY DEF u
<1>7. Reopens(t, row)
  <2>1. SUFFICES ASSUME NEW s \in DOMAIN t.w, Waiting(t.w[s]), ~Waiting(row[s]), NEW f \in Forks(s)
                 PROVE  f \in DOMAIN t.w /\ ~(Passed(row[f], f, s) /\ Passed(t.w[f], f, s))
    BY DEF Reopens
  <2>2. Waiting(v[s]) /\ s \in Seqs
    BY <1>3, <2>1
  <2>3. Waiting(u[s])
    BY <1>6, <2>2 DEF Quiet
  <2>4. s \in DOMAIN w /\ Waiting(w[s])
    BY <1>2, <2>1, <2>2, <2>3
  <2>5. f \in DOMAIN w /\ ~(Passed(row[f], f, s) /\ Passed(w[f], f, s))
    BY <1>1, <2>1, <2>4 DEF TxGood, Reopens, w
  <2>6. Passed(v[f], f, s) => Passed(w[f], f, s)
    BY <1>2, <1>6, <2>2, <2>5 DEF Quiet
  <2> QED BY <1>3, <2>5, <2>6
<1>8. Closes(t, row)
  <2>1. SUFFICES ASSUME NEW f \in DOMAIN t.w, NEW s \in Branches(contract[f]),
                        Passed(t.w[f], f, s), ~Passed(row[f], f, s), Waiting(Seen(t, row, s))
                 PROVE  FALSE
    BY DEF Closes
  <2>2. f \in Seqs /\ s \in Seqs /\ f \in Forks(s)
    BY <1>3, <1>5, <2>1, BranchesAre DEF Forks
  <2>3. Passed(v[f], f, s) /\ Waiting(v[s])
    BY <1>3, <1>4, <2>1, <2>2
  <2>4. Passed(u[f], f, s) /\ Waiting(u[s])
    BY <1>6, <2>2, <2>3 DEF Quiet
  <2>5. f \in DOMAIN w /\ Passed(w[f], f, s)
    BY <1>2, <2>1, <2>2, <2>4
  <2>6. tx[h].pc = "effects" => f # tx[h].seq
    BY <2>1, <2>3
  <2>7. ~Waiting(Seen(tx[h], row, s))
    BY <1>1, <2>1, <2>5, <2>6 DEF TxGood, Closes, w
  <2> QED BY <1>4, <2>2, <2>4, <2>7
<1>9. \A s \in DOMAIN t.w : RowFits(s, t.w[s])
  BY <1>3
<1> QED BY <1>1, <1>7, <1>8, <1>9 DEF TxGood

\* What h sees fits.
LEMMA ViewFits ==
    ASSUME TypedInv, RoadInv, Tame, NEW h \in Handlers, NEW s \in Seqs
    PROVE  RowFits(s, View(h)[s])
<1>1. TxGood(tx[h], row) /\ RoadsFit(row)
  BY DEF RoadInv
<1> QED BY <1>1, ViewIs DEF TxGood, RoadsFit, TypedInv

\* Going back.
LEMMA BackIsGood ==
    ASSUME TypedInv, RoadInv, Tame, NEW h \in Handlers, tx[h].pc = "back",
           NEW R \in Rounds(tx[h].seq), NEW v, GoesBack(h, R, v), tx[h].seq \in R,
           \A s \in R : contract[s].kind # "acquire",
           NEW t, Written(h, R, v, t), t.seq = tx[h].seq, t.pc = "commit"
    PROVE  TxGood(t, row)
<1>1. /\ tx[h].seq \in Seqs /\ DOMAIN tx[h].w = {tx[h].seq}
  BY OfTheStep
<1>2. R \in SUBSET Seqs /\ \A s \in Seqs \ R : v[s] = View(h)[s]
  BY DEF GoesBack
<1>3. DOMAIN t.w = R /\ \A s \in R : t.w[s] = v[s]
  <2>1. DOMAIN t.w = {tx[h].seq} \cup Writes(h, R, v)
    BY <1>1 DEF Written
  <2>2. Writes(h, R, v) = R
    BY <1>2 DEF Writes
  <2> QED BY <2>1, <2>2 DEF Written
<1>4. \A s \in R : t.w[s].state = "PENDING" /\ t.w[s].chosen = View(h)[s].chosen
  BY <1>3 DEF GoesBack
<1>5. \A s \in R : RowFits(s, t.w[s])
  BY <1>2, <1>4, ViewFits DEF RowFits
<1>6. Reopens(t, row)
  <2>1. SUFFICES ASSUME NEW s \in R, NEW f \in Forks(s) PROVE f \in R /\ t.w[f].state # "DONE"
    BY <1>3 DEF Reopens, Passed
  <2>2. f \in Seqs /\ s \in Branches(contract[f]) \cap R
    BY <2>1 DEF Forks
  <2>3. f \in R
    BY <1>1, <2>2 DEF Tame, ForksBeginAgain
  <2> QED BY <1>4, <2>3
<1>7. Closes(t, row)
  BY <1>3, <1>4 DEF Closes, Passed
<1>8. t.seq # 0 => contract[t.seq].kind # "acquire"
  OBVIOUS
<1> QED BY <1>3, <1>5, <1>6, <1>7, <1>8 DEF TxGood

\* The end of a step, before anything follows from it.
LEMMA BeginningIsGood ==
    ASSUME TypedInv, RoadInv, Tame, NEW s \in Seqs, NEW n, NEW x, NEW pc, NEW t, Begins(s, n, x, pc, t),
           row[s].state \in {"CLAIMED", "ASKED"}, x.state \in {"DONE", "FAILED"},
           x.chosen = row[s].chosen, pc = "back" \/ x.state = "FAILED"
    PROVE  TxGood(t, row)
<1>1. DOMAIN t.w = {s} /\ t.w[s] = x /\ t.seq = s /\ t.pc = pc
  BY DEF Begins
<1>2. RowFits(s, row[s])
  BY DEF RoadInv, RoadsFit
<1>3. contract[s].kind # "acquire"
  BY <1>2 DEF RowFits
<1>4. RowFits(s, x)
  BY <1>2, <1>3 DEF RowFits
<1>5. Reopens(t, row)
  BY <1>1 DEF Reopens, Waiting
<1>6. Closes(t, row)
  BY <1>1 DEF Closes, Passed
<1> QED BY <1>1, <1>3, <1>4, <1>5, <1>6 DEF TxGood

\* The step has failed after all.
LEMMA FailureIsGood ==
    ASSUME TypedInv, RoadInv, Tame, NEW h \in Handlers, tx[h].pc \in {"effects", "acquire"},
           NEW t, Fails(tx[h], t), SameNodes(tx[h], t)
    PROVE  TxGood(t, row)
<1> DEFINE w == tx[h].w
           q == tx[h].seq
<1>1. TxGood(tx[h], row)
  BY DEF RoadInv
<1>2. /\ DOMAIN t.w = DOMAIN w /\ t.pc = "commit" /\ t.seq = q
      /\ \A s \in DOMAIN w : s # q => t.w[s] = w[s]
      /\ q \in DOMAIN w => /\ t.w[q].state = "FAILED" /\ t.w[q].chosen = w[q].chosen
  BY DEF Fails, SameNodes
<1>3. DOMAIN w \in SUBSET Seqs /\ 0 \notin Seqs
  BY ViewIs, ContractShape DEF TypedInv, Typed
<1> HIDE DEF w, q
<1>4. \A s \in DOMAIN w : RowFits(s, w[s])
  BY <1>1 DEF TxGood, w
<1>5. q # 0 => contract[q].kind # "acquire"
  BY <1>1 DEF TxGood, q
<1>6. ASSUME NEW s \in DOMAIN t.w PROVE RowFits(s, t.w[s])
  <2>1. CASE s = q
    BY <1>2, <1>3, <1>4, <1>5, <1>6, <2>1 DEF RowFits
  <2>2. CASE s # q
    BY <1>2, <1>4, <1>6, <2>2
  <2> QED BY <2>1, <2>2
<1>7. Reopens(t, row)
  <2>1. SUFFICES ASSUME NEW s \in DOMAIN w, Waiting(t.w[s]), ~Waiting(row[s]), NEW f \in Forks(s)
                 PROVE  f \in DOMAIN w /\ ~(Passed(row[f], f, s) /\ Passed(t.w[f], f, s))
    BY <1>2 DEF Reopens
  <2>2. s # q /\ Waiting(w[s])
    BY <1>2, <2>1 DEF Waiting
  <2>3. f \in DOMAIN w /\ ~(Passed(row[f], f, s) /\ Passed(w[f], f, s))
    BY <1>1, <2>1, <2>2 DEF TxGood, Reopens, w
  <2>4. Passed(t.w[f], f, s) => f # q
    BY <1>2, <2>3 DEF Passed
  <2> QED BY <1>2, <2>3, <2>4
<1>8. Closes(t, row)
  <2>1. SUFFICES ASSUME NEW f \in DOMAIN w, NEW s \in Branches(contract[f]),
                        Passed(t.w[f], f, s), ~Passed(row[f], f, s), Waiting(Seen(t, row, s))
                 PROVE  FALSE
    BY <1>2 DEF Closes
  <2>2. f # q /\ t.w[f] = w[f]
    BY <1>2, <2>1 DEF Passed
  <2>3. ~Waiting(Seen(tx[h], row, s))
    BY <1>1, <2>1, <2>2 DEF TxGood, Closes, w, q
  <2>4. Waiting(Seen(t, row, s)) => Waiting(Seen(tx[h], row, s))
    BY <1>2 DEF Seen, Waiting, w
  <2> QED BY <2>1, <2>3, <2>4
<1> QED BY <1>2, <1>5, <1>6, <1>7, <1>8 DEF TxGood

\* v is u after acquire s has got n and its end o has been closed.
Settles(u, s, n, o, v) ==
    /\ v[s].state = "DONE" /\ v[s].node = n
    /\ o \in Seqs => v[o].state # "PENDING"
    /\ \A k \in Seqs :
        /\ v[k].chosen = u[k].chosen
        /\ k # s => /\ v[k].state = u[k].state \/ (u[k].state = "PENDING" /\ v[k].state = "SKIPPED")
                    /\ contract[k].kind = "acquire" => v[k].node = u[k].node

LEMMA SettlesIs ==
    ASSUME TypedInv, NEW u \in [Seqs -> Row], NEW s \in Seqs, contract[s].kind = "acquire",
           NEW n \in Whoever, NEW o, NEW b \in [Seqs -> Row], b[s].node = n,
           \A k \in Seqs : b[k].chosen = u[k].chosen,
           \A k \in Seqs \ {s} : /\ b[k].state = u[k].state
                                 /\ contract[k].kind = "acquire" => b[k].node = u[k].node
    PROVE  Settles(u, s, n, o, AcquireDone(b, s, o))
<1> DEFINE v == AcquireDone(b, s, o)
<1>1. AcquireEnds(b, s, o, v)
  BY AcquireDoneIs
<1> HIDE DEF v
<1>2. Settles(u, s, n, o, v)
  BY <1>1 DEF Settles, AcquireEnds
<1> QED BY <1>2 DEF v

\* The acquire takes the end that its node stands for.
LEMMA SettlesQuietly ==
    ASSUME TypedInv, Tame, NEW u \in [Seqs -> Row], NEW v \in [Seqs -> Row], NEW s \in Seqs,
           contract[s].kind = "acquire", NEW n, NEW o, Settles(u, s, n, o, v),
           o = IF n = NoNode THEN contract[s].acquired ELSE contract[s].unavailable,
           \A k \in Seqs : RowFits(k, u[k])
    PROVE  Quiet(u, v) /\ \A k \in Seqs : RowFits(k, v[k])
<1>1. v[s].state = "DONE" /\ v[s].node = n /\ (o \in Seqs => v[o].state # "PENDING")
  BY DEF Settles
<1>2. ASSUME NEW k \in Seqs
      PROVE  /\ v[k].chosen = u[k].chosen
             /\ k # s => /\ v[k].state = u[k].state \/ (u[k].state = "PENDING" /\ v[k].state = "SKIPPED")
                         /\ contract[k].kind = "acquire" => v[k].node = u[k].node
  BY DEF Settles
<1>3. ASSUME NEW k \in Seqs, Waiting(v[k]) PROVE Waiting(u[k])
  BY <1>1, <1>2, <1>3 DEF Waiting
<1>4. ASSUME NEW k \in Seqs, NEW f \in Forks(k), Passed(v[f], f, k), Waiting(v[k]) PROVE Passed(u[f], f, k)
  <2>1. f \in Seqs /\ k \in Branches(contract[f]) /\ contract \in Contracts /\ AcquiresArePlain
    BY DEF Forks, TypedInv, Typed, Tame
  <2>2. CASE f = s
    <3>1. k \in {contract[s].acquired, contract[s].unavailable}
      BY <2>1, <2>2, BranchesAre
    <3>2. k = o
      BY <1>1, <1>4, <2>2, <3>1 DEF Passed
    <3> QED BY <1>1, <1>4, <2>1, <3>2 DEF Waiting
  <2>3. CASE f # s
    BY <1>2, <1>4, <2>1, <2>3 DEF Passed
  <2> QED BY <2>2, <2>3
<1>5. ASSUME NEW k \in Seqs PROVE RowFits(k, v[k])
  <2>1. RowFits(k, u[k])
    OBVIOUS
  <2>2. CASE k = s
    BY <1>1, <1>2, <2>1, <2>2 DEF RowFits
  <2>3. CASE k # s
    BY <1>2, <2>1, <2>3 DEF RowFits
  <2> QED BY <2>2, <2>3
<1> QED BY <1>3, <1>4, <1>5 DEF Quiet

\* The fork of the step that ends takes one of its ends and closes the others.
LEMMA EffectsQuietly ==
    ASSUME TypedInv, RoadInv, Tame, NEW h \in Handlers, tx[h].pc = "effects",
           NEW S \in SUBSET Seqs, NEW v \in [Seqs -> Row], DispatchOf(h, S, v)
    PROVE  /\ Quiet(View(h), v) /\ \A s \in Seqs : RowFits(s, v[s])
           /\ \A s \in Branches(contract[tx[h].seq]) : ~Waiting(v[s])
<1> DEFINE q == tx[h].seq
           to == contract[q].to
           u == View(h)
<1>1. q \in Seqs /\ StepOk(q) /\ contract \in Contracts /\ AcquiresArePlain
  BY OfTheStep DEF TypedInv, Typed, Tame
<1>2. contract[q].kind # "acquire"
  <2>1. 0 \notin Seqs
    BY <1>1, ContractShape
  <2>2. TxGood(tx[h], row)
    BY DEF RoadInv
  <2> QED BY <1>1, <2>1, <2>2 DEF TxGood
<1>3. to \in SUBSET Seqs /\ \A s \in Branches(contract[q]) : s \in to
  BY <1>1, <1>2, BranchesAre DEF StepOk
<1>4. u \in [Seqs -> Row] /\ \A s \in Seqs : RowFits(s, u[s])
  BY ViewIs, ViewFits DEF TypedInv
<1>5. to = {} => v = u
  BY DEF DispatchOf
<1>6. to # {} => \E e \in to : v = Dispatched(u, to, e)
  BY DEF DispatchOf
<1> HIDE DEF q, to, u
<1>7. CASE to = {}
  BY <1>3, <1>4, <1>5, <1>7 DEF Quiet, q, u
<1>8. CASE to # {}
  <2>1. PICK e \in to : v = Dispatched(u, to, e)
    BY <1>6, <1>8
  <2>2. /\ v[e].chosen
        /\ \A s \in to \ {e} : v[s].state # "PENDING"
        /\ \A s \in Seqs :
            /\ s # e => v[s].chosen = u[s].chosen
            /\ v[s].node = u[s].node
            /\ \/ v[s].state = u[s].state
               \/ u[s].state = "PENDING" /\ v[s].state = "SKIPPED"
               \/ s = e /\ u[s].state = "SKIPPED" /\ v[s].state = "PENDING"
    BY <1>3, <1>4, <2>1, DispatchedIs
  <2>3. \A s \in Seqs : Waiting(v[s]) => Waiting(u[s])
    BY <2>2 DEF Waiting
  <2>4. \A s \in Seqs, f \in Seqs : Passed(v[f], f, s) => Passed(u[f], f, s)
    BY <2>2 DEF Passed
  <2>5. \A s \in to : ~Waiting(v[s])
    BY <2>2 DEF Waiting
  <2>6. ASSUME NEW s \in Seqs PROVE RowFits(s, v[s])
    <3>1. RowFits(s, u[s])
      BY <1>4
    <3>2. v[s].chosen => \E f \in Seqs : contract[f].kind # "acquire" /\ s \in contract[f].to
      <4>1. CASE s = e
        BY <1>1, <1>2, <4>1 DEF to
      <4>2. CASE s # e
        BY <2>2, <3>1, <4>2 DEF RowFits
      <4> QED BY <4>1, <4>2
    <3>3. contract[s].kind = "acquire" =>
            /\ v[s].state \in {"ABSENT", "PENDING", "DONE", "SKIPPED"}
            /\ v[s].state # "DONE" => v[s].node = NoNode
      BY <2>2, <3>1 DEF RowFits
    <3> QED BY <3>2, <3>3 DEF RowFits
  <2>7. Quiet(u, v)
    BY <2>3, <2>4 DEF Quiet, Forks
  <2> QED BY <1>3, <2>5, <2>6, <2>7 DEF q, u
<1> QED BY <1>7, <1>8

LEMMA RaisesQuietly ==
    ASSUME NEW u \in [Seqs -> Row], \A s \in Seqs : RowFits(s, u[s])
    PROVE  Quiet(u, Raised(u)) /\ \A s \in Seqs : RowFits(s, Raised(u)[s])
<1> DEFINE v == Raised(u)
<1>1. \A s \in Seqs : \/ v[s] = u[s]
                      \/ /\ contract[s].kind = "ask" /\ u[s].state = "PENDING"
                         /\ v[s].state = "ASKED" /\ v[s].chosen = u[s].chosen
  BY RaisedIs
<1> HIDE DEF v
<1>2. \A s \in Seqs : Waiting(v[s]) => Waiting(u[s])
  BY <1>1 DEF Waiting
<1>3. \A f \in Seqs : v[f].state = "DONE" => v[f] = u[f]
  BY <1>1
<1>4. Quiet(u, v)
  BY <1>2, <1>3 DEF Quiet, Passed, Forks
<1>5. \A s \in Seqs : RowFits(s, v[s])
  BY <1>1 DEF RowFits
<1> QED BY <1>4, <1>5 DEF v

-----------------------------------------------------------------------------
(* The roads, action by action.                                             *)

\* A transaction that writes v waits for the rows; so Locks stays.
LEMMA RoadWrites ==
    ASSUME TypedInv, RoadInv, NEW h \in Handlers, NEW S, NEW v, Free(h, S, v),
           NEW t, Step(h, t), DOMAIN t.w = DOMAIN tx[h].w \cup Writes(h, S, v),
           Tame => TxGood(t, row), UNCHANGED <<contract, row>>
    PROVE  RoadInv'
<1>1. DOMAIN t.w \cap Locked(h) = {}
  BY LockedIs DEF Free
<1> QED BY <1>1, RoadMoves

LEMMA RoadReport ==
    ASSUME TypedInv, RoadInv, NEW h \in Handlers,
           \/ \E n \in Nodes : ReportOk(h, n) \/ ReportFailed(h, n)
           \/ \E s \in Seqs : Answer(h, s)
    PROVE  RoadInv'
<1>1. PICK s \in Seqs, n \in Whoever, x \in Row, pc \in {"back", "commit"}, u \in TxOf(Seqs, Names) :
        /\ Begins(s, n, x, pc, u) /\ Step(h, u) /\ Unlocked(s)
        /\ row[s].state \in {"CLAIMED", "ASKED"}
        /\ x.state \in {"DONE", "FAILED"} /\ (pc = "commit" => x.state = "FAILED")
        /\ x.chosen = row[s].chosen
  BY ReportIs, Zenon
<1>2. Tame => TxGood(u, row)
  BY <1>1, BeginningIsGood
<1>3. DOMAIN u.w \cap Locked(h) = {}
  BY <1>1 DEF Begins, Unlocked, Locked
<1>4. UNCHANGED <<contract, row>>
  BY ReportIs DEF tables
<1> QED BY <1>1, <1>2, <1>3, <1>4, RoadMoves

LEMMA RoadBack ==
    ASSUME TypedInv, RoadInv, NEW h \in Handlers, LoopBack(h) \/ ValidateBack(h)
    PROVE  RoadInv'
<1> DEFINE q == tx[h].seq
<1>1. tx[h].pc = "back" /\ UNCHANGED <<contract, row>> /\ Typed /\ "commit" \in Places
  BY DEF LoopBack, ValidateBack, tables, TypedInv, Places
<1>2. q \in Seqs /\ StepOk(q) /\ contract \in Contracts /\ 0 \notin Seqs
  BY <1>1, OfTheStep, ContractShape DEF Typed
<1>3. Tame => contract[q].kind # "acquire"
  BY <1>2 DEF RoadInv, TxGood
<1>4. ASSUME NEW R, NEW v, GoesBack(h, R, v), Free(h, R, v), Step(h, Wrote(h, R, v, "commit")),
             Tame => R \in Rounds(q) /\ q \in R /\ \A s \in R : contract[s].kind # "acquire"
      PROVE  RoadInv'
  <2> DEFINE t == Wrote(h, R, v, "commit")
  <2>1. R \in SUBSET Seqs /\ v \in [Seqs -> Row]
    BY <1>4 DEF GoesBack
  <2>2. t.pc = "commit" /\ Written(h, R, v, t) /\ SameNodes(tx[h], t)
    BY <1>1, <2>1, WroteIs
  <2>3. Step(h, t)
    BY <1>4
  <2> HIDE DEF t
  <2>4. t.seq = tx[h].seq /\ DOMAIN t.w = DOMAIN tx[h].w \cup Writes(h, R, v)
    BY <2>2 DEF SameNodes, Written
  <2>5. Tame => TxGood(t, row)
    BY <1>1, <1>4, <2>2, <2>4, BackIsGood
  <2> QED BY <1>1, <1>4, <2>3, <2>4, <2>5, RoadWrites
<1>5. CASE LoopBack(h)
  <2> DEFINE R == LoopRange(q)
  <2>1. PICK v : contract[q].back # 0 /\ GoesBack(h, R, v) /\ Free(h, R, v)
                 /\ Step(h, Wrote(h, R, v, "commit"))
    BY <1>5, LoopBackIs
  <2>2. R \in Rounds(q)
    BY <2>1 DEF Rounds
  <2>3. \A s \in R : contract[s].kind # "acquire"
    BY DEF LoopRange
  <2>4. Tame => q \in R
    <3>1. Seqs = 1..Len(contract) /\ Len(contract) \in Nat
      BY <1>2, ContractShape
    <3> QED BY <1>2, <1>3, <2>1, <3>1 DEF LoopRange, StepOk
  <2> HIDE DEF R, q
  <2> QED BY <1>4, <2>1, <2>2, <2>3, <2>4
<1>6. CASE ValidateBack(h)
  <2> DEFINE R == {Target(q), q}
  <2>1. PICK v : Checked(q) # {} /\ GoesBack(h, R, v) /\ Free(h, R, v)
                 /\ Step(h, Wrote(h, R, v, "commit"))
    BY <1>6, ValidateBackIs
  <2>2. R \in Rounds(q)
    BY <2>1 DEF Rounds
  <2>3. Tame => \A s \in R : contract[s].kind # "acquire"
    <3>1. Target(q) \in Seqs /\ contract[Target(q)].checker = q
      BY <1>2, <2>1, TargetIs
    <3> QED BY <1>2, <1>3, <3>1 DEF Tame, AcquiresArePlain
  <2>4. q \in R
    OBVIOUS
  <2> HIDE DEF R, q
  <2> QED BY <1>4, <2>1, <2>2, <2>3, <2>4
<1> QED BY <1>5, <1>6

LEMMA RoadGoOn ==
    ASSUME TypedInv, RoadInv, NEW h \in Handlers, GoOn(h)
    PROVE  RoadInv'
<1> DEFINE u == [tx[h] EXCEPT !.pc = "effects"]
<1>1. Step(h, u) /\ tx[h].pc = "back" /\ UNCHANGED <<contract, row>>
  BY DEF GoOn, tables
<1>2. u.pc = "effects" /\ u.w = tx[h].w /\ SameNodes(tx[h], u)
  <2>1. tx[h] \in TxOf(Seqs, Names) /\ "effects" \in Places
    BY DEF TypedInv, Typed, Places
  <2> QED BY <2>1, WithPlace
<1> HIDE DEF u
<1>3. Tame => TxGood(u, row)
  <2>1. Tame => TxGood(tx[h], row)
    BY DEF RoadInv
  <2> QED BY <1>1, <1>2, <2>1 DEF TxGood, Reopens, Closes, Seen, SameNodes
<1>4. DOMAIN u.w \cap Locked(h) = {}
  BY <1>2, LockedIs
<1> QED BY <1>1, <1>3, <1>4, RoadMoves

LEMMA RoadEffects ==
    ASSUME TypedInv, RoadInv, NEW h \in Handlers, Effects(h)
    PROVE  RoadInv'
<1>1. PICK v \in [Seqs -> Row], S \in SUBSET Seqs, t \in TxOf(Seqs, Names) :
            /\ DispatchOf(h, S, v)
            /\ Free(h, S, v) /\ Step(h, t)
            /\ GivesUp(Wrote(h, S, v, "acquire"), Released(h) \cap held, contract[tx[h].seq].release, t)
  BY EffectsIs
<1>2. tx[h].pc = "effects" /\ UNCHANGED <<contract, row>> /\ Typed /\ "acquire" \in Places
  BY DEF Effects, tables, TypedInv, Places
<1> DEFINE u == Wrote(h, S, v, "acquire")
<1>3. u.pc = "acquire" /\ Written(h, S, v, u) /\ SameNodes(tx[h], u)
  BY <1>2, WroteIs
<1>4. t.pc = u.pc /\ t.w = u.w /\ t.seq = u.seq
  BY <1>1 DEF GivesUp
<1> HIDE DEF u
<1>5. /\ t.pc = "acquire" /\ Written(h, S, v, t) /\ t.seq = tx[h].seq
      /\ DOMAIN t.w = DOMAIN tx[h].w \cup Writes(h, S, v)
  BY <1>3, <1>4 DEF Written, SameNodes
<1>6. ASSUME Tame PROVE TxGood(t, row)
  <2>1. /\ Quiet(View(h), v) /\ \A s \in Seqs : RowFits(s, v[s])
        /\ \A s \in Branches(contract[tx[h].seq]) : ~Waiting(v[s])
    BY <1>1, <1>2, <1>6, EffectsQuietly
  <2> QED BY <1>2, <1>5, <1>6, <2>1, QuietWrite
<1> QED BY <1>1, <1>2, <1>5, <1>6, RoadWrites

\* The acquires: what comes after Settles.
LEMMA RoadSettles ==
    ASSUME TypedInv, RoadInv, NEW h \in Handlers, tx[h].pc = "acquire", NEW s \in Seqs,
           contract[s].kind = "acquire", NEW n, NEW o, NEW v \in [Seqs -> Row],
           o = IF n = NoNode THEN contract[s].acquired ELSE contract[s].unavailable,
           Settles(View(h), s, n, o, v), Free(h, {s}, v), NEW t, Step(h, t),
           Written(h, {s}, v, t), t.seq = tx[h].seq, t.pc = "acquire",
           UNCHANGED <<contract, row>>
    PROVE  RoadInv'
<1>1. ASSUME Tame PROVE TxGood(t, row)
  <2>1. View(h) \in [Seqs -> Row] /\ \A k \in Seqs : RowFits(k, View(h)[k])
    BY <1>1, ViewIs, ViewFits DEF TypedInv
  <2>2. Quiet(View(h), v) /\ \A k \in Seqs : RowFits(k, v[k])
    BY <1>1, <2>1, SettlesQuietly
  <2>3. {s} \in SUBSET Seqs
    OBVIOUS
  <2> QED BY <1>1, <2>2, <2>3, QuietWrite
<1>2. DOMAIN t.w = DOMAIN tx[h].w \cup Writes(h, {s}, v)
  BY DEF Written
<1> QED BY <1>1, <1>2, RoadWrites

LEMMA RoadAcquire ==
    ASSUME TypedInv, RoadInv, NEW h \in Handlers, Acquire(h)
    PROVE  RoadInv'
<1>1. PICK n \in Grabbable(h), t \in TxOf(Seqs, Names) :
            LET s == Least(Acquirable(h))
                v == AcquiredRows(h, s, n)
            IN  /\ s \in Seqs /\ n \in Nodes /\ v \in [Seqs -> Row]
                /\ Free(h, {s}, v) /\ Step(h, t)
                /\ Takes(Wrote(h, {s}, v, "acquire"), n, Known(h) \cup {<<contract[s].want, n>>},
                         contract[s].want, t)
  BY AcquireIs
<1> DEFINE s == Least(Acquirable(h))
           st == contract[s]
           v == AcquiredRows(h, s, n)
           A == Known(h) \cup {<<st.want, n>>}
           S == {s}
           r == [View(h) EXCEPT ![s].node = n]
           b == Bound(r, st.want, n)
<1>2. /\ s \in Seqs /\ n \in Nodes /\ v \in [Seqs -> Row] /\ S \in SUBSET Seqs
      /\ Free(h, {s}, v) /\ Step(h, t) /\ Takes(Wrote(h, S, v, "acquire"), n, A, st.want, t)
  BY <1>1
<1>3. StepOk(s) /\ st.kind = "acquire"
  BY AcquirableIs DEF Acquire
<1>4. tx[h].pc = "acquire" /\ UNCHANGED <<contract, row>> /\ Typed /\ "acquire" \in Places
  BY DEF Acquire, tables, TypedInv, Places
<1>5. View(h) \in [Seqs -> Row]
  BY <1>4, ViewIs
<1>6. \A k \in Seqs : StepOk(k)
  BY <1>4, ContractShape DEF Typed
<1>7. /\ r \in [Seqs -> Row] /\ r[s].node = n /\ r[s].chosen = View(h)[s].chosen
      /\ \A k \in Seqs \ {s} : r[k] = View(h)[k]
  <2>1. LET y == [View(h)[s] EXCEPT !.node = n]
        IN  y \in Row /\ y.node = n /\ y.chosen = View(h)[s].chosen
    BY <1>2, <1>5, RowNode DEF Whoever
  <2> QED BY <1>2, <1>5, <2>1
<1>8. /\ b \in [Seqs -> Row]
      /\ \A k \in Seqs : /\ b[k].state = r[k].state /\ b[k].chosen = r[k].chosen
                         /\ contract[k].uses # st.want => b[k] = r[k]
  <2> HIDE DEF r
  <2> QED BY <1>2, <1>7, BoundIs
<1>9. v = AcquireDone(b, s, st.unavailable)
  BY DEF AcquiredRows
<1> HIDE DEF s, v, A, S, r, b
<1>10. \A k \in Seqs : contract[k].kind = "acquire" => contract[k].uses # contract[s].want
  BY <1>3, <1>6 DEF StepOk
<1>11. /\ b[s].node = n
       /\ \A k \in Seqs : b[k].chosen = View(h)[k].chosen
       /\ \A k \in Seqs \ {s} : /\ b[k].state = View(h)[k].state
                                /\ contract[k].kind = "acquire" => b[k].node = View(h)[k].node
  BY <1>2, <1>3, <1>7, <1>8, <1>10
<1>12. n \in Whoever /\ n # NoNode
  BY <1>2, Matched DEF Whoever
<1>13. Settles(View(h), s, n, contract[s].unavailable, v)
  BY <1>2, <1>3, <1>5, <1>8, <1>9, <1>11, <1>12, SettlesIs
<1> DEFINE u == Wrote(h, S, v, "acquire")
<1>14. u.pc = "acquire" /\ Written(h, S, v, u) /\ SameNodes(tx[h], u)
  BY <1>2, <1>4, WroteIs
<1>15. t.pc = u.pc /\ t.w = u.w /\ t.seq = u.seq
  BY <1>2 DEF Takes
<1> HIDE DEF u
<1>16. t.pc = "acquire" /\ Written(h, {s}, v, t) /\ t.seq = tx[h].seq
  BY <1>14, <1>15 DEF Written, SameNodes, S
<1> QED BY <1>2, <1>3, <1>4, <1>12, <1>13, <1>16, RoadSettles

LEMMA RoadAcquireNothing ==
    ASSUME TypedInv, RoadInv, NEW h \in Handlers, AcquireNothing(h)
    PROVE  RoadInv'
<1> DEFINE s == Least(Acquirable(h))
           r == [View(h) EXCEPT ![s].node = NoNode]
           v == AcquireDone(r, s, contract[s].acquired)
           S == {s}
           u == Wrote(h, S, v, "acquire")
<1>1. s \in Seqs /\ v \in [Seqs -> Row] /\ S \in SUBSET Seqs /\ Free(h, {s}, v) /\ Step(h, u)
  BY AcquireNothingIs
<1>2. contract[s].kind = "acquire"
  BY AcquirableIs DEF AcquireNothing
<1>3. tx[h].pc = "acquire" /\ UNCHANGED <<contract, row>> /\ Typed /\ "acquire" \in Places
  BY DEF AcquireNothing, tables, TypedInv, Places
<1>4. View(h) \in [Seqs -> Row]
  BY <1>3, ViewIs
<1>5. NoNode \in Whoever
  BY DEF Whoever
<1>6. /\ r \in [Seqs -> Row] /\ r[s].node = NoNode /\ r[s].chosen = View(h)[s].chosen
      /\ \A k \in Seqs \ {s} : r[k] = View(h)[k]
  <2>1. LET y == [View(h)[s] EXCEPT !.node = NoNode]
        IN  y \in Row /\ y.node = NoNode /\ y.chosen = View(h)[s].chosen
    BY <1>1, <1>4, <1>5, RowNode
  <2> QED BY <1>1, <1>4, <2>1
<1>7. v = AcquireDone(r, s, contract[s].acquired)
  OBVIOUS
<1> HIDE DEF s, r, v
<1>8. Settles(View(h), s, NoNode, contract[s].acquired, v)
  <2>1. \A k \in Seqs : r[k].chosen = View(h)[k].chosen
    BY <1>6
  <2>2. \A k \in Seqs \ {s} : /\ r[k].state = View(h)[k].state
                              /\ contract[k].kind = "acquire" => r[k].node = View(h)[k].node
    BY <1>6
  <2> QED BY <1>1, <1>2, <1>4, <1>5, <1>6, <1>7, <2>1, <2>2, SettlesIs
<1> HIDE DEF S
<1>9. u.pc = "acquire" /\ Written(h, S, v, u) /\ SameNodes(tx[h], u)
  BY <1>1, <1>3, WroteIs
<1> HIDE DEF u
<1>10. u.seq = tx[h].seq /\ Written(h, {s}, v, u)
  BY <1>9 DEF SameNodes, S
<1> QED BY <1>1, <1>2, <1>3, <1>8, <1>9, <1>10, RoadSettles

LEMMA RoadRaise ==
    ASSUME TypedInv, RoadInv, NEW h \in Handlers, RaiseAsks(h)
    PROVE  RoadInv'
<1> DEFINE v == Raised(View(h))
           S == {}
           u == Wrote(h, S, v, "commit")
<1>1. Free(h, S, v) /\ Step(h, u) /\ tx[h].pc = "acquire" /\ UNCHANGED <<contract, row>>
  BY DEF RaiseAsks, tables
<1>2. View(h) \in [Seqs -> Row] /\ Typed /\ "commit" \in Places
  BY ViewIs DEF TypedInv, Places
<1>3. v \in [Seqs -> Row] /\ S \in SUBSET Seqs
  BY <1>2, RaisedIs
<1>4. Tame => Quiet(View(h), v) /\ \A s \in Seqs : RowFits(s, v[s])
  BY <1>2, ViewFits, RaisesQuietly
<1> HIDE DEF v, S
<1>5. u.pc = "commit" /\ Written(h, S, v, u) /\ SameNodes(tx[h], u)
  BY <1>2, <1>3, WroteIs
<1> HIDE DEF u
<1>6. u.seq = tx[h].seq /\ DOMAIN u.w = DOMAIN tx[h].w \cup Writes(h, S, v)
  BY <1>5 DEF SameNodes, Written
<1>7. Tame => TxGood(u, row)
  BY <1>1, <1>3, <1>4, <1>5, <1>6, QuietWrite
<1> QED BY <1>1, <1>6, <1>7, RoadWrites

LEMMA RoadFails ==
    ASSUME TypedInv, RoadInv, NEW h \in Handlers, NamesNoTarget(h) \/ AcquireWithoutLease(h)
    PROVE  RoadInv'
<1> DEFINE u == Failed(h, tx[h])
<1>1. Step(h, u) /\ tx[h].pc \in {"effects", "acquire"} /\ UNCHANGED <<contract, row>>
  BY DEF NamesNoTarget, AcquireWithoutLease, tables
<1>2. u = Closed \/ (Fails(tx[h], u) /\ SameNodes(tx[h], u))
  BY FailedIs DEF TypedInv
<1> HIDE DEF u
<1>3. Tame => TxGood(u, row)
  BY <1>1, <1>2, ClosedIsGood, FailureIsGood
<1>4. DOMAIN u.w \cap Locked(h) = {}
  BY <1>2, ClosedIs, LockedIs DEF Fails
<1> QED BY <1>1, <1>3, <1>4, RoadMoves

\* Committed rows change under a transaction that has not written them, and
\* open no end of a fork it has written.
LEMMA RowsMove ==
    ASSUME NEW t, NEW r, TxGood(t, r), NEW q, \A s \in DOMAIN t.w : q[s] = r[s],
           \A s \in Seqs \ DOMAIN t.w :
                Waiting(q[s]) => Waiting(r[s]) \/ Forks(s) \cap DOMAIN t.w = {},
           DOMAIN t.w \subseteq Seqs, contract \in Contracts, AcquiresArePlain
    PROVE  TxGood(t, q)
<1>1. Reopens(t, q)
  BY DEF TxGood, Reopens
<1>2. Closes(t, q)
  <2>1. SUFFICES ASSUME NEW f \in DOMAIN t.w, ~(t.pc \in {"back", "effects"} /\ f = t.seq),
                        NEW s \in Branches(contract[f]),
                        Passed(t.w[f], f, s), ~Passed(q[f], f, s), Waiting(Seen(t, q, s))
                 PROVE  FALSE
    BY DEF Closes
  <2>2. f \in Seqs /\ s \in Seqs /\ f \in Forks(s)
    BY BranchesAre DEF Forks
  <2>3. ~Waiting(Seen(t, r, s))
    BY <2>1 DEF TxGood, Closes
  <2>4. s \notin DOMAIN t.w /\ Waiting(q[s]) /\ ~Waiting(r[s])
    BY <2>1, <2>3 DEF Seen
  <2> QED BY <2>2, <2>4
<1> QED BY <1>1, <1>2 DEF TxGood

LEMMA RoadClaim ==
    ASSUME TypedInv, RoadInv, NEW n \in Nodes, Claim(n)
    PROVE  RoadInv'
<1>1. PICK s \in Seqs :
            /\ row[s].state = "PENDING" /\ row[s].node = n
            /\ \A h \in Handlers : s \notin DOMAIN tx[h].w
            /\ row' = [row EXCEPT ![s] = [row[s] EXCEPT !.state = "CLAIMED"]]
            /\ UNCHANGED <<contract, held, assigned, tx, faults, history>>
  BY ClaimIs
<1>2. /\ row'[s].state = "CLAIMED" /\ row'[s].chosen = row[s].chosen
      /\ \A k \in Seqs \ {s} : row'[k] = row[k]
  <2>1. row \in [Seqs -> Row] /\ row[s] \in Row
    BY DEF TypedInv, Typed
  <2>2. LET y == [row[s] EXCEPT !.state = "CLAIMED"] IN y.state = "CLAIMED" /\ y.chosen = row[s].chosen
    BY <2>1, RowState
  <2> QED BY <1>1, <2>1, <2>2
<1>3. \A k \in Seqs : Waiting(row'[k]) => Waiting(row[k])
  BY <1>2 DEF Waiting
<1>4. ASSUME Tame PROVE RoadsFit(row')
  <2>1. RoadsFit(row)
    BY <1>4 DEF RoadInv
  <2>2. RowFits(s, row[s]) /\ contract[s].kind # "acquire"
    BY <1>1, <2>1, Matched DEF RoadsFit, RowFits
  <2>3. \A k \in Seqs : RowFits(k, row'[k])
    BY <1>2, <2>1, <2>2 DEF RoadsFit, RowFits
  <2>4. \A k, f \in Seqs : Passed(row'[f], f, k) => Passed(row[f], f, k)
    BY <1>2 DEF Passed
  <2>5. ASSUME NEW k \in Seqs, Waiting(row'[k]), Forks(k) # {}
        PROVE  \E f \in Forks(k) : ~Passed(row'[f], f, k)
    <3>1. PICK f \in Forks(k) : ~Passed(row[f], f, k)
      BY <1>3, <2>1, <2>5 DEF RoadsFit
    <3> QED BY <2>4, <3>1 DEF Forks
  <2> QED BY <2>3, <2>5 DEF RoadsFit
<1>5. ASSUME Tame, NEW h \in Handlers PROVE TxGood(tx[h], row')
  <2>1. TxGood(tx[h], row) /\ AcquiresArePlain /\ contract \in Contracts /\ DOMAIN tx[h].w \subseteq Seqs
    BY <1>5, ViewIs DEF RoadInv, Tame, TypedInv, Typed
  <2>2. \A k \in DOMAIN tx[h].w : row'[k] = row[k]
    BY <1>1, <1>2, <2>1
  <2> QED BY <1>3, <2>1, <2>2, RowsMove
<1>6. contract' = contract /\ tx' = tx
  BY <1>1
<1> QED BY <1>4, <1>5, <1>6, RoadsKept DEF RoadInv

LEMMA RoadCommit ==
    ASSUME TypedInv, RoadInv, NEW h \in Handlers, Commit(h)
    PROVE  RoadInv'
<1> DEFINE w == tx[h].w
<1>1. row' = View(h) /\ contract' = contract /\ Step(h, Closed) /\ tx[h].pc = "commit"
  BY DEF Commit
<1>2. \A k \in Handlers : tx'[k] = IF k = h THEN Closed ELSE tx[k]
  BY <1>1 DEF Step, TypedInv, Typed
<1>3. /\ DOMAIN w \in SUBSET Seqs
      /\ \A s \in DOMAIN w : row'[s] = w[s]
      /\ \A s \in Seqs \ DOMAIN w : row'[s] = row[s]
  BY <1>1, ViewIs DEF TypedInv
<1>4. Locks(tx')
  BY <1>2, ClosedIs DEF Locks, RoadInv
<1>5. Tame => contract \in Contracts /\ AcquiresArePlain /\ RoadsFit(row) /\ TxGood(tx[h], row)
  BY DEF Tame, RoadInv, TypedInv, Typed
<1> HIDE DEF w
<1>6. ASSUME Tame, NEW s \in Seqs, Waiting(row'[s]), ~Waiting(row[s])
      PROVE  /\ s \in DOMAIN w
             /\ \A f \in Forks(s) : f \in DOMAIN w /\ ~(Passed(row[f], f, s) /\ Passed(w[f], f, s))
  <2>1. s \in DOMAIN w /\ Waiting(w[s])
    BY <1>3, <1>6
  <2> QED BY <1>5, <1>6, <2>1 DEF TxGood, Reopens, w
<1>7. ASSUME Tame PROVE RoadsFit(row')
  <2>1. ASSUME NEW s \in Seqs PROVE RowFits(s, row'[s])
    BY <1>1, <1>7, ViewFits
  <2>2. ASSUME NEW s \in Seqs, Waiting(row'[s]), Forks(s) # {}, \A f \in Forks(s) : Passed(row'[f], f, s)
        PROVE  FALSE
    <3>1. CASE \E f \in Forks(s) : ~Passed(row[f], f, s)
      <4>1. PICK f \in Forks(s) : ~Passed(row[f], f, s)
        BY <3>1
      <4>2. f \in Seqs /\ s \in Branches(contract[f])
        BY DEF Forks
      <4>3. f \in DOMAIN w /\ Passed(w[f], f, s)
        BY <1>3, <2>2, <4>1, <4>2
      <4>4. ~Waiting(Seen(tx[h], row, s))
        BY <1>1, <1>5, <1>7, <4>1, <4>2, <4>3 DEF TxGood, Closes, w
      <4>5. Seen(tx[h], row, s) = row'[s]
        BY <1>3, <2>2 DEF Seen, w
      <4> QED BY <2>2, <4>4, <4>5
    <3>2. CASE \A f \in Forks(s) : Passed(row[f], f, s)
      <4>1. ~Waiting(row[s])
        BY <1>5, <1>7, <2>2, <3>2 DEF RoadsFit
      <4>2. PICK f \in Forks(s) : TRUE
        BY <2>2
      <4>3. f \in DOMAIN w /\ ~Passed(w[f], f, s)
        BY <1>6, <1>7, <2>2, <3>2, <4>1, <4>2
      <4> QED BY <1>3, <2>2, <4>2, <4>3
    <3> QED BY <3>1, <3>2
  <2> QED BY <2>1, <2>2 DEF RoadsFit
<1>8. ASSUME Tame, NEW k \in Handlers \ {h} PROVE TxGood(tx[k], row')
  <2>1. DOMAIN tx[k].w \cap DOMAIN w = {} /\ TxGood(tx[k], row) /\ DOMAIN tx[k].w \subseteq Seqs
    BY <1>8, ViewIs DEF RoadInv, Locks, TypedInv, w
  <2>2. \A s \in DOMAIN tx[k].w : row'[s] = row[s]
    BY <1>3, <2>1
  <2>3. ASSUME NEW s \in Seqs, Waiting(row'[s]), ~Waiting(row[s]) PROVE Forks(s) \cap DOMAIN tx[k].w = {}
    BY <1>6, <1>8, <2>1, <2>3
  <2> QED BY <1>5, <1>8, <2>1, <2>2, <2>3, RowsMove
<1>9. Tame => \A k \in Handlers : TxGood(tx'[k], row')
  BY <1>2, <1>8, ClosedIsGood
<1> QED BY <1>1, <1>4, <1>7, <1>9, RoadsKept

LEMMA RoadFirst ==
    ASSUME Init
    PROVE  RoadInv
<1>1. /\ \A s \in Seqs : /\ row[s].state = "ABSENT" /\ row[s].chosen = FALSE
                         /\ contract[s].kind = "acquire" => row[s].node = NoNode
      /\ Creator \in Handlers /\ FirstTxIs(tx[Creator])
      /\ \A h \in Handlers : h # Creator => tx[h] = Closed
      /\ contract \in Contracts
  BY InitIs
<1>2. Locks(tx)
  <2>1. \A h \in Handlers : h # Creator => DOMAIN tx[h].w = {}
    BY <1>1, ClosedIs
  <2> QED BY <2>1 DEF Locks
<1>3. RoadsFit(row)
  BY <1>1 DEF RoadsFit, RowFits, Waiting
<1> DEFINE t == tx[Creator]
<1>4. /\ DOMAIN t.w = Seqs /\ t.seq = 0
      /\ \A s \in Seqs : /\ t.w[s].state = "PENDING" /\ t.w[s].chosen = FALSE
                         /\ contract[s].kind = "acquire" => t.w[s].node = NoNode
  BY <1>1, FirstRowIs DEF FirstTxIs
<1>5. TxGood(t, row)
  <2>1. \A s \in DOMAIN t.w : RowFits(s, t.w[s])
    BY <1>4 DEF RowFits
  <2>2. Reopens(t, row)
    BY <1>1, <1>4 DEF Reopens, Forks, Passed
  <2>3. Closes(t, row)
    BY <1>4 DEF Closes, Passed
  <2> QED BY <1>4, <2>1, <2>2, <2>3 DEF TxGood
<1>6. \A h \in Handlers : TxGood(tx[h], row)
  BY <1>1, <1>5, ClosedIsGood
<1> QED BY <1>2, <1>3, <1>6 DEF RoadInv

LEMMA RoadStutters ==
    ASSUME RoadInv, UNCHANGED <<contract, row, tx>>
    PROVE  RoadInv'
BY RoadsKept DEF RoadInv

LEMMA RoadStepwise ==
    ASSUME TypedInv, RoadInv, [Next]_vars
    PROVE  RoadInv'
<1>1. ASSUME NEW n \in Nodes, Work(n) \/ Report(n) PROVE RoadInv'
  BY <1>1, RoadClaim, RoadStutters, RoadReport
     DEF Work, Report, Redeliver, Abandon, ReportRefused, tables
<1>2. ASSUME NEW h \in Handlers, Handle(h) PROVE RoadInv'
  BY <1>2, RoadBack, RoadGoOn, RoadEffects, RoadFails, RoadAcquire, RoadAcquireNothing, RoadRaise,
     RoadCommit DEF Handle
<1>3. ASSUME NEW h \in Handlers, Rollback(h) PROVE RoadInv'
  <2>1. Step(h, Closed) /\ UNCHANGED <<contract, row>>
    BY <1>3 DEF Rollback, tables
  <2>2. DOMAIN Closed.w \cap Locked(h) = {}
    BY ClosedIs
  <2> QED BY <2>1, <2>2, ClosedIsGood, RoadMoves
<1>4. ASSUME NEW h \in Handlers, NEW s \in Seqs, Answer(h, s) PROVE RoadInv'
  BY <1>4, RoadReport
<1>5. ASSUME UNCHANGED vars PROVE RoadInv'
  BY <1>5, RoadStutters DEF vars, tables
<1> QED BY <1>1, <1>2, <1>3, <1>4, <1>5 DEF Next

\* A step that every fork to it has passed by does not wait for a node,
\* however reports interleave (dispatch.go, acquire.go).
THEOREM RoadsNotTaken == Spec => []RoadsStayClosed
<1>1. Init => RoadInv
  BY RoadFirst
<1>2. TypedInv /\ RoadInv /\ [Next]_vars => RoadInv'
  BY RoadStepwise
<1>3. RoadInv => RoadsStayClosed
  <2> SUFFICES ASSUME RoadInv, Tame, NEW s \in PassedBy, row[s].state = "PENDING" PROVE FALSE
    BY DEF RoadsStayClosed, Tame
  <2>1. s \in Seqs /\ Forks(s) # {} /\ \A f \in Forks(s) : row[f].state = "DONE" /\ ~Took(f, s)
    BY DEF PassedBy, Forks
  <2>2. RowFits(s, row[s]) /\ (Waiting(row[s]) => \E f \in Forks(s) : ~Passed(row[f], f, s))
    BY <2>1 DEF RoadInv, RoadsFit
  <2>3. CASE row[s].chosen
    <3>1. PICK f \in Seqs : contract[f].kind # "acquire" /\ s \in contract[f].to
      BY <2>2, <2>3 DEF RowFits
    <3>2. f \in Forks(s)
      BY <3>1 DEF Forks, Branches
    <3> QED BY <2>1, <2>3, <3>1, <3>2 DEF Took
  <2>4. CASE ~row[s].chosen
    <3>1. PICK f \in Forks(s) : ~Passed(row[f], f, s)
      BY <2>2, <2>4 DEF Waiting
    <3> QED BY <2>1, <3>1 DEF Took, Passed
  <2> QED BY <2>3, <2>4
<1> QED BY <1>1, <1>2, <1>3, GraphTyped, PTL DEF Spec

-----------------------------------------------------------------------------
(* The order of steps, if acquires are plain. What a step waits for stands  *)
(* before it.                                                               *)

LEMMA NeedsBefore ==
    ASSUME contract \in Contracts, NEW s \in Seqs
    PROVE  NeedsOf(contract, s) \subseteq 1..(s - 1) /\ NeedsOf(contract, s) \subseteq Seqs
<1> DEFINE c == contract
<1>1. Len(c) \in Nat /\ Seqs = 1..Len(c) /\ DOMAIN c = Seqs
  BY ContractShape
<1>2. NeedsOk(c)
  BY Accepted DEF Validate
<1>3. PICK forks : forks = {j \in 1..(s - 1) : s \in Branches(c[j])}
  OBVIOUS
<1>4. NeedsOf(c, s) = CASE c[s].needs # {} -> CHOOSE S \in c[s].needs : TRUE
                       [] c[s].needs = {} /\ forks # {} -> {Least(forks)}
                       [] OTHER -> {s - 1} \ {0}
  BY <1>3 DEF NeedsOf
<1>5. NeedsOf(c, s) \subseteq 1..(s - 1)
  <2>1. CASE c[s].needs # {}
    <3>1. PICK S \in c[s].needs : NeedsOf(c, s) = S
      BY <1>4, <2>1
    <3> QED BY <1>1, <1>2, <3>1 DEF NeedsOk
  <2>2. CASE c[s].needs = {} /\ forks # {}
    <3>1. NeedsOf(c, s) = {Least(forks)}
      BY <1>4, <2>2
    <3>2. forks \in SUBSET Nat
      BY <1>3
    <3>3. Least(forks) \in forks
      BY <2>2, <3>2, LeastIsMember
    <3> QED BY <1>3, <3>1, <3>3
  <2>3. CASE c[s].needs = {} /\ forks = {}
    <3>1. NeedsOf(c, s) = {s - 1} \ {0}
      BY <1>4, <2>3
    <3> QED BY <1>1, <3>1
  <2> QED BY <2>1, <2>2, <2>3
<1> QED BY <1>1, <1>5

\* Strong induction over the steps: a set of steps that holds every step whose
\* needs it holds is all of them.
LEMMA ByNeeds ==
    ASSUME contract \in Contracts, NEW S, \A s \in Seqs : NeedsOf(contract, s) \subseteq S => s \in S
    PROVE  Seqs \subseteq S
<1>1. Seqs \in SUBSET Nat
  BY ContractShape
<1> SUFFICES ASSUME Seqs \ S # {} PROVE FALSE
  OBVIOUS
<1>2. Seqs \ S \in SUBSET Nat
  BY <1>1
<1>3. PICK m \in Seqs \ S : \A k \in Seqs \ S : m <= k
  BY <1>2, LeastExists
<1>4. NeedsOf(contract, m) \subseteq 1..(m - 1) /\ NeedsOf(contract, m) \subseteq Seqs
  BY NeedsBefore
<1>5. \A j \in NeedsOf(contract, m) : j \in S
  BY <1>1, <1>3, <1>4
<1> QED BY <1>3, <1>5

\* f is the recursion by which Through is defined.
ComesThrough(A, f) ==
    f = [k \in 1..Len(contract) |->
            UNION {{j} \cup (IF j \in A THEN f[j] ELSE {}) : j \in NeedsOf(contract, k) \cap 1..(k - 1)}]

\* d is the recursion by which Propagate finds the dead among the rows v.
FindsDead(v, d) ==
    d = [s \in Seqs |->
            \/ v[s].state = "SKIPPED"
            \/ /\ v[s].state = "PENDING" /\ NeedsOf(contract, s) # {}
               /\ \A n \in NeedsOf(contract, s) : d[n]]

\* There are such functions: steps wait for earlier ones only.
LEMMA ThroughExists ==
    ASSUME contract \in Contracts, NEW A
    PROVE  \E f : ComesThrough(A, f)
<1> DEFINE c == contract
           At1(f, k) == UNION {{j} \cup (IF j \in A THEN f[j] ELSE {}) : j \in NeedsOf(c, k) \cap 1..(k - 1)}
           Upto(m) == \E f : f = [k \in 1..m |-> At1(f, k)]
           Short == {m \in 0..Len(c) : ~Upto(m)}
<1>1. Len(c) \in Nat
  BY ContractShape
<1>2. Upto(0)
  <2>1. \A f, g : [k \in 1..0 |-> At1(f, k)] = [k \in 1..0 |-> At1(g, k)]
    OBVIOUS
  <2> QED BY <2>1
<1>3. ASSUME NEW m \in Nat, m # 0, Upto(m - 1)
      PROVE  Upto(m)
  <2>1. PICK g : g = [k \in 1..(m - 1) |-> At1(g, k)]
    BY <1>3
  <2>2. PICK f : f = [k \in 1..m |-> At1(g, k)]
    OBVIOUS
  <2>3. \A k \in 1..(m - 1) : f[k] = g[k]
    <3> HIDE DEF At1
    <3>1. \A k \in 1..(m - 1) : k \in 1..m
      BY <1>3
    <3> QED BY <2>1, <2>2, <3>1
  <2>4. ASSUME NEW k \in 1..m
        PROVE  At1(f, k) = At1(g, k)
    <3>1. \A j \in NeedsOf(c, k) \cap 1..(k - 1) : f[j] = g[j]
      BY <1>3, <2>3
    <3> QED BY <3>1
  <2> HIDE DEF At1
  <2> QED BY <2>2, <2>4
<1> HIDE DEF Upto
<1>4. Short = {}
  <2> SUFFICES ASSUME Short # {} PROVE FALSE
    OBVIOUS
  <2>1. PICK m \in Short : \A k \in Short : m <= k
    <3>1. Short \in SUBSET Nat
      OBVIOUS
    <3> QED BY <3>1, LeastExists
  <2>2. m \in Nat /\ m # 0
    BY <1>2, <2>1
  <2>3. Upto(m - 1)
    BY <1>1, <2>1, <2>2
  <2> QED BY <1>3, <2>1, <2>2, <2>3
<1>5. Upto(Len(c))
  BY <1>1, <1>4
<1> QED BY <1>5 DEF Upto, ComesThrough

LEMMA DeadExist ==
    ASSUME contract \in Contracts, NEW v
    PROVE  \E d : FindsDead(v, d)
<1> DEFINE c == contract
           At1(d, s) == \/ v[s].state = "SKIPPED"
                        \/ /\ v[s].state = "PENDING" /\ NeedsOf(c, s) # {}
                           /\ \A n \in NeedsOf(c, s) : d[n]
           Upto(m) == \E d : d = [s \in 1..m |-> At1(d, s)]
           Short == {m \in 0..Len(c) : ~Upto(m)}
<1>1. Len(c) \in Nat /\ Seqs = 1..Len(c)
  BY ContractShape
<1>2. Upto(0)
  <2>1. \A f, g : [k \in 1..0 |-> At1(f, k)] = [k \in 1..0 |-> At1(g, k)]
    OBVIOUS
  <2> QED BY <2>1
<1>3. ASSUME NEW m \in 1..Len(c), Upto(m - 1)
      PROVE  Upto(m)
  <2>1. PICK g : g = [s \in 1..(m - 1) |-> At1(g, s)]
    BY <1>3
  <2>2. PICK f : f = [s \in 1..m |-> At1(g, s)]
    OBVIOUS
  <2>3. \A s \in 1..(m - 1) : f[s] = g[s]
    <3> HIDE DEF At1
    <3>1. \A s \in 1..(m - 1) : s \in 1..m
      BY <1>1
    <3> QED BY <2>1, <2>2, <3>1
  <2>4. ASSUME NEW s \in 1..m
        PROVE  At1(f, s) = At1(g, s)
    <3>1. NeedsOf(c, s) \subseteq 1..(s - 1)
      BY <1>1, NeedsBefore
    <3>2. \A n \in NeedsOf(c, s) : f[n] = g[n]
      BY <1>1, <2>3, <3>1
    <3> QED BY <3>2
  <2> HIDE DEF At1
  <2> QED BY <2>2, <2>4
<1> HIDE DEF Upto
<1>4. Short = {}
  <2> SUFFICES ASSUME Short # {} PROVE FALSE
    OBVIOUS
  <2>1. PICK m \in Short : \A k \in Short : m <= k
    <3>1. Short \in SUBSET Nat
      OBVIOUS
    <3> QED BY <3>1, LeastExists
  <2>2. m \in 1..Len(c)
    BY <1>1, <1>2, <2>1
  <2>3. Upto(m - 1)
    BY <1>1, <2>1, <2>2
  <2> QED BY <1>3, <2>1, <2>2, <2>3
<1>5. Upto(Len(c))
  BY <1>1, <1>4
<1> QED BY <1>1, <1>5 DEF Upto, FindsDead

\* p comes before s through A when s waits for it, or for a step of A before
\* which it comes.
LEMMA ThroughUnfolds ==
    ASSUME contract \in Contracts, NEW A, NEW s \in Seqs, NEW p
    PROVE  p \in Through(contract, A, s) <=>
              \E j \in NeedsOf(contract, s) : p = j \/ (j \in A /\ p \in Through(contract, A, j))
<1> DEFINE g == CHOOSE f : ComesThrough(A, f)
<1>0. \E f : ComesThrough(A, f)
  BY ThroughExists
<1>1. \A i : Through(contract, A, i) = g[i]
  BY DEF Through, ComesThrough
<1>2. ComesThrough(A, g)
  BY <1>0
<1> HIDE DEF g
<1>3. s \in 1..Len(contract) /\ NeedsOf(contract, s) \cap 1..(s - 1) = NeedsOf(contract, s)
  BY ContractShape, NeedsBefore
<1>4. g[s] = UNION {{j} \cup (IF j \in A THEN g[j] ELSE {}) : j \in NeedsOf(contract, s)}
  BY <1>2, <1>3 DEF ComesThrough
<1> QED BY <1>1, <1>4

\* What waits is skipped if all its needs are in the end.
LEMMA PropagatesBack ==
    ASSUME contract \in Contracts, NEW v \in [Seqs -> Row], NEW s \in Seqs
    PROVE  Propagate(v)[s].state # v[s].state => \A j \in NeedsOf(contract, s) : Propagate(v)[j].state = "SKIPPED"
<1> DEFINE d == CHOOSE f : FindsDead(v, f)
           all == [k \in Seqs |-> IF v[k].state = "PENDING" /\ d[k]
                                  THEN [v[k] EXCEPT !.state = "SKIPPED"] ELSE v[k]]
<1>0. \E f : FindsDead(v, f)
  BY DeadExist
<1>1. Propagate(v) = all
  BY DEF Propagate, FindsDead
<1>2. FindsDead(v, d)
  BY <1>0
<1> HIDE DEF d
<1>3. \A k \in Seqs : d[k] <=> \/ v[k].state = "SKIPPED"
                               \/ /\ v[k].state = "PENDING" /\ NeedsOf(contract, k) # {}
                                  /\ \A n \in NeedsOf(contract, k) : d[n]
  BY <1>2 DEF FindsDead
<1>4. \A k \in Seqs : [v[k] EXCEPT !.state = "SKIPPED"].state = "SKIPPED"
  BY RowState
<1>5. \A k \in Seqs : d[k] => all[k].state = "SKIPPED"
  BY <1>3, <1>4
<1>6. NeedsOf(contract, s) \subseteq Seqs
  BY NeedsBefore
<1> QED BY <1>1, <1>3, <1>5, <1>6

-----------------------------------------------------------------------------
(* Rows, and the order of what they wait for.                               *)

\* The rows as transaction t, over committed rows r, sees them.
Sees(t, r) == [s \in Seqs |-> Seen(t, r, s)]

OnOneRoad(p) == OneRoad(contract, BroughtBack, p)

\* s has to wait for p through steps of A, and p does not begin again without
\* s and those of A.
Waits(s, p, A) ==
    /\ p \in Through(contract, A, s) /\ OnOneRoad(p) /\ \A j \in A : OnOneRoad(j)
    /\ \A e \in Seqs \ {p} : p \in BroughtBack[e] => s \in BroughtBack[e] /\ A \subseteq BroughtBack[e]

\* In the rows v, s has begun, or the fork that leads to it, if any, has passed it by.
HasBegun(v, s) == v[s].state \notin {"ABSENT", "PENDING"} /\ (v[s].state = "SKIPPED" => OnOneRoad(s))

Ended(v, p) == v[p].state \in {"DONE", "SKIPPED", "FAILED"}

\* What a step waits for was over before it, and is.
InOrder(v) ==
    \A s, p \in Seqs : HasBegun(v, s) /\ ~Ended(v, p) => \A A \in SUBSET Seqs : ~Waits(s, p, A)

\* t takes the end of a step back only together with all that begins again with it.
Recalls(t, r) ==
    \A p \in DOMAIN t.w : OnOneRoad(p) /\ Ended(r, p) =>
        Ended(t.w, p) \/ (t.seq \in Seqs /\ \E R \in Rounds(t.seq) : p \in R /\ R \subseteq DOMAIN t.w)

\* The step that s waits for and through which it waits for p.
LEMMA WaitsThrough ==
    ASSUME contract \in Contracts, NEW s \in Seqs, NEW p \in Seqs, NEW A \in SUBSET Seqs, Waits(s, p, A)
    PROVE  \E j \in NeedsOf(contract, s) : j \in Seqs /\ (p = j \/ (j \in A /\ OnOneRoad(j) /\ Waits(j, p, A)))
<1>1. PICK j \in NeedsOf(contract, s) : p = j \/ (j \in A /\ p \in Through(contract, A, j))
  BY ThroughUnfolds DEF Waits
<1>2. j \in Seqs
  BY NeedsBefore
<1>3. CASE p = j
  BY <1>2, <1>3
<1>4. CASE j \in A /\ p \in Through(contract, A, j)
  BY <1>2, <1>4 DEF Waits
<1> QED BY <1>1, <1>3, <1>4

\* v comes after u: what had ended on one road still has, and what begins follows
\* steps that are over.
Advances(u, v) ==
    /\ \A p \in Seqs : OnOneRoad(p) /\ Ended(u, p) => Ended(v, p)
    /\ \A s \in Seqs : HasBegun(v, s) =>
        HasBegun(u, s) \/ \A j \in NeedsOf(contract, s) : v[j].state \in {"DONE", "SKIPPED"}

LEMMA InOrderOn ==
    ASSUME contract \in Contracts, NEW u, NEW v, InOrder(u), Advances(u, v)
    PROVE  InOrder(v)
<1> DEFINE Good == {s \in Seqs : \A p \in Seqs : \A A \in SUBSET Seqs :
                        Waits(s, p, A) /\ HasBegun(v, s) => Ended(v, p)}
<1>1. ASSUME NEW s \in Seqs, NeedsOf(contract, s) \subseteq Good
      PROVE  s \in Good
  <2> SUFFICES ASSUME NEW p \in Seqs, NEW A \in SUBSET Seqs, Waits(s, p, A), HasBegun(v, s)
               PROVE  Ended(v, p)
    OBVIOUS
  <2>1. OnOneRoad(p)
    BY DEF Waits
  <2>2. CASE HasBegun(u, s)
    BY <2>1, <2>2 DEF InOrder, Advances
  <2>3. CASE \A j \in NeedsOf(contract, s) : v[j].state \in {"DONE", "SKIPPED"}
    <3>1. PICK j \in NeedsOf(contract, s) :
                j \in Seqs /\ (p = j \/ (j \in A /\ OnOneRoad(j) /\ Waits(j, p, A)))
      BY WaitsThrough
    <3>2. CASE p = j
      BY <2>3, <3>2 DEF Ended
    <3>3. CASE OnOneRoad(j) /\ Waits(j, p, A)
      <4>1. HasBegun(v, j)
        BY <2>3, <3>3 DEF HasBegun
      <4>2. j \in Good
        BY <1>1
      <4> QED BY <3>3, <4>1, <4>2
    <3> QED BY <3>1, <3>2, <3>3
  <2> QED BY <2>2, <2>3 DEF Advances
<1> HIDE DEF Good
<1>2. Seqs \subseteq Good
  BY <1>1, ByNeeds
<1> QED BY <1>2 DEF Good, InOrder

\* The rounds of a step that is no acquire hold it, and no acquires.
LEMMA RoundIs ==
    ASSUME contract \in Contracts, AcquiresArePlain, NEW k \in Seqs, contract[k].kind # "acquire",
           NEW R \in Rounds(k)
    PROVE  k \in R /\ R \subseteq Seqs /\ \A s \in R : contract[s].kind # "acquire"
<1>1. Seqs = 1..Len(contract) /\ Len(contract) \in Nat /\ StepOk(k) /\ 0 \notin Seqs
  BY ContractShape
<1>2. CASE contract[k].back # 0 /\ R = LoopRange(k)
  <2>1. R \subseteq Seqs
    BY <1>2, LoopRangeIs
  <2>2. k \in R
    BY <1>1, <1>2 DEF LoopRange, StepOk
  <2> QED BY <1>2, <2>1, <2>2 DEF LoopRange
<1>3. CASE Checked(k) # {} /\ R = {Target(k), k}
  <2>1. Target(k) \in Seqs /\ contract[Target(k)].checker = k
    BY <1>3, TargetIs
  <2>2. contract[Target(k)].kind # "acquire"
    BY <1>1, <2>1 DEF AcquiresArePlain
  <2> QED BY <1>3, <2>1, <2>2
<1> QED BY <1>2, <1>3 DEF Rounds

\* Unless retries meet, a step has one round, and begins again in one.
LEMMA OneRound ==
    ASSUME contract \in Contracts, AcquiresArePlain, ~RetriesMeet, NEW k \in Seqs,
           contract[k].kind # "acquire", NEW R \in Rounds(k)
    PROVE  BroughtBack[k] = R
<1>1. \A A \in Rounds(k) : A = R
  <2> SUFFICES ASSUME NEW A \in Rounds(k) PROVE A = R
    OBVIOUS
  <2>1. k \in A \cap R
    BY RoundIs
  <2> QED BY <2>1 DEF RetriesMeet
<1> QED BY <1>1 DEF BroughtBack

LEMMA OneBrings ==
    ASSUME ~RetriesMeet, NEW d \in Seqs, NEW e \in Seqs, BroughtBack[d] \cap BroughtBack[e] # {}
    PROVE  d = e
<1>1. PICK p : p \in BroughtBack[d] /\ p \in BroughtBack[e]
  OBVIOUS
<1>2. PICK A \in Rounds(d) : p \in A
  BY <1>1 DEF BroughtBack
<1>3. PICK B \in Rounds(e) : p \in B
  BY <1>1 DEF BroughtBack
<1> QED BY <1>2, <1>3 DEF RetriesMeet

\* Rows of acquires are no node's: they are done at once, and only then have a node.
\* A step that needs none has none.
PlainRow(s, x) ==
    /\ contract[s].kind = "acquire" =>
        /\ x.state \in {"ABSENT", "PENDING", "DONE", "SKIPPED"}
        /\ x.state # "DONE" => x.node = NoNode
    /\ contract[s].uses = NoRole /\ contract[s].kind # "acquire" => x.node = NoNode

Unborn(r) == \A s \in Seqs : r[s].state = "ABSENT"
First(t) == t.pc # "idle" /\ t.seq = 0

\* Transaction t, over committed rows r, is the one that creates the Run or is about
\* a step that it ends.
TxSteps(t, r) ==
    /\ \A s \in DOMAIN t.w : PlainRow(s, t.w[s]) /\ t.w[s].state # "ABSENT"
    /\ \A s \in DOMAIN t.w : contract[s].kind = "acquire" /\ r[s].state = "DONE" => t.w[s].state = "DONE"
    /\ t.seq # 0 => /\ t.seq \in DOMAIN t.w /\ r[t.seq].state \in {"CLAIMED", "ASKED"}
                    /\ contract[t.seq].kind # "acquire"
                    /\ t.pc \in {"back", "effects", "acquire"} => t.w[t.seq].state = "DONE"
    /\ First(t) => /\ Unborn(r) /\ DOMAIN t.w = Seqs
                   /\ t.drop = {} /\ {Assignment[q] : q \in Roles} \subseteq t.grab

\* What t takes back did not end for those that it leaves alone.
LEMMA Recalled ==
    ASSUME contract \in Contracts, AcquiresArePlain, ~RetriesMeet, NEW t, NEW r, TxSteps(t, r),
           Recalls(t, r), DOMAIN t.w \subseteq Seqs,
           NEW p \in DOMAIN t.w, NEW s \in Seqs \ DOMAIN t.w, NEW A, Waits(s, p, A), Ended(r, p)
    PROVE  Ended(t.w, p)
<1> SUFFICES ASSUME t.seq \in Seqs, NEW R \in Rounds(t.seq), p \in R, R \subseteq DOMAIN t.w PROVE FALSE
  BY DEF Recalls, Waits
<1>1. t.seq # 0
  BY ContractShape
<1>2. r[t.seq].state \in {"CLAIMED", "ASKED"} /\ contract[t.seq].kind # "acquire"
  BY <1>1 DEF TxSteps
<1>3. p # t.seq
  BY <1>2 DEF Ended
<1>4. BroughtBack[t.seq] = R
  BY <1>2, OneRound
<1> QED BY <1>3, <1>4 DEF Waits

\* Rows are committed that t has not written, and end what it saw end.
LEMMA InOrderUnder ==
    ASSUME contract \in Contracts, AcquiresArePlain, ~RetriesMeet, NEW t, NEW r, TxSteps(t, r),
           InOrder(Sees(t, r)), Recalls(t, r), DOMAIN t.w \subseteq Seqs, NEW q, InOrder(q),
           \A s \in DOMAIN t.w : q[s] = r[s],
           \A s \in DOMAIN t.w, p \in Seqs \ DOMAIN t.w : \A A \in SUBSET Seqs :
                Waits(s, p, A) /\ Ended(r, p) => Ended(q, p)
    PROVE  InOrder(Sees(t, q)) /\ Recalls(t, q)
<1>1. Recalls(t, q)
  BY DEF Recalls, Ended
<1>2. \A s \in Seqs : /\ Sees(t, q)[s] = IF s \in DOMAIN t.w THEN t.w[s] ELSE q[s]
                      /\ Sees(t, r)[s] = IF s \in DOMAIN t.w THEN t.w[s] ELSE r[s]
  BY DEF Sees, Seen
<1>3. ASSUME NEW s \in Seqs, NEW p \in Seqs, NEW A \in SUBSET Seqs, HasBegun(Sees(t, q), s), Waits(s, p, A)
      PROVE  Ended(Sees(t, q), p)
  <2>1. CASE s \in DOMAIN t.w
    <3>1. HasBegun(Sees(t, r), s)
      BY <1>2, <1>3, <2>1 DEF HasBegun
    <3>2. Ended(Sees(t, r), p)
      BY <1>3, <3>1 DEF InOrder
    <3> QED BY <1>2, <1>3, <2>1, <3>2 DEF Ended
  <2>2. CASE s \notin DOMAIN t.w
    <3>1. HasBegun(q, s)
      BY <1>2, <1>3, <2>2 DEF HasBegun
    <3>2. Ended(q, p)
      BY <1>3, <3>1 DEF InOrder
    <3>3. CASE p \notin DOMAIN t.w
      BY <1>2, <3>2, <3>3 DEF Ended
    <3>4. CASE p \in DOMAIN t.w
      <4>1. Ended(r, p)
        BY <3>2, <3>4 DEF Ended
      <4>2. Ended(t.w, p)
        BY <1>3, <2>2, <3>4, <4>1, Recalled
      <4> QED BY <1>2, <3>4, <4>2 DEF Ended
    <3> QED BY <3>3, <3>4
  <2> QED BY <2>1, <2>2
<1> QED BY <1>1, <1>3 DEF InOrder

-----------------------------------------------------------------------------
(* What a step of a transaction does, whichever action it is.               *)

\* Transaction h writes v and is t from then on.
Rewrote(h, t, v) ==
    /\ v \in [Seqs -> Row] /\ DOMAIN t.w \subseteq Seqs /\ DOMAIN tx[h].w \subseteq DOMAIN t.w
    /\ DOMAIN t.w \cap Locked(h) = {}
    /\ \A s \in DOMAIN t.w : t.w[s] = v[s]
    /\ \A s \in Seqs \ DOMAIN t.w : v[s] = row[s]
    /\ t.seq = tx[h].seq

LEMMA RewroteIs ==
    ASSUME TypedInv, RoadInv, NEW h \in Handlers, NEW S \in SUBSET Seqs, NEW v \in [Seqs -> Row],
           Free(h, S, v), NEW t, Written(h, S, v, t), t.seq = tx[h].seq
    PROVE  Rewrote(h, t, v)
<1>1. DOMAIN t.w = DOMAIN tx[h].w \cup Writes(h, S, v)
  BY DEF Written
<1>2. DOMAIN t.w \cap Locked(h) = {}
  BY <1>1, LockedIs DEF Free
<1> QED BY <1>2 DEF Rewrote, Written

\* How a fork to ends that takes x, or an acquire (x is 0), moves step k.
Turns(u, v, ends, x, k) ==
    \/ v[k].state = u[k].state
    \/ k = x /\ u[k].state = "SKIPPED" /\ v[k].state = "PENDING"
    \/ /\ u[k].state = "PENDING" /\ v[k].state = "SKIPPED"
       /\ k \in ends \ {x} \/ \A j \in NeedsOf(contract, k) : v[j].state = "SKIPPED"

LEMMA DispatchedTurns ==
    ASSUME contract \in Contracts, NEW v \in [Seqs -> Row], NEW to \in SUBSET Seqs, NEW t \in to,
           NEW s \in Seqs
    PROVE  Turns(v, Dispatched(v, to, t), to, t, s)
<1> DEFINE live == IF v[t].state = "SKIPPED" THEN "PENDING" ELSE v[t].state
           r == [v EXCEPT ![t].chosen = TRUE, ![t].state = IF @ = "SKIPPED" THEN "PENDING" ELSE @]
           k == SkipPending(r, to \ {t})
           d == Propagate(k)
<1>1. v[t] \in Row /\ t \in Seqs
  OBVIOUS
<1>2. r = [v EXCEPT ![t] = [v[t] EXCEPT !.chosen = TRUE, !.state = live]]
  BY <1>1
<1>3. LET y == [v[t] EXCEPT !.chosen = TRUE, !.state = live]
      IN  y \in Row /\ y.state = live
  BY <1>1 DEF Row
<1>4. r \in [Seqs -> Row] /\ r[t].state = live /\ \A j \in Seqs \ {t} : r[j] = v[j]
  BY <1>1, <1>2, <1>3
<1>5. Dispatched(v, to, t) = d
  BY DEF Dispatched
<1>6. /\ \/ d[s].state = v[s].state
         \/ v[s].state = "PENDING" /\ d[s].state = "SKIPPED"
         \/ s = t /\ v[s].state = "SKIPPED" /\ d[s].state = "PENDING"
  BY <1>5, DispatchedIs
<1> HIDE DEF r
<1>7. k \in [Seqs -> Row] /\ (s \notin to \ {t} => k[s] = r[s])
  BY <1>4, SkipPendingSkips DEF SkipPending
<1> HIDE DEF k
<1>8. d[s].state # k[s].state => \A j \in NeedsOf(contract, s) : d[j].state = "SKIPPED"
  BY <1>7, PropagatesBack
<1> HIDE DEF d
<1>9. ASSUME v[s].state = "PENDING", d[s].state = "SKIPPED", s \notin to \ {t}
      PROVE  \A j \in NeedsOf(contract, s) : d[j].state = "SKIPPED"
  <2>1. k[s].state = "PENDING"
    BY <1>4, <1>7, <1>9
  <2> QED BY <1>8, <1>9, <2>1
<1> QED BY <1>5, <1>6, <1>9 DEF Turns

LEMMA AcquireTurns ==
    ASSUME contract \in Contracts, NEW b \in [Seqs -> Row], NEW s \in Seqs, NEW o, NEW j \in Seqs \ {s}
    PROVE  Turns(b, AcquireDone(b, s, o), {o} \ {0}, 0, j)
<1> DEFINE r == [b EXCEPT ![s].state = "DONE"]
           k == SkipPending(r, {o})
           d == Propagate(k)
<1>0. 0 \notin Seqs
  BY ContractShape
<1>1. LET y == [b[s] EXCEPT !.state = "DONE"] IN y \in Row
  BY RowState
<1>2. r \in [Seqs -> Row] /\ \A i \in Seqs \ {s} : r[i] = b[i]
  BY <1>1
<1>3. AcquireDone(b, s, o) = d
  BY DEF AcquireDone
<1>4. d[j].state = b[j].state \/ (b[j].state = "PENDING" /\ d[j].state = "SKIPPED")
  BY <1>3, AcquireDoneIs DEF AcquireEnds
<1> HIDE DEF r
<1>5. k \in [Seqs -> Row] /\ (j # o => k[j] = r[j])
  BY <1>2, SkipPendingSkips DEF SkipPending
<1> HIDE DEF k
<1>6. d[j].state # k[j].state => \A i \in NeedsOf(contract, j) : d[i].state = "SKIPPED"
  BY <1>5, PropagatesBack
<1> HIDE DEF d
<1>7. ASSUME b[j].state = "PENDING", d[j].state = "SKIPPED", j # o
      PROVE  \A i \in NeedsOf(contract, j) : d[i].state = "SKIPPED"
  <2>1. k[j].state = "PENDING"
    BY <1>2, <1>5, <1>7
  <2> QED BY <1>6, <1>7, <2>1
<1> QED BY <1>0, <1>3, <1>4, <1>7 DEF Turns

\* The end of a step sends the Run back, or it does not, or a fork is taken and
\* leases are given up; something fails; an acquire is done; questions are raised.
Returns(h, t, v) ==
    /\ tx[h].pc = "back" /\ t.pc = "commit" /\ SameNodes(tx[h], t)
    /\ \E R \in Rounds(tx[h].seq) : DOMAIN t.w = DOMAIN tx[h].w \cup R /\ GoesBack(h, R, v)

Proceeds(h, t, v) ==
    /\ tx[h].pc = "back" /\ t.pc = "effects" /\ SameNodes(tx[h], t)
    /\ DOMAIN t.w = DOMAIN tx[h].w /\ v = View(h)

Chooses(h, t, v) ==
    /\ tx[h].pc = "effects" /\ t.pc = "acquire"
    /\ t.grab = tx[h].grab /\ t.assigned = tx[h].assigned /\ t.drop = Released(h) \cap held
    /\ \A k \in Seqs : v[k].node = View(h)[k].node
    /\ \/ \A k \in Seqs : v[k].state = View(h)[k].state
       \/ \E x \in contract[tx[h].seq].to : \A k \in Seqs : Turns(View(h), v, contract[tx[h].seq].to, x, k)

Breaks(h, t, v) ==
    /\ tx[h].pc \in {"effects", "acquire"} /\ t.pc = "commit" /\ SameNodes(tx[h], t)
    /\ DOMAIN t.w = DOMAIN tx[h].w
    /\ \A k \in Seqs : /\ v[k].node = View(h)[k].node
                       /\ v[k].state = IF k = t.seq /\ k \in DOMAIN t.w THEN "FAILED" ELSE View(h)[k].state

\* Acquire s is done, with node n if it found one.
Settled(h, t, v, s, n) ==
    /\ tx[h].pc = "acquire" /\ t.pc = "acquire"
    /\ contract[s].kind = "acquire" /\ View(h)[s].state = "PENDING" /\ NeedsOver(View(h), s)
    /\ v[s].state = "DONE" /\ v[s].node = n /\ s \in DOMAIN t.w
    /\ \A k \in Seqs \ {s} : Turns(View(h), v, Branches(contract[s]), 0, k)

Finds(h, t, v) ==
    \E s \in Seqs, n \in Grabbable(h) :
        /\ Settled(h, t, v, s, n)
        /\ t.grab = tx[h].grab \cup {n} /\ t.drop = tx[h].drop \ {n}
        /\ t.assigned = Known(h) \cup {<<contract[s].want, n>>}
        /\ \A k \in Seqs \ {s} :
            v[k].node = IF contract[k].uses = contract[s].want /\ View(h)[k].node = NoNode
                        THEN n ELSE View(h)[k].node

FindsNone(h, t, v) ==
    \E s \in Seqs :
        /\ Settled(h, t, v, s, NoNode) /\ SameNodes(tx[h], t)
        /\ \A k \in Seqs \ {s} : v[k].node = View(h)[k].node

Raises(h, t, v) ==
    /\ tx[h].pc = "acquire" /\ t.pc = "commit" /\ SameNodes(tx[h], t)
    /\ \A k \in Seqs :
        /\ v[k].node = View(h)[k].node
        /\ \/ v[k].state = View(h)[k].state
           \/ /\ contract[k].kind = "ask" /\ View(h)[k].state = "PENDING" /\ NeedsOver(View(h), k)
              /\ v[k].state = "ASKED"

Acts(h, t, v) ==
    \/ Returns(h, t, v) \/ Proceeds(h, t, v) \/ Chooses(h, t, v) \/ Breaks(h, t, v)
    \/ Finds(h, t, v) \/ FindsNone(h, t, v) \/ Raises(h, t, v)

\* h does something, and nothing is committed: its transaction is undone, or goes on.
Does(h) ==
    /\ UNCHANGED <<contract, row, held, assigned>>
    /\ \/ Step(h, Closed)
       \/ \E t, v : Step(h, t) /\ Rewrote(h, t, v) /\ Acts(h, t, v)

LEMMA ReturnDoes ==
    ASSUME TypedInv, RoadInv, NEW h \in Handlers, LoopBack(h) \/ ValidateBack(h)
    PROVE  Does(h)
<1> DEFINE q == tx[h].seq
<1>1. tx[h].pc = "back" /\ UNCHANGED <<contract, row, held, assigned>> /\ Typed /\ "commit" \in Places
  BY DEF LoopBack, ValidateBack, tables, TypedInv, Places
<1>2. ASSUME NEW R \in Rounds(q), NEW v, GoesBack(h, R, v), Free(h, R, v), Step(h, Wrote(h, R, v, "commit"))
      PROVE  Does(h)
  <2> DEFINE t == Wrote(h, R, v, "commit")
  <2>1. R \in SUBSET Seqs /\ v \in [Seqs -> Row]
    BY <1>2 DEF GoesBack
  <2>2. t.pc = "commit" /\ Written(h, R, v, t) /\ SameNodes(tx[h], t)
    BY <1>1, <2>1, WroteIs
  <2>3. Step(h, t)
    BY <1>2
  <2> HIDE DEF t
  <2>4. Rewrote(h, t, v)
    BY <1>2, <2>1, <2>2, RewroteIs DEF SameNodes
  <2>5. Writes(h, R, v) = R
    BY <1>2 DEF Writes, GoesBack
  <2>6. Returns(h, t, v)
    BY <1>1, <1>2, <2>2, <2>5 DEF Returns, Written
  <2> QED BY <1>1, <2>3, <2>4, <2>6 DEF Does, Acts
<1>3. CASE LoopBack(h)
  <2> DEFINE R == LoopRange(q)
  <2>1. PICK v : contract[q].back # 0 /\ GoesBack(h, R, v) /\ Free(h, R, v)
                 /\ Step(h, Wrote(h, R, v, "commit"))
    BY <1>3, LoopBackIs
  <2>2. R \in Rounds(q)
    BY <2>1 DEF Rounds
  <2> HIDE DEF R, q
  <2> QED BY <1>2, <2>1, <2>2
<1>4. CASE ValidateBack(h)
  <2> DEFINE R == {Target(q), q}
  <2>1. PICK v : Checked(q) # {} /\ GoesBack(h, R, v) /\ Free(h, R, v)
                 /\ Step(h, Wrote(h, R, v, "commit"))
    BY <1>4, ValidateBackIs
  <2>2. R \in Rounds(q)
    BY <2>1 DEF Rounds
  <2> HIDE DEF R, q
  <2> QED BY <1>2, <2>1, <2>2
<1> QED BY <1>3, <1>4

LEMMA GoOnDoes ==
    ASSUME TypedInv, RoadInv, NEW h \in Handlers, GoOn(h)
    PROVE  Does(h)
<1> DEFINE u == [tx[h] EXCEPT !.pc = "effects"]
<1>1. Step(h, u) /\ tx[h].pc = "back" /\ UNCHANGED <<contract, row, held, assigned>>
  BY DEF GoOn, tables
<1>2. Typed /\ tx[h] \in TxOf(Seqs, Names) /\ "effects" \in Places
  BY DEF TypedInv, Typed, Places
<1>3. u.pc = "effects" /\ u.w = tx[h].w /\ SameNodes(tx[h], u)
  BY <1>2, WithPlace
<1> HIDE DEF u
<1>4. Rewrote(h, u, View(h))
  BY <1>2, <1>3, ViewIs, LockedIs DEF Rewrote, SameNodes
<1>5. Proceeds(h, u, View(h))
  BY <1>1, <1>3 DEF Proceeds
<1> QED BY <1>1, <1>4, <1>5 DEF Does, Acts

LEMMA EffectsDoes ==
    ASSUME TypedInv, RoadInv, NEW h \in Handlers, Effects(h)
    PROVE  Does(h)
<1> DEFINE q == tx[h].seq
<1>1. tx[h].pc = "effects" /\ UNCHANGED <<contract, row, held, assigned>>
  BY DEF Effects, tables
<1>2. Typed /\ "acquire" \in Places /\ View(h) \in [Seqs -> Row] /\ contract \in Contracts
  BY ViewIs DEF TypedInv, Places, Typed
<1>3. q \in Seqs /\ contract[q].to \in SUBSET Seqs
  BY <1>1, OfTheStep DEF StepOk
<1>4. PICK v \in [Seqs -> Row], S \in SUBSET Seqs, t \in TxOf(Seqs, Names) :
            /\ DispatchOf(h, S, v) /\ Free(h, S, v) /\ Step(h, t)
            /\ GivesUp(Wrote(h, S, v, "acquire"), Released(h) \cap held, contract[q].release, t)
  BY EffectsIs
<1> DEFINE u == Wrote(h, S, v, "acquire")
<1>5. u.pc = "acquire" /\ Written(h, S, v, u) /\ SameNodes(tx[h], u)
  BY <1>2, WroteIs
<1>6. GivesUp(u, Released(h) \cap held, contract[q].release, t)
  BY <1>4
<1> HIDE DEF u
<1>7. Written(h, S, v, t) /\ t.seq = tx[h].seq /\ t.pc = "acquire"
      /\ t.grab = tx[h].grab /\ t.assigned = tx[h].assigned /\ t.drop = Released(h) \cap held
  BY <1>5, <1>6 DEF Written, GivesUp, SameNodes
<1>8. Rewrote(h, t, v)
  BY <1>4, <1>7, RewroteIs
<1> DEFINE to == contract[q].to
<1>9. Chooses(h, t, v)
  <2>1. CASE to = {}
    <3>1. v = View(h)
      BY <1>4, <2>1 DEF DispatchOf
    <3> QED BY <1>1, <1>7, <3>1 DEF Chooses
  <2>2. CASE to # {}
    <3>1. PICK x \in to : v = Dispatched(View(h), to, x)
      BY <1>4, <2>2 DEF DispatchOf
    <3> HIDE DEF to
    <3>2. to \in SUBSET Seqs
      BY <1>3 DEF to
    <3>3. \A k \in Seqs : Turns(View(h), v, to, x, k) /\ v[k].node = View(h)[k].node
      <4>1. \A k \in Seqs : Turns(View(h), v, to, x, k)
        BY <1>2, <3>1, <3>2, DispatchedTurns
      <4>2. \A k \in Seqs : v[k].node = View(h)[k].node
        BY <1>2, <3>1, <3>2, DispatchedIs
      <4> QED BY <4>1, <4>2
    <3> QED BY <1>1, <1>7, <3>1, <3>3 DEF Chooses, to
  <2> QED BY <2>1, <2>2
<1> QED BY <1>1, <1>4, <1>8, <1>9 DEF Does, Acts

LEMMA FailureDoes ==
    ASSUME TypedInv, RoadInv, NEW h \in Handlers, NamesNoTarget(h) \/ AcquireWithoutLease(h)
    PROVE  Does(h)
<1> DEFINE t == Failed(h, tx[h])
<1>1. Step(h, t) /\ tx[h].pc \in {"effects", "acquire"} /\ UNCHANGED <<contract, row, held, assigned>>
  BY DEF NamesNoTarget, AcquireWithoutLease, tables
<1>2. Typed /\ row \in [Seqs -> Row]
  BY DEF TypedInv, Typed
<1>3. t = Closed \/ (t \in TxOf(Seqs, Names) /\ Fails(tx[h], t) /\ SameNodes(tx[h], t))
  BY <1>2, FailedIs
<1> HIDE DEF t
<1>4. CASE t = Closed
  BY <1>1, <1>4 DEF Does
<1>5. CASE t \in TxOf(Seqs, Names) /\ Fails(tx[h], t) /\ SameNodes(tx[h], t)
  <2> DEFINE v == Sees(t, row)
  <2>1. t.w \in Rewrites(Seqs)
    BY <1>5, TxFields
  <2>2. DOMAIN t.w \in SUBSET Seqs /\ \A s \in DOMAIN t.w : t.w[s] \in Row
    BY <2>1, RewritesAre
  <2>3. /\ v \in [Seqs -> Row]
        /\ \A s \in DOMAIN t.w : v[s] = t.w[s]
        /\ \A s \in Seqs \ DOMAIN t.w : v[s] = row[s]
    BY <1>2, <2>2 DEF Sees, Seen
  <2> HIDE DEF v
  <2>4. DOMAIN t.w = DOMAIN tx[h].w /\ t.seq = tx[h].seq /\ t.pc = "commit"
    BY <1>5 DEF Fails, SameNodes
  <2>5. Rewrote(h, t, v)
    BY <2>2, <2>3, <2>4, LockedIs DEF Rewrote
  <2>6. \A k \in Seqs : /\ v[k].node = View(h)[k].node
                        /\ v[k].state = IF k = t.seq /\ k \in DOMAIN t.w THEN "FAILED" ELSE View(h)[k].state
    <3> TAKE k \in Seqs
    <3>1. CASE k \in DOMAIN t.w
      BY <1>2, <1>5, <2>3, <2>4, <3>1, ViewIs DEF Fails
    <3>2. CASE k \notin DOMAIN t.w
      BY <1>2, <2>3, <2>4, <3>2, ViewIs
    <3> QED BY <3>1, <3>2
  <2>7. Breaks(h, t, v)
    BY <1>1, <1>5, <2>4, <2>6 DEF Breaks
  <2> QED BY <1>1, <2>5, <2>7 DEF Does, Acts
<1> QED BY <1>3, <1>4, <1>5

LEMMA BoundNodes ==
    ASSUME NEW v \in [Seqs -> Row], NEW r, NEW n \in Nodes, NEW s \in Seqs
    PROVE  Bound(v, r, n)[s].node = IF contract[s].uses = r /\ v[s].node = NoNode THEN n ELSE v[s].node
<1>1. [v[s] EXCEPT !.node = n].node = n
  BY RowNode DEF Whoever
<1> QED BY <1>1 DEF Bound

\* An acquire that is done next waits, and its needs are over.
LEMMA NextAcquire ==
    ASSUME TypedInv, NEW h \in Handlers, Acquirable(h) # {}
    PROVE  LET s == Least(Acquirable(h))
           IN  s \in Seqs /\ contract[s].kind = "acquire" /\ View(h)[s].state = "PENDING" /\ NeedsOver(View(h), s)
<1>1. Seqs = 1..Len(contract) /\ Len(contract) \in Nat
  BY ContractShape DEF TypedInv, Typed
<1>2. Acquirable(h) \in SUBSET Nat
  BY <1>1 DEF Acquirable
<1>3. Least(Acquirable(h)) \in Acquirable(h)
  BY <1>2, LeastIsMember
<1> QED BY <1>3 DEF Acquirable

\* v is u after acquire s is done: b is u with the nodes bound.
LEMMA SettledIs ==
    ASSUME TypedInv, NEW h \in Handlers, NEW s \in Seqs, contract[s].kind = "acquire",
           View(h)[s].state = "PENDING", NeedsOver(View(h), s),
           NEW b \in [Seqs -> Row], \A k \in Seqs : b[k].state = View(h)[k].state,
           NEW o \in {contract[s].acquired, contract[s].unavailable},
           NEW t, s \in DOMAIN t.w, tx[h].pc = "acquire", t.pc = "acquire"
    PROVE  /\ Settled(h, t, AcquireDone(b, s, o), s, b[s].node)
           /\ \A k \in Seqs : AcquireDone(b, s, o)[k].node = b[k].node
<1> DEFINE v == AcquireDone(b, s, o)
<1>1. contract \in Contracts
  BY DEF TypedInv, Typed
<1>2. AcquireEnds(b, s, o, v)
  BY AcquireDoneIs
<1>3. \A k \in Seqs \ {s} : Turns(b, v, {o} \ {0}, 0, k)
  BY <1>1, AcquireTurns
<1>4. {o} \ {0} \subseteq Branches(contract[s])
  BY DEF Branches
<1> HIDE DEF v
<1>5. \A k \in Seqs \ {s} : Turns(View(h), v, Branches(contract[s]), 0, k)
  BY <1>3, <1>4 DEF Turns
<1>6. Settled(h, t, v, s, b[s].node)
  BY <1>2, <1>5 DEF Settled, AcquireEnds
<1> QED BY <1>2, <1>6 DEF AcquireEnds, v

LEMMA AcquireDoes ==
    ASSUME TypedInv, RoadInv, NEW h \in Handlers, Acquire(h)
    PROVE  Does(h)
<1>1. PICK n \in Grabbable(h), t \in TxOf(Seqs, Names) :
            LET s == Least(Acquirable(h))
                v == AcquiredRows(h, s, n)
            IN  /\ s \in Seqs /\ n \in Nodes /\ v \in [Seqs -> Row]
                /\ Free(h, {s}, v) /\ Step(h, t)
                /\ Takes(Wrote(h, {s}, v, "acquire"), n, Known(h) \cup {<<contract[s].want, n>>},
                         contract[s].want, t)
  BY AcquireIs
<1>2. tx[h].pc = "acquire" /\ UNCHANGED <<contract, row, held, assigned>> /\ Acquirable(h) # {}
  BY DEF Acquire, tables
<1>3. Typed /\ "acquire" \in Places /\ View(h) \in [Seqs -> Row]
  BY ViewIs DEF TypedInv, Places
<1> DEFINE s == Least(Acquirable(h))
           v == AcquiredRows(h, s, n)
           S == {s}
           A == Known(h) \cup {<<contract[s].want, n>>}
           r == [View(h) EXCEPT ![s].node = n]
           b == Bound(r, contract[s].want, n)
<1>4. /\ s \in Seqs /\ n \in Nodes /\ v \in [Seqs -> Row] /\ S \in SUBSET Seqs
      /\ Free(h, S, v) /\ Step(h, t) /\ Takes(Wrote(h, S, v, "acquire"), n, A, contract[s].want, t)
  BY <1>1
<1>5. contract[s].kind = "acquire" /\ View(h)[s].state = "PENDING" /\ NeedsOver(View(h), s)
  BY <1>2, NextAcquire
<1>6. v = AcquireDone(b, s, contract[s].unavailable)
  BY DEF AcquiredRows
<1>7. /\ r \in [Seqs -> Row] /\ r[s].node = n
      /\ \A k \in Seqs : r[k].state = View(h)[k].state
      /\ \A k \in Seqs \ {s} : r[k].node = View(h)[k].node
  <2>1. LET y == [View(h)[s] EXCEPT !.node = n]
        IN  y \in Row /\ y.node = n /\ y.state = View(h)[s].state
    BY <1>3, <1>4, RowNode DEF Whoever
  <2> QED BY <1>3, <1>4, <2>1
<1>8. n # NoNode
  BY <1>4, Matched
<1> HIDE DEF s, v, A, r
<1>9. /\ b \in [Seqs -> Row]
      /\ \A k \in Seqs : /\ b[k].state = r[k].state
                         /\ b[k].node = IF contract[k].uses = contract[s].want /\ r[k].node = NoNode THEN n ELSE r[k].node
  BY <1>4, <1>7, BoundIs, BoundNodes
<1> HIDE DEF b
<1>10. b[s].node = n
  BY <1>4, <1>7, <1>8, <1>9
<1> DEFINE u == Wrote(h, S, v, "acquire")
<1>11. u.pc = "acquire" /\ Written(h, S, v, u) /\ SameNodes(tx[h], u)
  BY <1>3, <1>4, WroteIs
<1>12. Takes(u, n, A, contract[s].want, t)
  BY <1>4
<1> HIDE DEF u
<1>13. /\ t.pc = "acquire" /\ Written(h, S, v, t) /\ t.seq = tx[h].seq
       /\ t.grab = tx[h].grab \cup {n} /\ t.drop = tx[h].drop \ {n} /\ t.assigned = A
  BY <1>11, <1>12 DEF Takes, Written, SameNodes
<1>14. Rewrote(h, t, v)
  BY <1>4, <1>13, RewroteIs
<1>15. s \in DOMAIN t.w
  BY <1>13 DEF Written
<1>16. Settled(h, t, v, s, n) /\ \A k \in Seqs : v[k].node = b[k].node
  <2>1. \A k \in Seqs : b[k].state = View(h)[k].state
    BY <1>7, <1>9
  <2>2. contract[s].unavailable \in {contract[s].acquired, contract[s].unavailable}
    OBVIOUS
  <2> QED BY <1>2, <1>4, <1>5, <1>6, <1>9, <1>10, <1>13, <1>15, <2>1, <2>2, SettledIs
<1>17. \A k \in Seqs \ {s} : v[k].node = IF contract[k].uses = contract[s].want /\ View(h)[k].node = NoNode
                                         THEN n ELSE View(h)[k].node
  BY <1>7, <1>9, <1>16
<1>18. Finds(h, t, v)
  BY <1>4, <1>13, <1>16, <1>17 DEF Finds, A
<1> QED BY <1>2, <1>4, <1>14, <1>18 DEF Does, Acts

LEMMA AcquireNothingDoes ==
    ASSUME TypedInv, RoadInv, NEW h \in Handlers, AcquireNothing(h)
    PROVE  Does(h)
<1> DEFINE s == Least(Acquirable(h))
           b == [View(h) EXCEPT ![s].node = NoNode]
           v == AcquireDone(b, s, contract[s].acquired)
           S == {s}
           t == Wrote(h, S, v, "acquire")
<1>1. s \in Seqs /\ v \in [Seqs -> Row] /\ S \in SUBSET Seqs /\ Free(h, S, v) /\ Step(h, t)
  BY AcquireNothingIs
<1>2. tx[h].pc = "acquire" /\ UNCHANGED <<contract, row, held, assigned>> /\ Acquirable(h) # {}
  BY DEF AcquireNothing, tables
<1>3. Typed /\ "acquire" \in Places /\ View(h) \in [Seqs -> Row]
  BY ViewIs DEF TypedInv, Places
<1>4. contract[s].kind = "acquire" /\ View(h)[s].state = "PENDING" /\ NeedsOver(View(h), s)
  BY <1>2, NextAcquire
<1>5. /\ b \in [Seqs -> Row] /\ b[s].node = NoNode
      /\ \A k \in Seqs : b[k].state = View(h)[k].state
      /\ \A k \in Seqs \ {s} : b[k].node = View(h)[k].node
  <2>1. LET y == [View(h)[s] EXCEPT !.node = NoNode]
        IN  y \in Row /\ y.node = NoNode /\ y.state = View(h)[s].state
    BY <1>1, <1>3, RowNode DEF Whoever
  <2> QED BY <1>1, <1>3, <2>1
<1>6. v = AcquireDone(b, s, contract[s].acquired)
  OBVIOUS
<1> HIDE DEF s, b, v
<1>7. t.pc = "acquire" /\ Written(h, S, v, t) /\ SameNodes(tx[h], t)
  BY <1>1, <1>3, WroteIs
<1> HIDE DEF t
<1>8. Rewrote(h, t, v)
  BY <1>1, <1>7, RewroteIs DEF SameNodes
<1>9. s \in DOMAIN t.w
  BY <1>7 DEF Written
<1>10. Settled(h, t, v, s, NoNode) /\ \A k \in Seqs : v[k].node = b[k].node
  <2>1. contract[s].acquired \in {contract[s].acquired, contract[s].unavailable}
    OBVIOUS
  <2> QED BY <1>1, <1>2, <1>4, <1>5, <1>6, <1>7, <1>9, <2>1, SettledIs
<1>11. FindsNone(h, t, v)
  BY <1>1, <1>5, <1>7, <1>10 DEF FindsNone
<1> QED BY <1>1, <1>2, <1>8, <1>11 DEF Does, Acts

LEMMA RaiseDoes ==
    ASSUME TypedInv, RoadInv, NEW h \in Handlers, RaiseAsks(h)
    PROVE  Does(h)
<1> DEFINE v == Raised(View(h))
           S == {}
           t == Wrote(h, S, v, "commit")
<1>1. Free(h, S, v) /\ Step(h, t) /\ tx[h].pc = "acquire" /\ UNCHANGED <<contract, row, held, assigned>>
  BY DEF RaiseAsks, tables
<1>2. View(h) \in [Seqs -> Row] /\ Typed /\ "commit" \in Places
  BY ViewIs DEF TypedInv, Places
<1>3. v \in [Seqs -> Row] /\ S \in SUBSET Seqs
  BY <1>2, RaisedIs
<1>4. \A k \in Seqs : /\ v[k].node = View(h)[k].node
                      /\ \/ v[k].state = View(h)[k].state
                         \/ /\ contract[k].kind = "ask" /\ View(h)[k].state = "PENDING" /\ NeedsOver(View(h), k)
                            /\ v[k].state = "ASKED"
  <2>1. \A k \in Seqs : LET y == [View(h)[k] EXCEPT !.state = "ASKED"]
                        IN  y.state = "ASKED" /\ y.node = View(h)[k].node
    BY <1>2, RowState
  <2> QED BY <2>1 DEF Raised
<1> HIDE DEF v, S
<1>5. t.pc = "commit" /\ Written(h, S, v, t) /\ SameNodes(tx[h], t)
  BY <1>2, <1>3, WroteIs
<1> HIDE DEF t
<1>6. Rewrote(h, t, v)
  BY <1>1, <1>3, <1>5, RewroteIs DEF SameNodes
<1>7. Raises(h, t, v)
  BY <1>1, <1>4, <1>5 DEF Raises
<1> QED BY <1>1, <1>6, <1>7 DEF Does, Acts

LEMMA HandleDoes ==
    ASSUME TypedInv, RoadInv, NEW h \in Handlers, (Handle(h) /\ ~Commit(h)) \/ Rollback(h)
    PROVE  Does(h)
<1>1. CASE Rollback(h)
  BY <1>1 DEF Rollback, Does, tables
<1> QED BY <1>1, ReturnDoes, GoOnDoes, EffectsDoes, FailureDoes, AcquireDoes, AcquireNothingDoes, RaiseDoes
        DEF Handle

-----------------------------------------------------------------------------
(* What the rows and the transactions are like, if acquires are plain.      *)

RowsInv ==
    AcquiresArePlain =>
        /\ \A s \in Seqs : PlainRow(s, row[s])
        /\ Unborn(row) \/ \A s \in Seqs : row[s].state # "ABSENT"
        /\ \A h \in Handlers : TxSteps(tx[h], row)

LEMMA RowsKept ==
    ASSUME contract' = contract,
           AcquiresArePlain =>
                /\ \A s \in Seqs : PlainRow(s, row'[s])
                /\ Unborn(row') \/ \A s \in Seqs : row'[s].state # "ABSENT"
                /\ \A h \in Handlers : TxSteps(tx'[h], row')
    PROVE  RowsInv'
<1>1. Seqs' = Seqs
  BY DEF Seqs
<1>2. AcquiresArePlain' <=> AcquiresArePlain
  BY <1>1 DEF AcquiresArePlain
<1>3. \A s, x : PlainRow(s, x) <=> PlainRow(s, x)'
  BY DEF PlainRow
<1>4. Unborn(row') <=> Unborn(row)'
  BY <1>1 DEF Unborn
<1>5. ASSUME NEW h \in Handlers, TxSteps(tx'[h], row') PROVE TxSteps(tx[h], row)'
  BY <1>1, <1>5 DEF TxSteps, PlainRow, First, Unborn
<1>6. AcquiresArePlain => \A s \in Seqs : PlainRow(s, row[s])'
  BY <1>3 DEF PlainRow
<1> QED BY <1>1, <1>2, <1>4, <1>5, <1>6 DEF RowsInv

LEMMA ClosedSteps ==
    ASSUME NEW r
    PROVE  TxSteps(Closed, r)
BY ClosedIs DEF TxSteps, First

\* What an open transaction sees is plain, too, and there.
LEMMA ViewPlain ==
    ASSUME TypedInv, RowsInv, AcquiresArePlain, NEW h \in Handlers, Open(h), NEW s \in Seqs
    PROVE  /\ PlainRow(s, View(h)[s]) /\ View(h)[s].state # "ABSENT"
           /\ contract[s].kind = "acquire" /\ row[s].state = "DONE" => View(h)[s].state = "DONE"
           /\ tx[h].seq # 0 => tx[h].seq \in Seqs /\ contract[tx[h].seq].kind # "acquire"
<1>1. TxSteps(tx[h], row) /\ PlainRow(s, row[s]) /\ (Unborn(row) \/ row[s].state # "ABSENT")
  BY DEF RowsInv
<1>2. Typed
  BY DEF TypedInv
<1>3. CASE s \in DOMAIN tx[h].w
  BY <1>1, <1>2, <1>3, ViewIs DEF TxSteps
<1>4. CASE s \notin DOMAIN tx[h].w
  <2>1. View(h)[s] = row[s] /\ DOMAIN tx[h].w \in SUBSET Seqs
    BY <1>2, <1>4, ViewIs
  <2>2. ~First(tx[h])
    BY <1>1, <1>4 DEF TxSteps
  <2>3. tx[h].seq # 0
    BY <2>2 DEF First, Open
  <2>4. ~Unborn(row) /\ tx[h].seq \in Seqs
    BY <1>1, <2>1, <2>3 DEF TxSteps, Unborn
  <2> QED BY <1>1, <2>1, <2>4 DEF TxSteps
<1>5. tx[h].seq # 0 => tx[h].seq \in Seqs /\ contract[tx[h].seq].kind # "acquire"
  BY <1>1, <1>2, ViewIs DEF TxSteps
<1> QED BY <1>3, <1>4, <1>5

LEMMA ActsOpen ==
    ASSUME NEW h \in Handlers, NEW t, NEW v, Acts(h, t, v)
    PROVE  Open(h) /\ t.pc # "idle"
BY DEF Acts, Returns, Proceeds, Chooses, Breaks, Finds, FindsNone, Settled, Raises, Open

\* What one step does to the row of a step.
LEMMA ActsPlain ==
    ASSUME TypedInv, RowsInv, AcquiresArePlain, NEW h \in Handlers, NEW t, NEW v, Rewrote(h, t, v),
           Acts(h, t, v), NEW k \in Seqs
    PROVE  /\ PlainRow(k, v[k]) /\ v[k].state # "ABSENT"
           /\ contract[k].kind = "acquire" /\ View(h)[k].state = "DONE" => v[k].state = "DONE"
<1> DEFINE u == View(h)
           q == tx[h].seq
<1>1. /\ PlainRow(k, u[k]) /\ u[k].state # "ABSENT"
      /\ q # 0 => q \in Seqs /\ contract[q].kind # "acquire"
      /\ t.seq = q /\ contract \in Contracts /\ 0 \notin Seqs
  BY ActsOpen, ViewPlain, ContractShape DEF TypedInv, Typed, Rewrote
<1>2. StepOk(k)
  BY <1>1, ContractShape
<1> HIDE DEF u
<1>3. CASE Returns(h, t, v)
  <2>1. PICK R \in Rounds(q) : GoesBack(h, R, v)
    BY <1>3 DEF Returns
  <2>2. q \in Seqs /\ contract[q].kind # "acquire"
    BY <1>1, <1>3, OfTheStep DEF Returns
  <2>3. \A s \in R : contract[s].kind # "acquire"
    BY <1>1, <2>2, RoundIs
  <2>4. IF k \in R THEN v[k].state = "PENDING" /\ v[k].node = u[k].node ELSE v[k] = u[k]
    BY <2>1 DEF GoesBack, u
  <2>5. CASE k \in R
    BY <1>1, <2>3, <2>4, <2>5 DEF PlainRow, u
  <2>6. CASE k \notin R
    BY <1>1, <2>4, <2>6 DEF u
  <2> QED BY <2>5, <2>6
<1>4. CASE Proceeds(h, t, v)
  BY <1>1, <1>4 DEF Proceeds, u
<1>5. ASSUME v[k].node = u[k].node, NEW ends, NEW x, Turns(u, v, ends, x, k)
      PROVE  /\ PlainRow(k, v[k]) /\ v[k].state # "ABSENT"
             /\ contract[k].kind = "acquire" /\ u[k].state = "DONE" => v[k].state = "DONE"
  BY <1>1, <1>5 DEF Turns, PlainRow
<1>6. CASE Chooses(h, t, v)
  <2>1. v[k].node = u[k].node
    BY <1>6 DEF Chooses, u
  <2>2. \E ends, x : Turns(u, v, ends, x, k)
    BY <1>6 DEF Chooses, Turns, u
  <2> QED BY <1>5, <2>1, <2>2 DEF u
<1>7. CASE Breaks(h, t, v)
  <2>1. v[k].node = u[k].node /\ v[k].state = IF k = t.seq /\ k \in DOMAIN t.w THEN "FAILED" ELSE u[k].state
    BY <1>7 DEF Breaks, u
  <2> QED BY <1>1, <2>1 DEF PlainRow, u
<1>8. CASE Finds(h, t, v)
  <2>1. PICK s \in Seqs, n \in Grabbable(h) :
            /\ Settled(h, t, v, s, n)
            /\ \A j \in Seqs \ {s} : v[j].node = IF contract[j].uses = contract[s].want /\ View(h)[j].node = NoNode
                                                 THEN n ELSE View(h)[j].node
    BY <1>8 DEF Finds
  <2>2. StepOk(s) /\ contract[s].kind = "acquire" /\ v[s].state = "DONE"
    BY <1>1, <2>1, ContractShape DEF Settled
  <2>3. CASE k = s
    BY <2>2, <2>3 DEF PlainRow
  <2>4. CASE k # s
    <3>1. Turns(u, v, Branches(contract[s]), 0, k)
      BY <2>1, <2>4 DEF Settled, u
    <3>2. contract[k].uses = NoRole => v[k].node = u[k].node
      BY <2>1, <2>2, <2>4 DEF StepOk, u
    <3> QED BY <1>1, <1>2, <3>1, <3>2 DEF Turns, PlainRow, StepOk, u
  <2> QED BY <2>3, <2>4
<1>9. CASE FindsNone(h, t, v)
  <2>1. PICK s \in Seqs : /\ Settled(h, t, v, s, NoNode)
                          /\ \A j \in Seqs \ {s} : v[j].node = View(h)[j].node
    BY <1>9 DEF FindsNone
  <2>2. contract[s].kind = "acquire" /\ v[s].state = "DONE"
    BY <2>1 DEF Settled
  <2>3. CASE k = s
    BY <2>2, <2>3 DEF PlainRow
  <2>4. CASE k # s
    <3>1. Turns(u, v, Branches(contract[s]), 0, k) /\ v[k].node = u[k].node
      BY <2>1, <2>4 DEF Settled, u
    <3> QED BY <1>5, <3>1 DEF u
  <2> QED BY <2>3, <2>4
<1>10. CASE Raises(h, t, v)
  <2>1. /\ v[k].node = u[k].node
        /\ v[k].state = u[k].state \/ (contract[k].kind = "ask" /\ v[k].state = "ASKED")
    BY <1>10 DEF Raises, u
  <2> QED BY <1>1, <2>1 DEF PlainRow, u
<1> QED BY <1>3, <1>4, <1>6, <1>7, <1>8, <1>9, <1>10 DEF Acts

\* The step of a transaction stays as it ended until the transaction commits.
LEMMA ActsOwn ==
    ASSUME TypedInv, RowsInv, AcquiresArePlain, NEW h \in Handlers, NEW t, NEW v, Rewrote(h, t, v),
           Acts(h, t, v), tx[h].seq # 0, t.pc \in {"back", "effects", "acquire"}
    PROVE  v[tx[h].seq].state = "DONE"
<1> DEFINE u == View(h)
           q == tx[h].seq
<1>1. TxSteps(tx[h], row) /\ Typed
  BY DEF RowsInv, TypedInv
<1>2. q \in Seqs /\ contract[q].kind # "acquire" /\ q \in DOMAIN tx[h].w
  BY <1>1, ViewIs DEF TxSteps
<1>3. tx[h].pc \in {"back", "effects", "acquire"} => u[q].state = "DONE"
  BY <1>1, <1>2, ViewIs DEF TxSteps
<1> HIDE DEF u, q
<1>4. CASE Proceeds(h, t, v)
  BY <1>3, <1>4 DEF Proceeds, u, q
<1>5. CASE Chooses(h, t, v)
  <2>1. u[q].state = "DONE"
    BY <1>3, <1>5 DEF Chooses
  <2>2. \E ends, x : Turns(u, v, ends, x, q)
    BY <1>2, <1>5 DEF Chooses, Turns, u
  <2> QED BY <2>1, <2>2 DEF Turns, q
<1>6. CASE Finds(h, t, v) \/ FindsNone(h, t, v)
  <2>1. PICK s \in Seqs : \E n : Settled(h, t, v, s, n)
    BY <1>6 DEF Finds, FindsNone
  <2>2. q # s /\ u[q].state = "DONE"
    BY <1>2, <1>3, <2>1 DEF Settled
  <2>3. Turns(u, v, Branches(contract[s]), 0, q)
    BY <1>2, <2>1, <2>2 DEF Settled, u
  <2> QED BY <2>2, <2>3 DEF Turns, q
<1> QED BY <1>4, <1>5, <1>6 DEF Acts, Returns, Breaks, Raises

LEMMA ActsSteps ==
    ASSUME TypedInv, RowsInv, AcquiresArePlain, NEW h \in Handlers, NEW t, NEW v, Rewrote(h, t, v),
           Acts(h, t, v)
    PROVE  TxSteps(t, row)
<1>1. TxSteps(tx[h], row) /\ Open(h)
  BY ActsOpen DEF RowsInv
<1>2. /\ DOMAIN t.w \subseteq Seqs /\ DOMAIN tx[h].w \subseteq DOMAIN t.w
      /\ \A s \in DOMAIN t.w : t.w[s] = v[s]
      /\ t.seq = tx[h].seq
  BY DEF Rewrote
<1>3. \A s \in DOMAIN t.w : PlainRow(s, t.w[s]) /\ t.w[s].state # "ABSENT"
  BY <1>2, ActsPlain
<1>4. \A s \in DOMAIN t.w : contract[s].kind = "acquire" /\ row[s].state = "DONE" => t.w[s].state = "DONE"
  BY <1>1, <1>2, ActsPlain, ViewPlain
<1>5. t.seq # 0 => /\ t.seq \in DOMAIN t.w /\ row[t.seq].state \in {"CLAIMED", "ASKED"}
                   /\ contract[t.seq].kind # "acquire"
                   /\ t.pc \in {"back", "effects", "acquire"} => t.w[t.seq].state = "DONE"
  BY <1>1, <1>2, ActsOwn DEF TxSteps
<1>6. ASSUME First(t)
      PROVE  /\ Unborn(row) /\ DOMAIN t.w = Seqs
             /\ t.drop = {} /\ {Assignment[q] : q \in Roles} \subseteq t.grab
  <2>1. First(tx[h])
    BY <1>1, <1>2, <1>6 DEF First, Open
  <2>2. /\ Unborn(row) /\ DOMAIN tx[h].w = Seqs
        /\ tx[h].drop = {} /\ {Assignment[q] : q \in Roles} \subseteq tx[h].grab
    BY <1>1, <2>1 DEF TxSteps
  <2>3. tx[h].seq = 0 /\ 0 \notin Seqs
    BY <2>1, ContractShape DEF First, TypedInv, Typed
  <2>4. ~Chooses(h, t, v)
    BY <2>3, OfTheStep DEF Chooses
  <2>5. t.drop = {} /\ tx[h].grab \subseteq t.grab
    BY <2>2, <2>4 DEF Acts, Returns, Proceeds, Breaks, Finds, FindsNone, Raises, SameNodes
  <2> QED BY <1>2, <2>2, <2>5
<1> QED BY <1>3, <1>4, <1>5, <1>6 DEF TxSteps

\* A transaction moves and nothing is committed.
LEMMA RowsMoveOn ==
    ASSUME TypedInv, RowsInv, NEW h \in Handlers, NEW t, Step(h, t), AcquiresArePlain => TxSteps(t, row),
           UNCHANGED <<contract, row>>
    PROVE  RowsInv'
<1>1. \A k \in Handlers : tx'[k] = IF k = h THEN t ELSE tx[k]
  BY DEF Step, TypedInv, Typed
<1>2. ASSUME AcquiresArePlain, NEW k \in Handlers PROVE TxSteps(tx'[k], row)
  BY <1>1, <1>2 DEF RowsInv
<1> QED BY <1>2, RowsKept DEF RowsInv

\* No node and nobody who answers ends an acquire.
LEMMA EndingRow ==
    ASSUME TypedInv, RowsInv, AcquiresArePlain, NEW s \in Seqs, row[s].state \in {"CLAIMED", "ASKED"}
    PROVE  contract[s].kind # "acquire" /\ s # 0
<1>1. PlainRow(s, row[s]) /\ 0 \notin Seqs
  BY ContractShape DEF RowsInv, TypedInv, Typed
<1> QED BY <1>1 DEF PlainRow

LEMMA RowsReport ==
    ASSUME TypedInv, RowsInv, NEW h \in Handlers,
           \/ \E n \in Nodes : ReportOk(h, n) \/ ReportFailed(h, n)
           \/ \E s \in Seqs : Answer(h, s)
    PROVE  RowsInv'
<1>1. PICK s \in Seqs, n \in Whoever, x \in Row, pc \in {"back", "commit"}, u \in TxOf(Seqs, Names) :
        /\ Begins(s, n, x, pc, u) /\ Step(h, u) /\ Unlocked(s)
        /\ row[s].state \in {"CLAIMED", "ASKED"}
        /\ x.state \in {"DONE", "FAILED"} /\ (pc = "back" => x.state = "DONE")
        /\ x.node = row[s].node
  BY ReportIs, Zenon
<1>2. UNCHANGED <<contract, row>>
  BY ReportIs DEF tables
<1>3. ASSUME AcquiresArePlain PROVE TxSteps(u, row)
  <2>1. contract[s].kind # "acquire" /\ s # 0 /\ PlainRow(s, row[s])
    BY <1>1, <1>3, EndingRow DEF RowsInv
  <2>2. PlainRow(s, x)
    BY <1>1, <2>1 DEF PlainRow
  <2>3. u.pc = pc /\ u.seq = s /\ DOMAIN u.w = {s} /\ u.w[s] = x
    BY <1>1 DEF Begins
  <2>4. u.pc \in {"back", "effects", "acquire"} => x.state = "DONE"
    BY <1>1, <2>3
  <2>5. x.state # "ABSENT" /\ ~First(u)
    BY <1>1, <2>1, <2>3 DEF First
  <2> QED BY <1>1, <2>1, <2>2, <2>3, <2>4, <2>5 DEF TxSteps
<1> QED BY <1>1, <1>2, <1>3, RowsMoveOn

LEMMA RowsDo ==
    ASSUME TypedInv, RowsInv, NEW h \in Handlers, Does(h)
    PROVE  RowsInv'
<1>1. CASE Step(h, Closed)
  BY <1>1, ClosedSteps, RowsMoveOn DEF Does
<1>2. ASSUME NEW t, NEW v, Step(h, t), Rewrote(h, t, v), Acts(h, t, v) PROVE RowsInv'
  BY <1>2, ActsSteps, RowsMoveOn DEF Does
<1> QED BY <1>1, <1>2 DEF Does

LEMMA ClaimedRows ==
    ASSUME TypedInv, NEW n \in Nodes, Claim(n)
    PROVE  \E s \in Seqs :
              /\ row[s].state = "PENDING" /\ row[s].node = n /\ row[s].node # NoNode /\ NeedsOver(row, s)
              /\ \A h \in Handlers : s \notin DOMAIN tx[h].w
              /\ row'[s].state = "CLAIMED" /\ row'[s].node = n /\ \A k \in Seqs \ {s} : row'[k] = row[k]
              /\ UNCHANGED <<contract, held, assigned, tx>>
<1> DEFINE s == Least(Claimable(n))
<1>1. Seqs \subseteq Nat
  BY ContractShape DEF TypedInv, Typed
<1>2. s \in Claimable(n)
  <2>1. Claimable(n) \in SUBSET Nat /\ Claimable(n) # {}
    BY <1>1 DEF Claimable, Claim
  <2> QED BY <2>1, LeastIsMember
<1>3. row' = [row EXCEPT ![s].state = "CLAIMED"] /\ UNCHANGED <<contract, held, assigned, tx>>
  BY DEF Claim
<1> HIDE DEF s
<1>4. s \in Seqs /\ row \in [Seqs -> Row] /\ row[s] \in Row
  BY <1>2 DEF Claimable, TypedInv, Typed
<1>5. LET y == [row[s] EXCEPT !.state = "CLAIMED"] IN y.state = "CLAIMED" /\ y.node = row[s].node
  BY <1>4, RowState
<1>6. row'[s].state = "CLAIMED" /\ row'[s].node = row[s].node /\ \A k \in Seqs \ {s} : row'[k] = row[k]
  BY <1>3, <1>4, <1>5
<1> QED BY <1>2, <1>3, <1>6, Matched DEF Claimable

LEMMA RowsClaim ==
    ASSUME TypedInv, RowsInv, NEW n \in Nodes, Claim(n)
    PROVE  RowsInv'
<1>1. PICK s \in Seqs :
            /\ row[s].state = "PENDING" /\ row[s].node = n /\ row[s].node # NoNode
            /\ \A h \in Handlers : s \notin DOMAIN tx[h].w
            /\ row'[s].state = "CLAIMED" /\ row'[s].node = n /\ \A k \in Seqs \ {s} : row'[k] = row[k]
            /\ UNCHANGED <<contract, held, assigned, tx>>
  BY ClaimedRows
<1> SUFFICES ASSUME AcquiresArePlain
             PROVE  /\ \A k \in Seqs : PlainRow(k, row'[k])
                    /\ Unborn(row') \/ \A k \in Seqs : row'[k].state # "ABSENT"
                    /\ \A h \in Handlers : TxSteps(tx'[h], row')
  BY <1>1, RowsKept
<1>2. (\A k \in Seqs : PlainRow(k, row[k])) /\ \A h \in Handlers : TxSteps(tx[h], row)
  BY DEF RowsInv
<1>3. contract[s].kind # "acquire"
  BY <1>1, <1>2 DEF PlainRow
<1>4. \A k \in Seqs : PlainRow(k, row'[k])
  BY <1>1, <1>2, <1>3 DEF PlainRow
<1>5. \A k \in Seqs : row'[k].state # "ABSENT"
  <2>1. \A k \in Seqs : row[k].state # "ABSENT"
    BY <1>1 DEF RowsInv, Unborn
  <2> QED BY <1>1, <2>1
<1>6. ASSUME NEW h \in Handlers PROVE TxSteps(tx[h], row')
  <2>1. TxSteps(tx[h], row) /\ DOMAIN tx[h].w \subseteq Seqs \ {s}
    BY <1>1, <1>2, ViewIs DEF TypedInv
  <2>2. \A k \in DOMAIN tx[h].w : row'[k] = row[k]
    BY <1>1, <2>1
  <2>3. ~First(tx[h])
    BY <1>1, <2>1 DEF TxSteps
  <2> QED BY <2>1, <2>2, <2>3 DEF TxSteps
<1> QED BY <1>1, <1>4, <1>5, <1>6

\* The rows of a commit are those of its transaction; no other has written them.
LEMMA CommitsAre ==
    ASSUME TypedInv, RoadInv, NEW k \in Handlers, Commit(k)
    PROVE  /\ row' = View(k) /\ contract' = contract /\ Open(k)
           /\ held' = HeldBy(k) /\ assigned' = Known(k)
           /\ \A h \in Handlers : tx'[h] = IF h = k THEN Closed ELSE tx[h]
           /\ \A s \in DOMAIN tx[k].w : row'[s] = tx[k].w[s]
           /\ \A s \in Seqs \ DOMAIN tx[k].w : row'[s] = row[s]
           /\ \A h \in Handlers \ {k} : /\ DOMAIN tx[h].w \cap DOMAIN tx[k].w = {}
                                        /\ \A s \in DOMAIN tx[h].w : row'[s] = row[s]
<1>1. row' = View(k) /\ contract' = contract /\ tx[k].pc = "commit" /\ Step(k, Closed)
      /\ held' = HeldBy(k) /\ assigned' = Known(k)
  BY DEF Commit
<1>2. \A h \in Handlers : tx'[h] = IF h = k THEN Closed ELSE tx[h]
  BY <1>1 DEF Step, TypedInv, Typed
<1>3. \A h \in Handlers \ {k} : DOMAIN tx[h].w \cap DOMAIN tx[k].w = {} /\ DOMAIN tx[h].w \subseteq Seqs
  BY ViewIs DEF RoadInv, Locks, TypedInv
<1>4. /\ \A s \in DOMAIN tx[k].w : row'[s] = tx[k].w[s]
      /\ \A s \in Seqs \ DOMAIN tx[k].w : row'[s] = row[s]
  BY <1>1, ViewIs DEF TypedInv
<1> QED BY <1>1, <1>2, <1>3, <1>4 DEF Open

\* While the Run is being created, no other transaction is open.
LEMMA FirstAlone ==
    ASSUME TypedInv, RoadInv, RowsInv, AcquiresArePlain, NEW h \in Handlers, First(tx[h]), NEW k \in Handlers, Open(k)
    PROVE  h = k
<1>1. TxSteps(tx[h], row) /\ TxSteps(tx[k], row) /\ (h # k => DOMAIN tx[h].w \cap DOMAIN tx[k].w = {})
  BY DEF RowsInv, RoadInv, Locks
<1>2. DOMAIN tx[h].w = Seqs /\ Seqs # {} /\ DOMAIN tx[k].w \subseteq Seqs
  <2>1. Len(contract) \in Nat /\ Len(contract) > 0 /\ Seqs = 1..Len(contract) /\ Typed
    BY ContractShape DEF TypedInv, Typed
  <2>2. 1 \in Seqs
    BY <2>1
  <2>3. DOMAIN tx[h].w = Seqs
    BY <1>1 DEF TxSteps
  <2> QED BY <2>1, <2>2, <2>3, ViewIs
<1>3. DOMAIN tx[k].w # {}
  BY <1>1, <1>2 DEF TxSteps, First, Open
<1> QED BY <1>1, <1>2, <1>3

LEMMA RowsCommit ==
    ASSUME TypedInv, RoadInv, RowsInv, NEW k \in Handlers, Commit(k)
    PROVE  RowsInv'
<1>1. /\ row' = View(k) /\ contract' = contract /\ Open(k)
      /\ \A h \in Handlers : tx'[h] = IF h = k THEN Closed ELSE tx[h]
      /\ \A h \in Handlers \ {k} : \A s \in DOMAIN tx[h].w : row'[s] = row[s]
  BY CommitsAre
<1> SUFFICES ASSUME AcquiresArePlain
             PROVE  /\ \A s \in Seqs : PlainRow(s, row'[s])
                    /\ Unborn(row') \/ \A s \in Seqs : row'[s].state # "ABSENT"
                    /\ \A h \in Handlers : TxSteps(tx'[h], row')
  BY <1>1, RowsKept
<1>2. \A s \in Seqs : PlainRow(s, row'[s]) /\ row'[s].state # "ABSENT"
  BY <1>1, ViewPlain
<1>3. ASSUME NEW h \in Handlers \ {k} PROVE TxSteps(tx[h], row')
  <2>1. TxSteps(tx[h], row) /\ \A s \in DOMAIN tx[h].w : row'[s] = row[s]
    BY <1>1 DEF RowsInv
  <2>2. ~First(tx[h])
    BY <1>1, FirstAlone
  <2> QED BY <2>1, <2>2 DEF TxSteps
<1> QED BY <1>1, <1>2, <1>3, ClosedSteps

LEMMA FirstRows ==
    ASSUME Init, NEW s \in Seqs
    PROVE  PlainRow(s, row[s]) /\ PlainRow(s, FirstRow(contract, s))
           /\ row[s].state = "ABSENT" /\ row[s].node = FirstRow(contract, s).node
           /\ FirstRow(contract, s).state = "PENDING"
           /\ FirstRow(contract, s).node = IF contract[s].uses \in Roles THEN Assignment[contract[s].uses] ELSE NoNode
<1>1. row = [i \in Seqs |-> [FirstRow(contract, i) EXCEPT !.state = "ABSENT"]] /\ contract \in Contracts
  BY DEF Init
<1>2. FirstRow(contract, s) \in Row /\ FirstRow(contract, s).state = "PENDING"
  BY <1>1, FirstRowIs
<1>3. row[s].state = "ABSENT" /\ row[s].node = FirstRow(contract, s).node
  BY <1>1, <1>2, RowState
<1>4. FirstRow(contract, s).node = IF contract[s].uses \in Roles THEN Assignment[contract[s].uses] ELSE NoNode
  BY DEF FirstRow
<1>5. StepOk(s)
  BY <1>1, ContractShape
<1> QED BY <1>2, <1>3, <1>4, <1>5, Matched DEF PlainRow, StepOk

LEMMA RowsFirst ==
    ASSUME Init
    PROVE  RowsInv
<1>1. /\ \A s \in Seqs : row[s].state = "ABSENT"
      /\ Creator \in Handlers /\ FirstTxIs(tx[Creator])
      /\ \A h \in Handlers : h # Creator => tx[h] = Closed
  BY InitIs
<1>2. Unborn(row)
  BY <1>1 DEF Unborn
<1>3. TxSteps(tx[Creator], row)
  <2> DEFINE t == tx[Creator]
  <2>1. /\ t.seq = 0 /\ t.drop = {} /\ t.grab = {Assignment[q] : q \in Roles}
        /\ DOMAIN t.w = Seqs /\ \A s \in Seqs : t.w[s] = FirstRow(contract, s)
    BY <1>1 DEF FirstTxIs
  <2>2. \A s \in Seqs : PlainRow(s, t.w[s]) /\ t.w[s].state = "PENDING"
    BY <2>1, FirstRows
  <2> QED BY <1>1, <1>2, <2>1, <2>2 DEF TxSteps
<1>4. \A s \in Seqs : PlainRow(s, row[s])
  BY FirstRows
<1> QED BY <1>1, <1>2, <1>3, <1>4, ClosedSteps DEF RowsInv

LEMMA RowsStutter ==
    ASSUME RowsInv, UNCHANGED <<contract, row, tx>>
    PROVE  RowsInv'
BY RowsKept DEF RowsInv

-----------------------------------------------------------------------------
(* The order, in all that is committed and in all that a transaction sees.  *)

OrderInv ==
    AcquiresArePlain /\ ~RetriesMeet =>
        InOrder(row) /\ \A h \in Handlers : InOrder(Sees(tx[h], row)) /\ Recalls(tx[h], row)

LEMMA BroughtBackKept ==
    ASSUME contract' = contract
    PROVE  Seqs' = Seqs /\ BroughtBack' = BroughtBack /\ (RetriesMeet' <=> RetriesMeet)
           /\ (AcquiresArePlain' <=> AcquiresArePlain)
<1>1. Seqs' = Seqs
  BY DEF Seqs
<1>2. \A k : Rounds(k)' = Rounds(k)
  BY <1>1 DEF Rounds, LoopRange, Target, Checked
<1> QED BY <1>1, <1>2 DEF BroughtBack, RetriesMeet, AcquiresArePlain

LEMMA OrderKept ==
    ASSUME contract' = contract,
           AcquiresArePlain /\ ~RetriesMeet =>
                InOrder(row') /\ \A h \in Handlers : InOrder(Sees(tx'[h], row')) /\ Recalls(tx'[h], row')
    PROVE  OrderInv'
<1>1. Seqs' = Seqs /\ BroughtBack' = BroughtBack /\ (RetriesMeet' <=> RetriesMeet)
      /\ (AcquiresArePlain' <=> AcquiresArePlain)
  BY BroughtBackKept
<1>2. \A k : Rounds(k)' = Rounds(k)
  BY <1>1 DEF Rounds, LoopRange, Target, Checked
<1>3. \A p : OnOneRoad(p)' <=> OnOneRoad(p)
  BY <1>1 DEF OnOneRoad
<1>4. \A s, p, A : Waits(s, p, A)' <=> Waits(s, p, A)
  BY <1>1, <1>3 DEF Waits
<1>5. InOrder(row') => InOrder(row)'
  BY <1>1, <1>3, <1>4 DEF InOrder, HasBegun, Ended
<1>6. ASSUME NEW h \in Handlers, InOrder(Sees(tx'[h], row')) PROVE InOrder(Sees(tx[h], row))'
  <2>1. Sees(tx[h], row)' = Sees(tx'[h], row')
    BY <1>1 DEF Sees, Seen
  <2> QED BY <1>1, <1>3, <1>4, <1>6, <2>1 DEF InOrder, HasBegun, Ended
<1>7. ASSUME NEW h \in Handlers, Recalls(tx'[h], row') PROVE Recalls(tx[h], row)'
  BY <1>1, <1>2, <1>3, <1>7 DEF Recalls, Ended
<1> QED BY <1>1, <1>5, <1>6, <1>7 DEF OrderInv

LEMMA OrderMoveOn ==
    ASSUME TypedInv, OrderInv, NEW h \in Handlers, NEW t, Step(h, t), UNCHANGED <<contract, row>>,
           AcquiresArePlain /\ ~RetriesMeet => InOrder(Sees(t, row)) /\ Recalls(t, row)
    PROVE  OrderInv'
<1>1. \A k \in Handlers : tx'[k] = IF k = h THEN t ELSE tx[k]
  BY DEF Step, TypedInv, Typed
<1>2. ASSUME AcquiresArePlain /\ ~RetriesMeet, NEW k \in Handlers
      PROVE  InOrder(Sees(tx'[k], row)) /\ Recalls(tx'[k], row)
  BY <1>1, <1>2 DEF OrderInv
<1> QED BY <1>2, OrderKept DEF OrderInv

LEMMA SameOrder ==
    ASSUME NEW u, NEW v, InOrder(u), \A s \in Seqs : v[s] = u[s]
    PROVE  InOrder(v)
BY DEF InOrder, HasBegun, Ended

LEMMA SeesIs ==
    ASSUME NEW t, NEW r
    PROVE  /\ \A s \in Seqs : s \in DOMAIN t.w => Sees(t, r)[s] = t.w[s]
           /\ \A s \in Seqs : s \notin DOMAIN t.w => Sees(t, r)[s] = r[s]
BY DEF Sees, Seen

LEMMA ClosedOrder ==
    ASSUME NEW r, InOrder(r)
    PROVE  InOrder(Sees(Closed, r)) /\ Recalls(Closed, r)
<1>1. DOMAIN Closed.w = {}
  BY ClosedIs
<1>2. \A s \in Seqs : Sees(Closed, r)[s] = r[s]
  BY <1>1, SeesIs
<1> QED BY <1>1, <1>2, SameOrder DEF Recalls

LEMMA OrderReport ==
    ASSUME TypedInv, OrderInv, NEW h \in Handlers,
           \/ \E n \in Nodes : ReportOk(h, n) \/ ReportFailed(h, n)
           \/ \E s \in Seqs : Answer(h, s)
    PROVE  OrderInv'
<1>1. PICK s \in Seqs, n \in Whoever, x \in Row, pc \in {"back", "commit"}, u \in TxOf(Seqs, Names) :
        /\ Begins(s, n, x, pc, u) /\ Step(h, u) /\ Unlocked(s)
        /\ row[s].state \in {"CLAIMED", "ASKED"} /\ x.state \in {"DONE", "FAILED"}
  BY ReportIs, Zenon
<1>2. UNCHANGED <<contract, row>> /\ contract \in Contracts
  BY ReportIs DEF tables, TypedInv, Typed
<1>3. DOMAIN u.w = {s} /\ u.w[s] = x
  BY <1>1 DEF Begins
<1>4. ASSUME AcquiresArePlain /\ ~RetriesMeet PROVE InOrder(Sees(u, row)) /\ Recalls(u, row)
  <2> DEFINE v == Sees(u, row)
  <2>1. v[s] = x /\ \A k \in Seqs \ {s} : v[k] = row[k]
    BY <1>3, SeesIs
  <2> HIDE DEF v
  <2>2. Advances(row, v)
    BY <1>1, <2>1 DEF Advances, Ended, HasBegun
  <2>3. InOrder(v)
    BY <1>2, <1>4, <2>2, InOrderOn DEF OrderInv
  <2>4. Recalls(u, row)
    BY <1>1, <1>3 DEF Recalls, Ended
  <2> QED BY <2>3, <2>4 DEF v
<1> QED BY <1>1, <1>2, <1>4, OrderMoveOn

\* What h goes on to see comes after what it saw.
LEMMA OrderGoesOn ==
    ASSUME TypedInv, OrderInv, AcquiresArePlain, ~RetriesMeet, NEW h \in Handlers, NEW t, NEW v,
           Rewrote(h, t, v), Advances(View(h), v)
    PROVE  InOrder(Sees(t, row)) /\ Recalls(t, row)
<1> DEFINE o == tx[h]
           u == View(h)
<1>1. /\ DOMAIN o.w \in SUBSET Seqs
      /\ \A s \in DOMAIN o.w : u[s] = o.w[s]
      /\ \A s \in Seqs \ DOMAIN o.w : u[s] = row[s]
      /\ contract \in Contracts
  BY ViewIs DEF TypedInv, Typed
<1>2. /\ DOMAIN t.w \subseteq Seqs /\ DOMAIN o.w \subseteq DOMAIN t.w
      /\ \A s \in DOMAIN t.w : t.w[s] = v[s]
      /\ \A s \in Seqs \ DOMAIN t.w : v[s] = row[s]
      /\ t.seq = o.seq
  BY DEF Rewrote
<1>3. \A s \in Seqs : Sees(t, row)[s] = v[s] /\ Sees(o, row)[s] = u[s]
  BY <1>1, <1>2, SeesIs
<1>4. InOrder(Sees(o, row)) /\ Recalls(o, row)
  BY DEF OrderInv
<1> HIDE DEF o, u
<1>5. InOrder(v)
  BY <1>1, <1>3, <1>4, SameOrder, InOrderOn DEF u
<1>6. ASSUME NEW p \in DOMAIN t.w, OnOneRoad(p), Ended(row, p), ~Ended(t.w, p)
      PROVE  t.seq \in Seqs /\ \E R \in Rounds(t.seq) : p \in R /\ R \subseteq DOMAIN t.w
  <2>1. ~Ended(v, p) /\ p \in Seqs
    BY <1>2, <1>6 DEF Ended
  <2>2. ~Ended(u, p)
    BY <1>6, <2>1 DEF Advances, u
  <2>3. p \in DOMAIN o.w /\ ~Ended(o.w, p)
    BY <1>1, <1>6, <2>1, <2>2 DEF Ended
  <2> QED BY <1>2, <1>4, <1>6, <2>3 DEF Recalls
<1> QED BY <1>3, <1>5, <1>6, SameOrder DEF Recalls

\* The end that a fork takes has not been passed by before, if it is on one road.
LEMMA ForkBefore ==
    ASSUME TypedInv, OrderInv, AcquiresArePlain, ~RetriesMeet, NEW q \in Seqs, ~Ended(row, q),
           NEW x \in Branches(contract[q]), x \in Seqs, OnOneRoad(x)
    PROVE  row[x].state # "SKIPPED" /\ x # q
<1>1. contract \in Contracts /\ DOMAIN contract = Seqs
  BY ContractShape DEF TypedInv, Typed
<1>2. /\ NeedsOf(contract, x) = {q}
      /\ \A g \in Seqs : q \notin Branches(contract[g])
      /\ \A e \in Seqs \ {q} : q \in BroughtBack[e] => x \in BroughtBack[e]
  BY <1>1 DEF OnOneRoad, OneRoad
<1>3. OnOneRoad(q)
  BY <1>1, <1>2 DEF OnOneRoad, OneRoad
<1>4. q \in Through(contract, {}, x)
  BY <1>1, <1>2, ThroughUnfolds
<1>5. Waits(x, q, {})
  BY <1>2, <1>3, <1>4 DEF Waits
<1>6. ~HasBegun(row, x)
  BY <1>5 DEF OrderInv, InOrder
<1>7. x # q
  <2>1. q \in 1..(x - 1) /\ x \in Nat
    BY <1>1, <1>2, NeedsBefore, ContractShape
  <2> QED BY <2>1
<1> QED BY <1>6, <1>7 DEF HasBegun

\* An end on one road waits for its fork alone.
LEMMA ForkNeeds ==
    ASSUME contract \in Contracts, NEW q \in Seqs, NEW x \in Branches(contract[q]), OnOneRoad(x)
    PROVE  NeedsOf(contract, x) = {q}
BY ContractShape DEF OnOneRoad, OneRoad

LEMMA TurnsAdvance ==
    ASSUME contract \in Contracts, NEW u, NEW v, NEW q \in Seqs, NEW ends \in SUBSET Branches(contract[q]),
           NEW x, x \in Seqs /\ OnOneRoad(x) => u[x].state # "SKIPPED",
           v[q].state = "DONE", u[q].state # "DONE" => NeedsOver(u, q) /\ x \notin Seqs, ~Ended(u, q) \/ u[q].state = "DONE",
           \A k \in Seqs \ {q} : Turns(u, v, ends, x, k)
    PROVE  Advances(u, v)
<1>1. \A p \in Seqs : OnOneRoad(p) /\ Ended(u, p) => Ended(v, p)
  BY DEF Turns, Ended
<1>2. ASSUME NEW s \in Seqs \ {q}, HasBegun(v, s), ~HasBegun(u, s)
      PROVE  \A j \in NeedsOf(contract, s) : v[j].state \in {"DONE", "SKIPPED"}
  <2>1. /\ u[s].state = "PENDING" /\ v[s].state = "SKIPPED" /\ OnOneRoad(s)
        /\ s \in ends \ {x} \/ \A j \in NeedsOf(contract, s) : v[j].state = "SKIPPED"
    BY <1>2 DEF HasBegun, Turns
  <2> QED BY <2>1, ForkNeeds
<1>3. ASSUME ~HasBegun(u, q)
      PROVE  \A j \in NeedsOf(contract, q) : v[j].state \in {"DONE", "SKIPPED"}
  <2>1. NeedsOver(u, q) /\ x \notin Seqs
    BY <1>3 DEF HasBegun
  <2>2. \A j \in NeedsOf(contract, q) : j \in Seqs /\ u[j].state \in {"DONE", "SKIPPED"}
    BY <2>1, NeedsBefore DEF NeedsOver
  <2>3. \A j \in NeedsOf(contract, q) : j # q
    <3>1. NeedsOf(contract, q) \subseteq 1..(q - 1) /\ q \in Nat
      BY NeedsBefore, ContractShape
    <3> QED BY <3>1
  <2> QED BY <2>1, <2>2, <2>3 DEF Turns
<1> QED BY <1>1, <1>2, <1>3 DEF Advances

LEMMA ActsAdvance ==
    ASSUME TypedInv, RowsInv, OrderInv, AcquiresArePlain, ~RetriesMeet, NEW h \in Handlers, NEW t, NEW v,
           Rewrote(h, t, v), Acts(h, t, v), ~Returns(h, t, v)
    PROVE  Advances(View(h), v)
<1> DEFINE u == View(h)
           q == tx[h].seq
<1>1. /\ contract \in Contracts /\ 0 \notin Seqs /\ Begun(tx[h]) /\ Typed
      /\ TxSteps(tx[h], row)
  BY ContractShape DEF TypedInv, Typed, RowsInv
<1>2. ASSUME q # 0, tx[h].pc \in {"back", "effects", "acquire"}
      PROVE  q \in Seqs /\ u[q].state = "DONE"
  BY <1>1, <1>2, ViewIs DEF TxSteps
<1> HIDE DEF u, q
<1>3. CASE Proceeds(h, t, v)
  BY <1>3 DEF Proceeds, Advances, u
<1>4. CASE Chooses(h, t, v)
  <2>1. tx[h].pc = "effects"
    BY <1>4 DEF Chooses
  <2>2. q \in Seqs /\ DOMAIN tx[h].w = {q} /\ q # 0
    BY <1>1, <2>1 DEF Begun, q
  <2>3. u[q].state = "DONE" /\ ~Ended(row, q)
    BY <1>1, <1>2, <2>1, <2>2 DEF TxSteps, Ended, q
  <2>4. \A k \in Seqs \ {q} : u[k] = row[k]
    BY <1>1, <2>2, ViewIs DEF u
  <2>5. CASE \A k \in Seqs : v[k].state = u[k].state
    BY <2>5 DEF Advances, HasBegun, Ended, u
  <2>6. CASE \E x \in contract[q].to : \A k \in Seqs : Turns(u, v, contract[q].to, x, k)
    <3>1. PICK x \in contract[q].to : \A k \in Seqs : Turns(u, v, contract[q].to, x, k)
      BY <2>6
    <3>2. x \in Branches(contract[q]) /\ contract[q].to \subseteq Branches(contract[q]) /\ x \in Seqs
      <4>1. StepOk(q)
        BY <1>1, <2>2, ContractShape
      <4> QED BY <4>1 DEF Branches, StepOk
    <3>3. OnOneRoad(x) => u[x].state # "SKIPPED"
      BY <2>2, <2>3, <2>4, <3>2, ForkBefore
    <3>4. v[q].state = "DONE"
      BY <2>2, <2>3, <3>1 DEF Turns
    <3> QED BY <1>1, <2>2, <2>3, <3>1, <3>2, <3>3, <3>4, TurnsAdvance DEF u
  <2> QED BY <1>4, <2>5, <2>6 DEF Chooses, u, q
<1>5. CASE Breaks(h, t, v)
  <2>1. tx[h].pc \in {"effects", "acquire"} /\ t.seq = q
    BY <1>5 DEF Breaks, Rewrote, q
  <2>2. \A k \in Seqs : v[k].state = u[k].state \/ (k = q /\ v[k].state = "FAILED")
    BY <1>5, <2>1 DEF Breaks, u
  <2>3. q \in Seqs => u[q].state = "DONE"
    BY <1>1, <1>2, <2>1
  <2> QED BY <2>2, <2>3 DEF Advances, HasBegun, Ended, u
<1>6. CASE Finds(h, t, v) \/ FindsNone(h, t, v)
  <2>1. PICK s \in Seqs : \E n : Settled(h, t, v, s, n)
    BY <1>6 DEF Finds, FindsNone
  <2>2. /\ u[s].state = "PENDING" /\ NeedsOver(u, s) /\ v[s].state = "DONE"
        /\ \A k \in Seqs \ {s} : Turns(u, v, Branches(contract[s]), 0, k)
    BY <2>1 DEF Settled, u
  <2>3. ~Ended(u, s)
    BY <2>2 DEF Ended
  <2> QED BY <1>1, <2>2, <2>3, TurnsAdvance DEF u
<1>7. CASE Raises(h, t, v)
  <2>1. \A k \in Seqs : \/ v[k].state = u[k].state
                        \/ /\ u[k].state = "PENDING" /\ NeedsOver(u, k) /\ v[k].state = "ASKED"
    BY <1>7 DEF Raises, u
  <2>2. \A p \in Seqs : Ended(u, p) => Ended(v, p)
    BY <2>1 DEF Ended
  <2>3. ASSUME NEW s \in Seqs, HasBegun(v, s), ~HasBegun(u, s)
        PROVE  \A j \in NeedsOf(contract, s) : v[j].state \in {"DONE", "SKIPPED"}
    <3>1. NeedsOver(u, s)
      BY <2>1, <2>3 DEF HasBegun
    <3> QED BY <1>1, <2>1, <3>1, NeedsBefore DEF NeedsOver
  <2> QED BY <2>2, <2>3 DEF Advances, u
<1> QED BY <1>3, <1>4, <1>5, <1>6, <1>7 DEF Acts

\* Going back takes back what began after the steps it takes back, too.
LEMMA ReturnsInOrder ==
    ASSUME TypedInv, RowsInv, OrderInv, AcquiresArePlain, ~RetriesMeet, NEW h \in Handlers, NEW t, NEW v,
           Rewrote(h, t, v), Returns(h, t, v)
    PROVE  InOrder(Sees(t, row)) /\ Recalls(t, row)
<1> DEFINE q == tx[h].seq
<1>1. /\ contract \in Contracts /\ 0 \notin Seqs /\ Begun(tx[h]) /\ Typed /\ TxSteps(tx[h], row)
      /\ tx[h].pc = "back" /\ t.seq = q
  BY ContractShape DEF TypedInv, Typed, RowsInv, Returns, Rewrote
<1>2. q \in Seqs /\ DOMAIN tx[h].w = {q} /\ ~Ended(row, q) /\ contract[q].kind # "acquire"
  BY <1>1 DEF Begun, TxSteps, Ended
<1>3. PICK R \in Rounds(q) : DOMAIN t.w = DOMAIN tx[h].w \cup R /\ GoesBack(h, R, v)
  BY DEF Returns
<1>4. q \in R /\ R \subseteq Seqs /\ BroughtBack[q] = R
  BY <1>1, <1>2, RoundIs, OneRound
<1> HIDE DEF q
<1>5. DOMAIN t.w = R
  BY <1>2, <1>3, <1>4
<1>6. \A s \in Seqs : IF s \in R THEN v[s].state = "PENDING" ELSE v[s] = row[s]
  <2>1. \A s \in Seqs : IF s \in R THEN v[s].state = "PENDING" ELSE v[s] = View(h)[s]
    BY <1>3 DEF GoesBack
  <2>2. \A s \in Seqs \ {q} : View(h)[s] = row[s]
    BY <1>1, <1>2, ViewIs
  <2> QED BY <1>4, <2>1, <2>2
<1>7. InOrder(v)
  <2>1. SUFFICES ASSUME NEW s \in Seqs, NEW p \in Seqs, NEW A \in SUBSET Seqs, HasBegun(v, s), Waits(s, p, A)
                 PROVE  Ended(v, p)
    BY DEF InOrder
  <2>2. s \notin R /\ v[s] = row[s]
    BY <1>6, <2>1 DEF HasBegun
  <2>3. Ended(row, p)
    BY <2>1, <2>2 DEF OrderInv, InOrder, HasBegun
  <2>4. p \notin R
    BY <1>2, <1>4, <2>1, <2>2, <2>3 DEF Waits
  <2> QED BY <1>6, <2>3, <2>4 DEF Ended
<1>8. \A s \in Seqs : Sees(t, row)[s] = v[s]
  BY SeesIs DEF Rewrote
<1>9. Recalls(t, row)
  BY <1>1, <1>2, <1>3, <1>5 DEF Recalls
<1> QED BY <1>7, <1>8, <1>9, SameOrder

LEMMA OrderDo ==
    ASSUME TypedInv, RowsInv, OrderInv, NEW h \in Handlers, Does(h)
    PROVE  OrderInv'
<1>1. UNCHANGED <<contract, row>>
  BY DEF Does
<1>2. CASE Step(h, Closed)
  BY <1>1, <1>2, ClosedOrder, OrderMoveOn DEF OrderInv
<1>3. ASSUME NEW t, NEW v, Step(h, t), Rewrote(h, t, v), Acts(h, t, v) PROVE OrderInv'
  <2>1. ASSUME AcquiresArePlain, ~RetriesMeet PROVE InOrder(Sees(t, row)) /\ Recalls(t, row)
    BY <1>3, <2>1, ReturnsInOrder, ActsAdvance, OrderGoesOn
  <2> QED BY <1>1, <1>3, <2>1, OrderMoveOn
<1> QED BY <1>2, <1>3 DEF Does

LEMMA OrderClaim ==
    ASSUME TypedInv, RowsInv, OrderInv, NEW n \in Nodes, Claim(n)
    PROVE  OrderInv'
<1>1. PICK s \in Seqs :
            /\ row[s].state = "PENDING" /\ NeedsOver(row, s)
            /\ \A h \in Handlers : s \notin DOMAIN tx[h].w
            /\ row'[s].state = "CLAIMED" /\ \A k \in Seqs \ {s} : row'[k] = row[k]
            /\ UNCHANGED <<contract, held, assigned, tx>>
  BY ClaimedRows
<1> SUFFICES ASSUME AcquiresArePlain, ~RetriesMeet
             PROVE  InOrder(row') /\ \A h \in Handlers : InOrder(Sees(tx'[h], row')) /\ Recalls(tx'[h], row')
  BY <1>1, OrderKept
<1>2. contract \in Contracts /\ InOrder(row)
  BY DEF OrderInv, TypedInv, Typed
<1>3. \A p \in Seqs : Ended(row, p) => Ended(row', p)
  BY <1>1 DEF Ended
<1>4. Advances(row, row')
  <2>1. \A j \in NeedsOf(contract, s) : row'[j].state \in {"DONE", "SKIPPED"}
    BY <1>1, <1>2, NeedsBefore DEF NeedsOver
  <2> QED BY <1>1, <1>3, <2>1 DEF Advances, HasBegun
<1>5. InOrder(row')
  BY <1>2, <1>4, InOrderOn
<1>6. ASSUME NEW h \in Handlers PROVE InOrder(Sees(tx[h], row')) /\ Recalls(tx[h], row')
  <2>1. TxSteps(tx[h], row) /\ InOrder(Sees(tx[h], row)) /\ Recalls(tx[h], row) /\ DOMAIN tx[h].w \subseteq Seqs
    BY ViewIs DEF RowsInv, OrderInv, TypedInv
  <2>2. \A k \in DOMAIN tx[h].w : row'[k] = row[k]
    BY <1>1, <2>1
  <2>3. PICK t, r, q : t = tx[h] /\ r = row /\ q = row'
    OBVIOUS
  <2>4. \A k \in DOMAIN t.w, p \in Seqs \ DOMAIN t.w : \A A \in SUBSET Seqs :
                Waits(k, p, A) /\ Ended(r, p) => Ended(q, p)
    BY <1>3, <2>3
  <2>5. InOrder(Sees(t, q)) /\ Recalls(t, q)
    BY <1>2, <1>5, <2>1, <2>2, <2>3, <2>4, InOrderUnder
  <2> QED BY <2>3, <2>5
<1> QED BY <1>1, <1>5, <1>6

LEMMA OrderCommit ==
    ASSUME TypedInv, RoadInv, RowsInv, OrderInv, NEW k \in Handlers, Commit(k)
    PROVE  OrderInv'
<1>1. /\ row' = View(k) /\ contract' = contract
      /\ \A h \in Handlers : tx'[h] = IF h = k THEN Closed ELSE tx[h]
      /\ \A s \in DOMAIN tx[k].w : row'[s] = tx[k].w[s]
      /\ \A s \in Seqs \ DOMAIN tx[k].w : row'[s] = row[s]
      /\ \A h \in Handlers \ {k} : /\ DOMAIN tx[h].w \cap DOMAIN tx[k].w = {}
                                   /\ \A s \in DOMAIN tx[h].w : row'[s] = row[s]
  BY CommitsAre
<1> SUFFICES ASSUME AcquiresArePlain, ~RetriesMeet
             PROVE  InOrder(row') /\ \A h \in Handlers : InOrder(Sees(tx'[h], row')) /\ Recalls(tx'[h], row')
  BY <1>1, OrderKept
<1>2. contract \in Contracts /\ \A h \in Handlers : DOMAIN tx[h].w \subseteq Seqs
  BY ViewIs DEF TypedInv, Typed
<1>3. \A h \in Handlers : TxSteps(tx[h], row) /\ InOrder(Sees(tx[h], row)) /\ Recalls(tx[h], row)
  BY DEF RowsInv, OrderInv
<1>4. \A s \in Seqs : row'[s] = Sees(tx[k], row)[s]
  BY <1>1, SeesIs
<1>5. InOrder(row')
  BY <1>3, <1>4, SameOrder
<1>6. ASSUME NEW h \in Handlers \ {k} PROVE InOrder(Sees(tx[h], row')) /\ Recalls(tx[h], row')
  <2>1. PICK t, r, q, y : t = tx[h] /\ r = row /\ q = row' /\ y = tx[k]
    OBVIOUS
  <2>2. ASSUME NEW s \in DOMAIN t.w, NEW p \in Seqs \ DOMAIN t.w, NEW A \in SUBSET Seqs, Waits(s, p, A), Ended(r, p)
        PROVE  Ended(q, p)
    <3>1. CASE p \in DOMAIN y.w
      <4>1. s \in Seqs \ DOMAIN y.w
        BY <1>1, <1>2, <2>1
      <4>2. TxSteps(y, r) /\ Recalls(y, r) /\ DOMAIN y.w \subseteq Seqs
        BY <1>2, <1>3, <2>1
      <4>3. Ended(y.w, p)
        BY <1>2, <2>2, <3>1, <4>1, <4>2, Recalled
      <4> QED BY <1>1, <2>1, <3>1, <4>3 DEF Ended
    <3>2. CASE p \notin DOMAIN y.w
      BY <1>1, <2>1, <2>2, <3>2 DEF Ended
    <3> QED BY <3>1, <3>2
  <2>3. /\ TxSteps(t, r) /\ InOrder(Sees(t, r)) /\ Recalls(t, r) /\ DOMAIN t.w \subseteq Seqs /\ InOrder(q)
        /\ \A s \in DOMAIN t.w : q[s] = r[s]
    BY <1>1, <1>2, <1>3, <1>5, <2>1
  <2>4. InOrder(Sees(t, q)) /\ Recalls(t, q)
    BY <1>2, <2>2, <2>3, InOrderUnder
  <2> QED BY <2>1, <2>4
<1> QED BY <1>1, <1>5, <1>6, ClosedOrder

LEMMA OrderFirst ==
    ASSUME Init
    PROVE  OrderInv
<1>1. /\ \A s \in Seqs : row[s].state = "ABSENT"
      /\ Creator \in Handlers /\ FirstTxIs(tx[Creator])
      /\ \A h \in Handlers : h # Creator => tx[h] = Closed
  BY InitIs
<1>2. InOrder(row)
  BY <1>1 DEF InOrder, HasBegun
<1> DEFINE t == tx[Creator]
           v == Sees(t, row)
<1>3. DOMAIN t.w = Seqs /\ \A s \in Seqs : t.w[s].state = "PENDING"
  BY <1>1, FirstRows DEF FirstTxIs
<1>4. \A s \in Seqs : v[s].state = "PENDING"
  BY <1>3, SeesIs
<1> HIDE DEF v
<1>5. InOrder(v)
  BY <1>4 DEF InOrder, HasBegun
<1>6. Recalls(t, row)
  BY <1>1, <1>3 DEF Recalls, Ended
<1> QED BY <1>1, <1>2, <1>5, <1>6, ClosedOrder DEF OrderInv, v

LEMMA OrderStutter ==
    ASSUME OrderInv, UNCHANGED <<contract, row, tx>>
    PROVE  OrderInv'
BY OrderKept DEF OrderInv

-----------------------------------------------------------------------------
(* The nodes of the roles, if every step that gives up roles does so once   *)
(* and for all, and acquires are plain.                                     *)

Bindable == Declared(contract, Roles)

GivenOnce ==
    \A i \in Seqs : contract[i].release # {} =>
        \A k \in Seqs \ {i} :
            i \notin BroughtBack[k] /\ contract[k].release \cap contract[i].release = {}

\* Role q has been given up in the rows r; transaction t is past giving it up.
GivenUp(r, q) == \E i \in Seqs : q \in contract[i].release /\ r[i].state \in {"DONE", "FAILED"}
Past(t, q) ==
    /\ t.seq \in DOMAIN t.w /\ q \in contract[t.seq].release /\ t.pc \in {"acquire", "commit"}
    /\ t.w[t.seq].state \in {"DONE", "FAILED"}

\* Transaction t acquires role q.
Fresh(t, r, q) ==
    \E s \in DOMAIN t.w : /\ contract[s].kind = "acquire" /\ contract[s].want = q
                          /\ t.w[s].state = "DONE" /\ r[s].state # "DONE"

\* Role q is node n's in the rows f; in what is committed; for transaction t.
Bears(f, q, n) == \E j \in DOMAIN f : contract[j].uses = q /\ q # NoRole /\ f[j].node = n
Stands(r, A, q, n) == <<q, n>> \in A \/ Bears(r, q, n)
Owns(t, q, n) == <<q, n>> \in t.assigned \/ Bears(t.w, q, n)

\* Role q is node n's for somebody who has not just acquired it. A transaction
\* that was open when another committed may know what no table says any more.
Old(x, r, A, q, n) == Stands(r, A, q, n) \/ \E h \in Handlers : Owns(x[h], q, n) /\ ~Fresh(x[h], r, q)
New(t, r, q, n) == Owns(t, q, n) /\ Fresh(t, r, q)

\* The nodes with which the Run is created; what else t takes or gives up.
Base(t) == IF First(t) THEN {Assignment[q] : q \in Roles} ELSE {}
Moved(t) == (t.drop \cup t.grab) \ Base(t)

\* What is committed: the roles of the Run keep the nodes the matcher found, and
\* nobody has a role before it is acquired.
RowLeases(r, A) ==
    /\ \A q \in Roles : <<q, Assignment[q]>> \in A
    /\ \A q \in Roles, n \in Nodes : Stands(r, A, q, n) => n = Assignment[q]
    /\ \A s \in Seqs, n \in Nodes : contract[s].kind = "acquire" /\ Stands(r, A, contract[s].want, n) => r[s].state = "DONE"

TxLeases(t, r) ==
    /\ \A q \in Roles : t.assigned = {} \/ <<q, Assignment[q]>> \in t.assigned
    /\ \A q \in Roles, n \in Nodes : Owns(t, q, n) => n = Assignment[q]
    /\ \A s \in Seqs, n \in Nodes : contract[s].kind = "acquire" /\ Owns(t, contract[s].want, n) => Seen(t, r, s).state = "DONE"
    /\ \A s \in DOMAIN t.w : contract[s].release # {} /\ r[s].state \in {"DONE", "FAILED"} =>
            t.w[s].state \in {"DONE", "FAILED"}

\* A node is held while one of its roles is not given up; two roles of one node
\* are the Run's, or one is given up; a node is taken or given up only when all
\* its roles were given up before; no two transactions move the same node.
RolesHeld(x, r, A, H) ==
    /\ \A q \in Bindable, n \in Nodes :
        Old(x, r, A, q, n) => n \in H \/ GivenUp(r, q) \/ (Unborn(r) /\ q \in Roles)
    /\ \A q \in Bindable, n \in Nodes : \A h \in Handlers : New(x[h], r, q, n) => n \in x[h].grab \ Base(x[h])

RolesApart(x, r, A) ==
    /\ \A p, q \in Bindable, n \in Nodes :
        Old(x, r, A, p, n) /\ Old(x, r, A, q, n) /\ p # q => {p, q} \subseteq Roles \/ GivenUp(r, p) \/ GivenUp(r, q)
    /\ \A p, q \in Bindable, n \in Nodes : \A h \in Handlers : New(x[h], r, p, n) /\ New(x[h], r, q, n) => p = q

MovedIsGivenUp(x, r, A) ==
    \A h \in Handlers : \A n \in Moved(x[h]) : \A q \in Bindable :
        Old(x, r, A, q, n) => GivenUp(r, q) \/ Past(x[h], q)

MovedOnce(x, H) ==
    \A h \in Handlers :
        /\ x[h].drop \subseteq H /\ x[h].grab \cap x[h].drop = {}
        /\ \A k \in Handlers \ {h} : /\ x[h].drop \cap (x[k].drop \cup x[k].grab) = {}
                                     /\ x[h].grab \cap x[k].grab = {}

Leases(x, r, A, H) ==
    /\ RowLeases(r, A) /\ \A h \in Handlers : TxLeases(x[h], r)
    /\ RolesHeld(x, r, A, H) /\ RolesApart(x, r, A) /\ MovedIsGivenUp(x, r, A) /\ MovedOnce(x, H)

LeaseInv == GivenOnce /\ AcquiresArePlain => Leases(tx, row, assigned, held)

LEMMA LeasesKept ==
    ASSUME contract' = contract, GivenOnce /\ AcquiresArePlain => Leases(tx', row', assigned', held')
    PROVE  LeaseInv'
<1>1. /\ Seqs' = Seqs /\ BroughtBack' = BroughtBack /\ (AcquiresArePlain' <=> AcquiresArePlain)
      /\ Bindable' = Bindable
  BY BroughtBackKept DEF Bindable
<1>2. GivenOnce' <=> GivenOnce
  BY <1>1 DEF GivenOnce
<1>3. RowLeases(row', assigned') => RowLeases(row, assigned)'
  BY <1>1 DEF RowLeases, Stands, Bears
<1>4. ASSUME NEW h \in Handlers, TxLeases(tx'[h], row') PROVE TxLeases(tx[h], row)'
  BY <1>1, <1>4 DEF TxLeases, Owns, Bears, Seen
<1>5. \A q, n : Old(tx', row', assigned', q, n) <=> Old(tx, row, assigned, q, n)'
  BY DEF Old, Stands, Owns, Bears, Fresh
<1>6. \A q, n : \A h \in Handlers : New(tx'[h], row', q, n) <=> New(tx[h], row, q, n)'
  BY DEF New, Owns, Bears, Fresh
<1>7. \A q : GivenUp(row', q) <=> GivenUp(row, q)'
  BY <1>1 DEF GivenUp
<1>8. /\ \A q : \A h \in Handlers : Past(tx'[h], q) <=> Past(tx[h], q)'
      /\ \A h \in Handlers : Base(tx'[h]) = Base(tx[h])' /\ Moved(tx'[h]) = Moved(tx[h])'
      /\ Unborn(row') <=> Unborn(row)'
  BY <1>1 DEF Past, Base, Moved, First, Unborn
<1>9. RolesHeld(tx', row', assigned', held') => RolesHeld(tx, row, assigned, held)'
  BY <1>1, <1>5, <1>6, <1>7, <1>8 DEF RolesHeld
<1>10. ASSUME RolesApart(tx', row', assigned') PROVE RolesApart(tx, row, assigned)'
  <2>1. ASSUME NEW p \in Bindable, NEW q \in Bindable, NEW n \in Nodes, p # q,
               Old(tx, row, assigned, p, n)', Old(tx, row, assigned, q, n)'
        PROVE  {p, q} \subseteq Roles \/ GivenUp(row, p)' \/ GivenUp(row, q)'
    BY <1>5, <1>7, <1>10, <2>1 DEF RolesApart
  <2>2. ASSUME NEW p \in Bindable, NEW q \in Bindable, NEW n \in Nodes, NEW h \in Handlers,
               New(tx[h], row, p, n)', New(tx[h], row, q, n)'
        PROVE  p = q
    BY <1>6, <1>10, <2>2 DEF RolesApart
  <2> QED BY <1>1, <2>1, <2>2 DEF RolesApart
<1>11. MovedIsGivenUp(tx', row', assigned') => MovedIsGivenUp(tx, row, assigned)'
  BY <1>1, <1>5, <1>7, <1>8 DEF MovedIsGivenUp
<1>12. MovedOnce(tx', held') => MovedOnce(tx, held)'
  BY DEF MovedOnce
<1> QED BY <1>1, <1>2, <1>3, <1>4, <1>9, <1>10, <1>11, <1>12 DEF LeaseInv, Leases

\* The roles of a contract.
LEMMA BindableIs ==
    ASSUME contract \in Contracts
    PROVE  /\ Roles \subseteq Bindable /\ NoRole \notin Bindable
           /\ \A s \in Seqs : /\ contract[s].release \subseteq Bindable
                              /\ contract[s].kind = "acquire" =>
                                    contract[s].want \in Bindable \ Roles /\ contract[s].uses = NoRole
                              /\ contract[s].uses # NoRole => contract[s].uses \in Bindable
           /\ \A s, j \in Seqs : contract[s].kind = "acquire" /\ contract[j].kind = "acquire"
                                    /\ contract[s].want = contract[j].want => s = j
<1>1. DOMAIN contract = Seqs /\ \A s \in Seqs : StepOk(s)
  BY ContractShape
<1>2. ReleaseOk(contract, Roles) /\ RolesOk(contract, Roles)
  BY Accepted DEF Validate
<1>3. Roles \subseteq Bindable
  BY DEF Bindable, Declared
<1>4. NoRole \notin Bindable
  BY <1>1, Matched DEF Bindable, Declared, StepOk
<1>5. ASSUME NEW s \in Seqs
      PROVE  /\ contract[s].release \subseteq Bindable
             /\ contract[s].kind = "acquire" =>
                    contract[s].want \in Bindable \ Roles /\ contract[s].uses = NoRole
             /\ contract[s].uses # NoRole => contract[s].uses \in Bindable
  BY <1>1, <1>2 DEF Bindable, Declared, ReleaseOk, RolesOk, StepOk
<1>6. \A s, j \in Seqs : contract[s].kind = "acquire" /\ contract[j].kind = "acquire"
                            /\ contract[s].want = contract[j].want => s = j
  BY <1>1, <1>2 DEF RolesOk
<1> QED BY <1>3, <1>4, <1>5, <1>6

-----------------------------------------------------------------------------
(* One transaction moves, and nothing is committed.                         *)

\* t owns what tx[h] does, and what is committed; it acquires nothing new.
KeepsOwners(h, t) ==
    \A q, n : Owns(t, q, n) /\ n \in Nodes =>
        IF Fresh(t, row, q) THEN New(tx[h], row, q, n)
        ELSE Stands(row, assigned, q, n) \/ (Owns(tx[h], q, n) /\ ~Fresh(tx[h], row, q))

\* What is old when h is t was so before.
LEMMA OldBefore ==
    ASSUME NEW h \in Handlers, NEW t, NEW y, \A k \in Handlers : y[k] = IF k = h THEN t ELSE tx[k],
           NEW q, NEW n,
           Owns(t, q, n) /\ ~Fresh(t, row, q) =>
                Stands(row, assigned, q, n) \/ (Owns(tx[h], q, n) /\ ~Fresh(tx[h], row, q)),
           Old(y, row, assigned, q, n)
    PROVE  Old(tx, row, assigned, q, n)
BY DEF Old

LEMMA MovedNodes ==
    ASSUME TypedInv, NEW h \in Handlers
    PROVE  tx[h].grab \in SUBSET Nodes /\ tx[h].drop \in SUBSET Nodes /\ Moved(tx[h]) \in SUBSET Nodes
           /\ tx[h].assigned \in SUBSET (Names \X Nodes) /\ held \in SUBSET Nodes
BY TxFields DEF TypedInv, Typed, Moved

LEMMA RolesStay ==
    ASSUME TypedInv, Leases(tx, row, assigned, held), NEW h \in Handlers, NEW t, KeepsOwners(h, t), TxLeases(t, row),
           NEW y, \A k \in Handlers : y[k] = IF k = h THEN t ELSE tx[k],
           First(t) <=> First(tx[h]), t.grab = tx[h].grab, t.drop = tx[h].drop,
           \A q : Past(tx[h], q) => Past(t, q)
    PROVE  Leases(y, row, assigned, held)
<1>1. \A q, n : n \in Nodes /\ Old(y, row, assigned, q, n) => Old(tx, row, assigned, q, n)
  BY OldBefore DEF KeepsOwners
<1>2. \A q, n : n \in Nodes => \A k \in Handlers : New(y[k], row, q, n) => New(tx[k], row, q, n)
  BY DEF KeepsOwners, New
<1>3. \A k \in Handlers : /\ y[k].grab = tx[k].grab /\ y[k].drop = tx[k].drop
                          /\ Base(y[k]) = Base(tx[k]) /\ Moved(y[k]) = Moved(tx[k])
                          /\ \A q : Past(tx[k], q) => Past(y[k], q)
  BY DEF Base, Moved
<1>4. RolesHeld(y, row, assigned, held)
  BY <1>1, <1>2, <1>3 DEF Leases, RolesHeld
<1>5. RolesApart(y, row, assigned)
  <2>1. ASSUME NEW p \in Bindable, NEW q \in Bindable, NEW n \in Nodes, p # q,
               Old(y, row, assigned, p, n), Old(y, row, assigned, q, n)
        PROVE  {p, q} \subseteq Roles \/ GivenUp(row, p) \/ GivenUp(row, q)
    BY <1>1, <2>1 DEF Leases, RolesApart
  <2>2. ASSUME NEW p \in Bindable, NEW q \in Bindable, NEW n \in Nodes, NEW k \in Handlers,
               New(y[k], row, p, n), New(y[k], row, q, n)
        PROVE  p = q
    BY <1>2, <2>2 DEF Leases, RolesApart
  <2> QED BY <2>1, <2>2 DEF RolesApart
<1>6. MovedIsGivenUp(y, row, assigned)
  <2>1. ASSUME NEW k \in Handlers, NEW n \in Moved(y[k]), NEW q \in Bindable, Old(y, row, assigned, q, n)
        PROVE  GivenUp(row, q) \/ Past(y[k], q)
    <3>1. n \in Moved(tx[k])
      BY <1>3, <2>1
    <3>2. Old(tx, row, assigned, q, n)
      <4>1. Owns(t, q, n) /\ ~Fresh(t, row, q) =>
                Stands(row, assigned, q, n) \/ (Owns(tx[h], q, n) /\ ~Fresh(tx[h], row, q))
        <5>1. n \in Nodes
          BY <3>1, MovedNodes
        <5> QED BY <5>1 DEF KeepsOwners
      <4> QED BY <2>1, <4>1, OldBefore
    <3> QED BY <1>3, <2>1, <3>1, <3>2 DEF Leases, MovedIsGivenUp
  <2> QED BY <2>1 DEF MovedIsGivenUp
<1>7. MovedOnce(y, held)
  BY <1>3 DEF Leases, MovedOnce
<1>8. \A k \in Handlers : TxLeases(y[k], row)
  BY DEF Leases
<1> QED BY <1>4, <1>5, <1>6, <1>7, <1>8 DEF Leases

\* A transaction that is not open owns nothing.
LEMMA ClosedOwns ==
    ASSUME NEW r
    PROVE  TxLeases(Closed, r) /\ \A q, n : ~Owns(Closed, q, n)
<1>1. DOMAIN Closed.w = {} /\ Closed.assigned = {}
  BY ClosedIs
<1>2. \A q, n : ~Owns(Closed, q, n)
  BY <1>1 DEF Owns, Bears
<1> QED BY <1>1, <1>2 DEF TxLeases

\* A transaction is undone, or was not open.
LEMMA RolesClose ==
    ASSUME TypedInv, Leases(tx, row, assigned, held), NEW h \in Handlers,
           NEW y, \A k \in Handlers : y[k] = IF k = h THEN Closed ELSE tx[k]
    PROVE  Leases(y, row, assigned, held)
<1>0. Closed.grab = {} /\ Closed.drop = {}
  BY ClosedIs
<1>1. /\ \A q, n : ~Owns(Closed, q, n)
      /\ Moved(Closed) = {} /\ TxLeases(Closed, row)
  BY <1>0, ClosedOwns DEF Moved
<1>2. \A q, n : Old(y, row, assigned, q, n) => Old(tx, row, assigned, q, n)
  BY <1>1 DEF Old
<1>3. \A q, n : \A k \in Handlers : New(y[k], row, q, n) => New(tx[k], row, q, n) /\ y[k] = tx[k]
  BY <1>1 DEF New
<1>4. RolesHeld(y, row, assigned, held)
  BY <1>2, <1>3 DEF Leases, RolesHeld
<1>5. RolesApart(y, row, assigned)
  <2>1. ASSUME NEW p \in Bindable, NEW q \in Bindable, NEW n \in Nodes, p # q,
               Old(y, row, assigned, p, n), Old(y, row, assigned, q, n)
        PROVE  {p, q} \subseteq Roles \/ GivenUp(row, p) \/ GivenUp(row, q)
    BY <1>2, <2>1 DEF Leases, RolesApart
  <2>2. ASSUME NEW p \in Bindable, NEW q \in Bindable, NEW n \in Nodes, NEW k \in Handlers,
               New(y[k], row, p, n), New(y[k], row, q, n)
        PROVE  p = q
    BY <1>3, <2>2 DEF Leases, RolesApart
  <2> QED BY <2>1, <2>2 DEF RolesApart
<1>6. MovedIsGivenUp(y, row, assigned)
  <2>1. ASSUME NEW k \in Handlers, NEW n \in Moved(y[k]), NEW q \in Bindable, Old(y, row, assigned, q, n)
        PROVE  GivenUp(row, q) \/ Past(y[k], q)
    <3>1. y[k] = tx[k]
      BY <1>1, <2>1
    <3> QED BY <1>2, <2>1, <3>1 DEF Leases, MovedIsGivenUp
  <2> QED BY <2>1 DEF MovedIsGivenUp
<1>7. MovedOnce(y, held)
  BY <1>0 DEF Leases, MovedOnce
<1>8. \A k \in Handlers : TxLeases(y[k], row)
  BY <1>1 DEF Leases
<1> QED BY <1>4, <1>5, <1>6, <1>7, <1>8 DEF Leases

\* What t owns, if the nodes of its steps are those that tx[h] saw.
LEMMA OwnsAsBefore ==
    ASSUME TypedInv, NEW h \in Handlers, NEW t, NEW v, Rewrote(h, t, v),
           \A k \in Seqs : v[k].node = View(h)[k].node, t.assigned = tx[h].assigned,
           NEW q, NEW n, Owns(t, q, n)
    PROVE  Owns(tx[h], q, n) \/ Stands(row, assigned, q, n)
<1>1. /\ DOMAIN tx[h].w \in SUBSET Seqs /\ DOMAIN row = Seqs
      /\ \A s \in DOMAIN tx[h].w : View(h)[s] = tx[h].w[s]
      /\ \A s \in Seqs \ DOMAIN tx[h].w : View(h)[s] = row[s]
  BY ViewIs DEF TypedInv, Typed
<1>2. CASE <<q, n>> \in t.assigned
  BY <1>2 DEF Owns
<1>3. CASE Bears(t.w, q, n)
  <2>1. PICK j \in DOMAIN t.w : contract[j].uses = q /\ q # NoRole /\ t.w[j].node = n
    BY <1>3 DEF Bears
  <2>2. j \in Seqs /\ View(h)[j].node = n
    BY <2>1 DEF Rewrote
  <2> QED BY <1>1, <2>1, <2>2 DEF Owns, Stands, Bears
<1> QED BY <1>2, <1>3 DEF Owns

\* What is committed, and what was owned, was acquired before; what was acquired stays so.
LEMMA AcquiredBefore ==
    ASSUME TypedInv, RowsInv, AcquiresArePlain, RowLeases(row, assigned), NEW h \in Handlers, TxLeases(tx[h], row),
           NEW t, NEW v, Rewrote(h, t, v), Acts(h, t, v), NEW q, NEW n \in Nodes,
           Owns(tx[h], q, n) \/ Stands(row, assigned, q, n)
    PROVE  /\ IF Fresh(t, row, q) THEN New(tx[h], row, q, n)
              ELSE Stands(row, assigned, q, n) \/ (Owns(tx[h], q, n) /\ ~Fresh(tx[h], row, q))
           /\ \A s \in Seqs : contract[s].kind = "acquire" /\ contract[s].want = q =>
                View(h)[s].state = "DONE" /\ Seen(t, row, s).state = "DONE"
<1>1. /\ DOMAIN tx[h].w \in SUBSET Seqs
      /\ \A s \in DOMAIN tx[h].w : View(h)[s] = tx[h].w[s]
      /\ \A s \in Seqs \ DOMAIN tx[h].w : View(h)[s] = row[s]
  BY ViewIs DEF TypedInv
<1>2. /\ DOMAIN t.w \subseteq Seqs /\ DOMAIN tx[h].w \subseteq DOMAIN t.w
      /\ \A s \in DOMAIN t.w : t.w[s] = v[s]
      /\ \A s \in Seqs \ DOMAIN t.w : v[s] = row[s]
  BY DEF Rewrote
<1>3. Open(h)
  BY ActsOpen
<1>4. ASSUME NEW s \in Seqs, contract[s].kind = "acquire", contract[s].want = q
      PROVE  View(h)[s].state = "DONE" /\ v[s].state = "DONE" /\ Seen(t, row, s).state = "DONE"
             /\ (Stands(row, assigned, q, n) => row[s].state = "DONE")
  <2>1. Stands(row, assigned, q, n) => row[s].state = "DONE"
    BY <1>4 DEF RowLeases
  <2>2. Owns(tx[h], q, n) => Seen(tx[h], row, s).state = "DONE"
    BY <1>4 DEF TxLeases
  <2>3. View(h)[s].state = "DONE"
    BY <1>1, <1>3, <1>4, <2>1, <2>2, ViewPlain DEF Seen
  <2>4. v[s].state = "DONE"
    BY <1>4, <2>3, ActsPlain
  <2> QED BY <1>2, <2>1, <2>3, <2>4 DEF Seen
<1>5. ASSUME Fresh(t, row, q) PROVE New(tx[h], row, q, n)
  <2>1. PICK s \in DOMAIN t.w : contract[s].kind = "acquire" /\ contract[s].want = q /\ row[s].state # "DONE"
    BY <1>5 DEF Fresh
  <2>2. s \in Seqs /\ View(h)[s].state = "DONE" /\ ~Stands(row, assigned, q, n)
    BY <1>2, <1>4, <2>1
  <2>3. s \in DOMAIN tx[h].w /\ tx[h].w[s].state = "DONE"
    BY <1>1, <2>1, <2>2
  <2> QED BY <2>1, <2>2, <2>3 DEF New, Fresh
<1>6. ASSUME Fresh(tx[h], row, q) PROVE Fresh(t, row, q)
  <2>1. PICK s \in DOMAIN tx[h].w : contract[s].kind = "acquire" /\ contract[s].want = q /\ row[s].state # "DONE"
    BY <1>6 DEF Fresh
  <2>2. s \in Seqs /\ s \in DOMAIN t.w
    BY <1>1, <1>2, <2>1
  <2>3. t.w[s].state = "DONE"
    BY <1>2, <1>4, <2>1, <2>2
  <2> QED BY <2>1, <2>2, <2>3 DEF Fresh
<1> QED BY <1>4, <1>5, <1>6

\* Whoever has given up roles and has ended stays so.
LEMMA EndsStay ==
    ASSUME TypedInv, RowsInv, AcquiresArePlain, GivenOnce, NEW h \in Handlers, TxLeases(tx[h], row),
           NEW t, NEW v, Rewrote(h, t, v), Acts(h, t, v), NEW s \in DOMAIN t.w,
           contract[s].release # {}, row[s].state \in {"DONE", "FAILED"}
    PROVE  t.w[s].state \in {"DONE", "FAILED"}
<1> DEFINE u == View(h)
           q == tx[h].seq
<1>1. /\ s \in Seqs /\ v[s] = t.w[s] /\ t.seq = q
      /\ TxSteps(tx[h], row) /\ contract \in Contracts /\ 0 \notin Seqs
      /\ DOMAIN tx[h].w \in SUBSET Seqs
  BY ContractShape, ViewIs DEF Rewrote, RowsInv, TypedInv, Typed
<1>2. u[s].state \in {"DONE", "FAILED"}
  <2>1. s \in DOMAIN tx[h].w => tx[h].w[s].state \in {"DONE", "FAILED"}
    BY DEF TxLeases
  <2> QED BY <1>1, <2>1, ViewIs DEF TypedInv
<1>3. q # 0 => q \in Seqs /\ contract[q].kind # "acquire" /\ row[q].state \in {"CLAIMED", "ASKED"}
  BY <1>1 DEF TxSteps
<1> HIDE DEF u, q
<1>4. CASE Returns(h, t, v)
  <2>1. PICK R \in Rounds(q) : GoesBack(h, R, v)
    BY <1>4 DEF Returns, q
  <2>2. q \in Seqs
    BY <1>4, OfTheStep DEF Returns, q
  <2>3. s \notin R
    <3>1. ASSUME s \in R PROVE FALSE
      <4>1. s \in BroughtBack[q]
        BY <2>1, <2>2, <3>1 DEF BroughtBack
      <4>2. s # q
        BY <1>1, <1>3, <2>2
      <4> QED BY <1>1, <2>2, <4>1, <4>2 DEF GivenOnce
    <3> QED BY <3>1
  <2>4. v[s] = u[s]
    BY <1>1, <2>1, <2>3 DEF GoesBack, u
  <2> QED BY <1>1, <1>2, <2>4
<1>5. CASE Proceeds(h, t, v)
  BY <1>1, <1>2, <1>5 DEF Proceeds, u
<1>6. CASE Chooses(h, t, v)
  <2>1. v[s].state = u[s].state \/ \E ends, x : Turns(u, v, ends, x, s)
    BY <1>1, <1>6 DEF Chooses, u
  <2> QED BY <1>1, <1>2, <2>1 DEF Turns
<1>7. CASE Breaks(h, t, v)
  BY <1>1, <1>2, <1>7 DEF Breaks, u
<1>8. CASE Finds(h, t, v) \/ FindsNone(h, t, v)
  <2>1. PICK i \in Seqs : \E n : Settled(h, t, v, i, n)
    BY <1>8 DEF Finds, FindsNone
  <2>2. s = i \/ Turns(u, v, Branches(contract[i]), 0, s)
    BY <1>1, <2>1 DEF Settled, u
  <2>3. v[i].state = "DONE"
    BY <2>1 DEF Settled
  <2> QED BY <1>1, <1>2, <2>2, <2>3 DEF Turns
<1>9. CASE Raises(h, t, v)
  BY <1>1, <1>2, <1>9 DEF Raises, u
<1> QED BY <1>4, <1>5, <1>6, <1>7, <1>8, <1>9 DEF Acts

\* Whoever is past giving up a role stays past it.
LEMMA PastStays ==
    ASSUME TypedInv, RowsInv, AcquiresArePlain, NEW h \in Handlers,
           NEW t, NEW v, Rewrote(h, t, v), Acts(h, t, v), NEW q, Past(tx[h], q)
    PROVE  Past(t, q)
<1> DEFINE i == tx[h].seq
<1>1. /\ i \in DOMAIN tx[h].w /\ q \in contract[i].release /\ tx[h].pc \in {"acquire", "commit"}
      /\ tx[h].w[i].state \in {"DONE", "FAILED"}
  BY DEF Past
<1>2. /\ DOMAIN tx[h].w \in SUBSET Seqs /\ i \in Seqs /\ View(h)[i].state \in {"DONE", "FAILED"}
      /\ i # 0
  BY <1>1, ViewIs, ContractShape DEF TypedInv, Typed
<1>3. i \in DOMAIN t.w /\ t.w[i] = v[i] /\ t.seq = i
  BY <1>1 DEF Rewrote
<1>4. CASE t.pc = "acquire"
  BY <1>1, <1>2, <1>3, <1>4, ActsOwn DEF Past
<1>5. CASE Breaks(h, t, v)
  <2>1. v[i].state = "FAILED" /\ t.pc = "commit"
    BY <1>2, <1>3, <1>5 DEF Breaks
  <2> QED BY <1>1, <1>3, <2>1 DEF Past
<1>6. CASE Raises(h, t, v)
  <2>1. v[i].state = View(h)[i].state /\ t.pc = "commit"
    BY <1>2, <1>6 DEF Raises
  <2> QED BY <1>1, <1>2, <1>3, <2>1 DEF Past
<1> QED BY <1>1, <1>4, <1>5, <1>6 DEF Acts, Returns, Proceeds, Chooses, Finds, FindsNone, Settled

\* A transaction that keeps the nodes of its steps.
LEMMA TxLeasesStay ==
    ASSUME TypedInv, RowsInv, AcquiresArePlain, GivenOnce, RowLeases(row, assigned),
           NEW h \in Handlers, TxLeases(tx[h], row),
           NEW t, NEW v, Rewrote(h, t, v), Acts(h, t, v),
           \A k \in Seqs : v[k].node = View(h)[k].node, t.assigned = tx[h].assigned
    PROVE  TxLeases(t, row) /\ KeepsOwners(h, t)
<1>1. \A q, n : Owns(t, q, n) => Owns(tx[h], q, n) \/ Stands(row, assigned, q, n)
  BY OwnsAsBefore
<1>2. KeepsOwners(h, t)
  BY <1>1, AcquiredBefore DEF KeepsOwners
<1>3. \A q \in Roles : t.assigned = {} \/ <<q, Assignment[q]>> \in t.assigned
  BY DEF TxLeases
<1>4. \A q \in Roles, n \in Nodes : Owns(t, q, n) => n = Assignment[q]
  BY <1>1 DEF TxLeases, RowLeases
<1>5. \A s \in Seqs, n \in Nodes : contract[s].kind = "acquire" /\ Owns(t, contract[s].want, n)
                                        => Seen(t, row, s).state = "DONE"
  BY <1>1, AcquiredBefore
<1>6. \A s \in DOMAIN t.w : contract[s].release # {} /\ row[s].state \in {"DONE", "FAILED"} =>
            t.w[s].state \in {"DONE", "FAILED"}
  BY EndsStay
<1> QED BY <1>2, <1>3, <1>4, <1>5, <1>6 DEF TxLeases

LEMMA LeasesQuiet ==
    ASSUME TypedInv, RowsInv, AcquiresArePlain, GivenOnce, Leases(tx, row, assigned, held), NEW h \in Handlers,
           NEW t, NEW v, Rewrote(h, t, v), Acts(h, t, v), SameNodes(tx[h], t),
           \A k \in Seqs : v[k].node = View(h)[k].node,
           NEW y, \A k \in Handlers : y[k] = IF k = h THEN t ELSE tx[k]
    PROVE  Leases(y, row, assigned, held)
<1>1. RowLeases(row, assigned) /\ TxLeases(tx[h], row) /\ t.assigned = tx[h].assigned
      /\ t.grab = tx[h].grab /\ t.drop = tx[h].drop /\ t.seq = tx[h].seq
  BY DEF Leases, SameNodes
<1>2. TxLeases(t, row) /\ KeepsOwners(h, t)
  BY <1>1, TxLeasesStay
<1>3. First(t) <=> First(tx[h])
  BY <1>1, ActsOpen DEF First, Open
<1>4. \A q : Past(tx[h], q) => Past(t, q)
  BY PastStays
<1> QED BY <1>1, <1>2, <1>3, <1>4, RolesStay

\* All roles of a node that is given up are.
LEMMA ReleasedIs ==
    ASSUME TypedInv, NEW h \in Handlers, NEW n \in Released(h)
    PROVE  /\ \E q \in contract[tx[h].seq].release : <<q, n>> \in Known(h)
           /\ \A p : <<p, n>> \in Known(h) => p \in contract[tx[h].seq].release
<1> DEFINE out == contract[tx[h].seq].release
           K == Known(h)
           of(R) == {p[2] : p \in {q \in K : q[1] \in R}}
           others == {p[1] : p \in K} \ out
<1>1. n \in of(out) /\ n \notin of(others)
  BY DEF Released
<1>2. K \in SUBSET (Names \X Nodes)
  BY KnownIs DEF TypedInv
<1> HIDE DEF K, out
<1>3. \A p : p \in K => p = <<p[1], p[2]>>
  BY <1>2
<1>4. \E q \in out : <<q, n>> \in K
  <2>1. PICK p \in K : p[1] \in out /\ p[2] = n
    BY <1>1
  <2> QED BY <1>3, <2>1
<1>5. ASSUME NEW p, <<p, n>> \in K, p \notin out PROVE FALSE
  <2> DEFINE z == <<p, n>>
  <2>1. z \in K /\ z[1] = p /\ z[2] = n
    BY <1>5
  <2> HIDE DEF z
  <2>2. z[1] \in others
    BY <1>5, <2>1
  <2> QED BY <1>1, <2>1, <2>2
<1> QED BY <1>4, <1>5 DEF K, out

LEMMA LeasesChoose ==
    ASSUME TypedInv, RoadInv, RowsInv, AcquiresArePlain, GivenOnce, Leases(tx, row, assigned, held), NEW h \in Handlers,
           NEW t, NEW v, Rewrote(h, t, v), Chooses(h, t, v),
           NEW y, \A k \in Handlers : y[k] = IF k = h THEN t ELSE tx[k]
    PROVE  Leases(y, row, assigned, held)
<1> DEFINE i == tx[h].seq
<1>1. /\ RowLeases(row, assigned) /\ TxLeases(tx[h], row) /\ Acts(h, t, v) /\ Begun(tx[h])
      /\ tx[h].pc = "effects" /\ t.pc = "acquire" /\ t.seq = i
      /\ contract \in Contracts /\ 0 \notin Seqs
      /\ TxSteps(tx[h], row)
  BY ContractShape DEF Leases, Acts, Chooses, Rewrote, TypedInv, Typed, RowsInv
<1>2. /\ i \in Seqs /\ i \in DOMAIN tx[h].w /\ i \in DOMAIN t.w /\ i # 0
      /\ tx[h].grab = {} /\ tx[h].drop = {} /\ tx[h].assigned = {}
  BY <1>1 DEF Begun, Rewrote
<1>3. /\ t.grab = {} /\ t.assigned = {} /\ t.drop = Released(h) \cap held
      /\ \A k \in Seqs : v[k].node = View(h)[k].node
  BY <1>2 DEF Chooses
<1>4. TxLeases(t, row) /\ KeepsOwners(h, t)
  BY <1>1, <1>2, <1>3, TxLeasesStay
<1>5. t.w[i].state = "DONE" /\ row[i].state \in {"CLAIMED", "ASKED"}
  BY <1>1, <1>2, ActsOwn DEF Rewrote, TxSteps
<1>6. ~First(t) /\ ~First(tx[h]) /\ Open(h)
  BY <1>1, <1>2 DEF First, Open
<1>7. Known(h) = assigned
  BY <1>2 DEF Known
<1> HIDE DEF i
\* What is given up was not before, by nobody.
<1>8. ASSUME NEW q \in contract[i].release PROVE ~GivenUp(row, q)
  <2>1. ASSUME NEW j \in Seqs, q \in contract[j].release PROVE j = i
    BY <1>2, <1>8, <2>1 DEF GivenOnce
  <2> QED BY <1>5, <2>1 DEF GivenUp
<1>9. ASSUME NEW q \in contract[i].release, NEW k \in Handlers \ {h} PROVE ~Past(tx[k], q)
  <2>1. DOMAIN tx[k].w \cap DOMAIN tx[h].w = {} /\ DOMAIN tx[k].w \subseteq Seqs
    BY ViewIs DEF RoadInv, Locks, TypedInv
  <2>2. ASSUME NEW j \in Seqs, q \in contract[j].release PROVE j = i
    BY <1>2, <1>9, <2>2 DEF GivenOnce
  <2> QED BY <1>2, <2>1, <2>2 DEF Past
<1>10. \A q, n : n \in Nodes /\ Old(y, row, assigned, q, n) => Old(tx, row, assigned, q, n)
  BY <1>4, OldBefore DEF KeepsOwners
<1>11. \A q, n : n \in Nodes => \A k \in Handlers : New(y[k], row, q, n) => New(tx[k], row, q, n)
  BY <1>4 DEF KeepsOwners, New
<1>12. \A k \in Handlers : Base(y[k]) = Base(tx[k]) /\ y[k].grab = tx[k].grab
  BY <1>2, <1>3, <1>6 DEF Base
<1>13. RolesHeld(y, row, assigned, held)
  BY <1>10, <1>11, <1>12 DEF Leases, RolesHeld
<1>14. RolesApart(y, row, assigned)
  <2>1. ASSUME NEW p \in Bindable, NEW q \in Bindable, NEW n \in Nodes, p # q,
               Old(y, row, assigned, p, n), Old(y, row, assigned, q, n)
        PROVE  {p, q} \subseteq Roles \/ GivenUp(row, p) \/ GivenUp(row, q)
    BY <1>10, <2>1 DEF Leases, RolesApart
  <2>2. ASSUME NEW p \in Bindable, NEW q \in Bindable, NEW n \in Nodes, NEW k \in Handlers,
               New(y[k], row, p, n), New(y[k], row, q, n)
        PROVE  p = q
    BY <1>11, <2>2 DEF Leases, RolesApart
  <2> QED BY <2>1, <2>2 DEF RolesApart
\* A node that is given up: one of its roles is, that of another is, or was.
<1>15. ASSUME NEW n \in t.drop
       PROVE  \E p \in contract[i].release : /\ Old(tx, row, assigned, p, n) /\ p \in Bindable /\ n \in Nodes
                                             /\ \A q \in Bindable : Old(tx, row, assigned, q, n) => q \in contract[i].release \/ GivenUp(row, q)
  <2>1. n \in Released(h) /\ n \in Nodes
    BY <1>3, <1>15, MovedNodes
  <2>2. PICK p \in contract[i].release : <<p, n>> \in assigned
    BY <1>7, <2>1, ReleasedIs DEF i
  <2>3. \A q : <<q, n>> \in assigned => q \in contract[i].release
    BY <1>7, <2>1, ReleasedIs DEF i
  <2>4. Old(tx, row, assigned, p, n) /\ p \in Bindable /\ ~GivenUp(row, p)
    BY <1>1, <1>2, <1>8, <2>2, BindableIs DEF Old, Stands
  <2>5. ASSUME NEW q \in Bindable, Old(tx, row, assigned, q, n), q \notin contract[i].release
        PROVE  GivenUp(row, q)
    <3>1. {p, q} \subseteq Roles \/ GivenUp(row, q)
      BY <2>1, <2>2, <2>4, <2>5 DEF Leases, RolesApart
    <3>2. q \notin Roles
      <4>1. ASSUME q \in Roles PROVE FALSE
        <5>1. n = Assignment[q]
          BY <2>1, <2>5, <4>1 DEF Old, Leases, RowLeases, TxLeases
        <5>2. <<q, Assignment[q]>> \in assigned
          BY <1>1, <4>1 DEF RowLeases
        <5> QED BY <2>3, <2>5, <5>1, <5>2
      <4> QED BY <4>1
    <3> QED BY <3>1, <3>2
  <2> QED BY <2>1, <2>4, <2>5
<1>16. MovedIsGivenUp(y, row, assigned)
  <2>1. ASSUME NEW n \in Moved(t), NEW q \in Bindable, Old(y, row, assigned, q, n)
        PROVE  GivenUp(row, q) \/ Past(t, q)
    <3>1. n \in t.drop
      BY <1>3, <2>1 DEF Moved
    <3>2. n \in Nodes
      BY <1>3, <3>1, MovedNodes
    <3>3. q \in contract[i].release \/ GivenUp(row, q)
      BY <1>10, <1>15, <2>1, <3>1, <3>2
    <3>4. q \in contract[i].release => Past(t, q)
      BY <1>1, <1>2, <1>5 DEF Past
    <3> QED BY <3>3, <3>4
  <2>2. ASSUME NEW k \in Handlers \ {h}, NEW n \in Moved(tx[k]), NEW q \in Bindable, Old(y, row, assigned, q, n)
        PROVE  GivenUp(row, q) \/ Past(tx[k], q)
    <3>1. n \in Nodes
      BY MovedNodes, <2>2
    <3> QED BY <1>10, <2>2, <3>1 DEF Leases, MovedIsGivenUp
  <2> QED BY <2>1, <2>2 DEF MovedIsGivenUp
<1>17. ASSUME NEW k \in Handlers \ {h} PROVE t.drop \cap (tx[k].drop \cup tx[k].grab) = {}
  <2>1. ASSUME NEW n \in t.drop, n \in tx[k].drop \cup tx[k].grab PROVE FALSE
    <3>1. PICK p \in contract[i].release : Old(tx, row, assigned, p, n) /\ p \in Bindable
      BY <1>15, <2>1
    <3>2. Open(k)
      <4>1. Begun(tx[k])
        BY DEF TypedInv
      <4> QED BY <2>1, <4>1, ClosedIs DEF Open, Begun
    <3>3. ~First(tx[k])
      BY <1>1, <1>6, <3>2, FirstAlone
    <3>4. n \in Moved(tx[k])
      BY <2>1, <3>3 DEF Moved, Base
    <3>5. GivenUp(row, p) \/ Past(tx[k], p)
      BY <3>1, <3>4 DEF Leases, MovedIsGivenUp
    <3> QED BY <1>8, <1>9, <3>5
  <2> QED BY <2>1
<1>18. MovedOnce(y, held)
  <2>1. MovedOnce(tx, held)
    BY DEF Leases
  <2>2. t.drop \subseteq held /\ t.grab \cap t.drop = {} /\ t.grab = {}
    BY <1>3
  <2>3. \A k \in Handlers : y[k].drop \subseteq held /\ y[k].grab \cap y[k].drop = {}
    BY <2>1, <2>2 DEF MovedOnce
  <2>4. \A j \in Handlers : \A k \in Handlers \ {j} : y[j].drop \cap (y[k].drop \cup y[k].grab) = {}
    <3>1. TAKE j \in Handlers
    <3>2. TAKE k \in Handlers \ {j}
    <3>3. CASE j = h
      BY <1>17, <3>3
    <3>4. CASE k = h
      BY <1>17, <2>2, <3>4
    <3>5. CASE j # h /\ k # h
      BY <2>1, <3>5 DEF MovedOnce
    <3> QED BY <3>3, <3>4, <3>5
  <2>5. \A j \in Handlers : \A k \in Handlers \ {j} : y[j].grab \cap y[k].grab = {}
    BY <2>1, <2>2 DEF MovedOnce
  <2> QED BY <2>3, <2>4, <2>5 DEF MovedOnce
<1>19. \A k \in Handlers : TxLeases(y[k], row)
  BY <1>4 DEF Leases
<1> QED BY <1>1, <1>13, <1>14, <1>16, <1>18, <1>19 DEF Leases

LEMMA LeasesFind ==
    ASSUME TypedInv, RoadInv, RowsInv, AcquiresArePlain, GivenOnce, Leases(tx, row, assigned, held), NEW h \in Handlers,
           NEW t, NEW v, Rewrote(h, t, v), Finds(h, t, v),
           NEW y, \A k \in Handlers : y[k] = IF k = h THEN t ELSE tx[k]
    PROVE  Leases(y, row, assigned, held)
<1> DEFINE o == tx[h]
           u == View(h)
<1>1. PICK s \in Seqs, n \in Grabbable(h) :
        /\ Settled(h, t, v, s, n)
        /\ t.grab = o.grab \cup {n} /\ t.drop = o.drop \ {n}
        /\ t.assigned = Known(h) \cup {<<contract[s].want, n>>}
        /\ \A k \in Seqs \ {s} :
            v[k].node = IF contract[k].uses = contract[s].want /\ u[k].node = NoNode
                        THEN n ELSE u[k].node
  BY DEF Finds
<1> DEFINE W == contract[s].want
<1>2. /\ contract[s].kind = "acquire" /\ u[s].state = "PENDING" /\ v[s].state = "DONE"
      /\ s \in DOMAIN t.w /\ o.pc = "acquire" /\ t.pc = "acquire"
  BY <1>1 DEF Settled
<1>3. /\ contract \in Contracts /\ Acts(h, t, v) /\ Open(h)
      /\ RowLeases(row, assigned) /\ TxLeases(o, row) /\ TxSteps(o, row)
      /\ Typed /\ t.seq = o.seq
  BY <1>2 DEF Acts, Open, Leases, TypedInv, Typed, RowsInv, Rewrote
<1>4. W \in Bindable /\ W \notin Roles /\ W # NoRole /\ contract[s].uses = NoRole
      /\ \A k \in Seqs : contract[k].kind = "acquire" /\ contract[k].want = W => k = s
  BY <1>2, <1>3, BindableIs
<1>5. /\ n \in Nodes /\ n \notin o.grab /\ (n \in held => n \in o.drop)
      /\ \A k \in Handlers : n \notin tx[k].grab
  BY <1>1 DEF Grabbable, HeldBy
<1>6. row[s].state # "DONE" /\ t.w[s].state = "DONE"
  <2>1. row[s].state = "DONE" => u[s].state = "DONE"
    BY <1>2, <1>3, ViewPlain
  <2> QED BY <1>2, <2>1 DEF Rewrote
<1>7. First(t) <=> First(o)
  BY <1>2, <1>3 DEF First
<1>8. n \notin Base(o) /\ Base(t) = Base(o)
  <2>1. First(o) => Base(o) \subseteq o.grab
    BY <1>3 DEF TxSteps, Base
  <2> QED BY <1>5, <1>7, <2>1 DEF Base
<1> HIDE DEF o, u, W
\* W was nobody's.
<1>9. \A m \in Nodes : ~Owns(o, W, m) /\ ~Stands(row, assigned, W, m)
  <2>1. ASSUME NEW m \in Nodes, Owns(o, W, m) \/ Stands(row, assigned, W, m) PROVE FALSE
    <3>1. u[s].state = "DONE"
      BY <1>2, <1>3, <2>1, AcquiredBefore DEF W, o, u
    <3> QED BY <1>2, <3>1
  <2> QED BY <2>1
\* What t owns.
<1>10. ASSUME NEW q, NEW m, Owns(t, q, m)
       PROVE  (q = W /\ m = n) \/ Owns(o, q, m) \/ Stands(row, assigned, q, m)
  <2>1. /\ DOMAIN o.w \in SUBSET Seqs /\ DOMAIN row = Seqs
        /\ \A k \in DOMAIN o.w : u[k] = o.w[k]
        /\ \A k \in Seqs \ DOMAIN o.w : u[k] = row[k]
    BY <1>3, ViewIs DEF Typed, o, u
  <2>2. CASE <<q, m>> \in t.assigned
    <3>1. <<q, m>> \in Known(h) \/ <<q, m>> = <<W, n>>
      BY <1>1, <2>2 DEF W
    <3>2. <<q, m>> \in Known(h) => Owns(o, q, m) \/ Stands(row, assigned, q, m)
      BY DEF Known, Owns, Stands, o
    <3> QED BY <3>1, <3>2
  <2>3. CASE Bears(t.w, q, m)
    <3>1. PICK j \in DOMAIN t.w : contract[j].uses = q /\ q # NoRole /\ t.w[j].node = m
      BY <2>3 DEF Bears
    <3>2. j \in Seqs /\ v[j].node = m /\ j # s
      BY <1>4, <3>1 DEF Rewrote
    <3>3. (q = W /\ m = n) \/ u[j].node = m
      BY <1>1, <3>1, <3>2 DEF W
    <3>4. u[j].node = m => Owns(o, q, m) \/ Stands(row, assigned, q, m)
      BY <2>1, <3>1, <3>2 DEF Owns, Stands, Bears
    <3> QED BY <3>3, <3>4
  <2> QED BY <2>2, <2>3, <1>10 DEF Owns
<1>11. \A m : Owns(t, W, m) => Fresh(t, row, W)
  BY <1>2, <1>6 DEF Fresh, W
<1>12. \A q, m : Owns(t, q, m) /\ m \in Nodes /\ q # W =>
            IF Fresh(t, row, q) THEN New(o, row, q, m)
            ELSE Stands(row, assigned, q, m) \/ (Owns(o, q, m) /\ ~Fresh(o, row, q))
  BY <1>3, <1>10, AcquiredBefore DEF o
<1>13. \A m \in Nodes : Owns(t, W, m) => m = n
  BY <1>9, <1>10
<1>14. \A q, m : m \in Nodes /\ Old(y, row, assigned, q, m) => Old(tx, row, assigned, q, m)
  <2>1. ASSUME NEW q, NEW m \in Nodes, Old(y, row, assigned, q, m) PROVE Old(tx, row, assigned, q, m)
    <3>1. Owns(t, q, m) /\ ~Fresh(t, row, q) =>
                Stands(row, assigned, q, m) \/ (Owns(tx[h], q, m) /\ ~Fresh(tx[h], row, q))
      BY <1>11, <1>12 DEF o
    <3> QED BY <2>1, <3>1, OldBefore
  <2> QED BY <2>1
<1>15. \A q, m : m \in Nodes => \A k \in Handlers :
            New(y[k], row, q, m) => (k = h /\ q = W /\ m = n) \/ New(tx[k], row, q, m)
  <2>1. \A q, m : m \in Nodes /\ New(t, row, q, m) => (q = W /\ m = n) \/ New(o, row, q, m)
    BY <1>12, <1>13 DEF New
  <2> QED BY <2>1 DEF o
<1>16. TxLeases(t, row)
  <2>1. \A q \in Roles : <<q, Assignment[q]>> \in t.assigned
    BY <1>1, <1>3 DEF RowLeases, TxLeases, Known, o
  <2>2. \A q \in Roles, m \in Nodes : Owns(t, q, m) => m = Assignment[q]
    BY <1>3, <1>4, <1>10 DEF RowLeases, TxLeases
  <2>3. ASSUME NEW k \in Seqs, NEW m \in Nodes, contract[k].kind = "acquire", Owns(t, contract[k].want, m)
        PROVE  Seen(t, row, k).state = "DONE"
    <3>1. CASE contract[k].want = W
      BY <1>2, <1>4, <1>6, <2>3, <3>1 DEF Seen
    <3>2. CASE contract[k].want # W
      <4>1. Owns(tx[h], contract[k].want, m) \/ Stands(row, assigned, contract[k].want, m)
        BY <1>10, <2>3, <3>2 DEF o
      <4> QED BY <1>3, <2>3, <4>1, AcquiredBefore DEF o
    <3> QED BY <3>1, <3>2
  <2>4. \A k \in DOMAIN t.w : contract[k].release # {} /\ row[k].state \in {"DONE", "FAILED"} =>
            t.w[k].state \in {"DONE", "FAILED"}
    BY <1>3, EndsStay DEF o
  <2> QED BY <2>1, <2>2, <2>3, <2>4 DEF TxLeases
<1>17. \A k \in Handlers : Base(y[k]) = Base(tx[k]) /\ tx[k].grab \subseteq y[k].grab
  BY <1>1, <1>8 DEF o
<1>18. RolesHeld(y, row, assigned, held)
  <2>1. \A q \in Bindable, m \in Nodes :
            Old(y, row, assigned, q, m) => m \in held \/ GivenUp(row, q) \/ (Unborn(row) /\ q \in Roles)
    BY <1>14 DEF Leases, RolesHeld
  <2>2. ASSUME NEW q \in Bindable, NEW m \in Nodes, NEW k \in Handlers, New(y[k], row, q, m)
        PROVE  m \in y[k].grab \ Base(y[k])
    <3>1. CASE k = h /\ m = n
      BY <1>1, <1>8, <3>1
    <3>2. CASE New(tx[k], row, q, m)
      BY <1>17, <3>2 DEF Leases, RolesHeld
    <3> QED BY <1>15, <2>2, <3>1, <3>2
  <2> QED BY <2>1, <2>2 DEF RolesHeld
<1>19. RolesApart(y, row, assigned)
  <2>1. ASSUME NEW p \in Bindable, NEW q \in Bindable, NEW m \in Nodes, p # q,
               Old(y, row, assigned, p, m), Old(y, row, assigned, q, m)
        PROVE  {p, q} \subseteq Roles \/ GivenUp(row, p) \/ GivenUp(row, q)
    BY <1>14, <2>1 DEF Leases, RolesApart
  <2>2. ASSUME NEW p \in Bindable, NEW k \in Handlers, New(tx[k], row, p, n)
        PROVE  FALSE
    <3>1. n \in tx[k].grab
      BY <1>5, <2>2 DEF Leases, RolesHeld
    <3> QED BY <1>5, <3>1
  <2>3. ASSUME NEW p \in Bindable, NEW q \in Bindable, NEW m \in Nodes, NEW k \in Handlers,
               New(y[k], row, p, m), New(y[k], row, q, m)
        PROVE  p = q
    <3>1. (k = h /\ p = W /\ m = n) \/ New(tx[k], row, p, m)
      BY <1>15, <2>3
    <3>2. (k = h /\ q = W /\ m = n) \/ New(tx[k], row, q, m)
      BY <1>15, <2>3
    <3>3. New(tx[k], row, p, m) /\ New(tx[k], row, q, m) => p = q
      BY DEF Leases, RolesApart
    <3> QED BY <2>2, <3>1, <3>2, <3>3
  <2> QED BY <2>1, <2>3 DEF RolesApart
\* Of a node that is free all roles have been given up.
<1>20. ASSUME NEW q \in Bindable, Old(tx, row, assigned, q, n) PROVE GivenUp(row, q) \/ Past(o, q)
  <2>1. CASE n \in o.drop
    <3>1. n \in Moved(o)
      BY <1>8, <2>1 DEF Moved
    <3> QED BY <1>20, <3>1 DEF Leases, MovedIsGivenUp, o
  <2>2. CASE n \notin o.drop
    <3>1. GivenUp(row, q) \/ (Unborn(row) /\ q \in Roles)
      BY <1>5, <1>20, <2>2 DEF Leases, RolesHeld
    <3>2. ASSUME Unborn(row), q \in Roles PROVE FALSE
      <4>1. First(o)
        <5>1. o.seq # 0 => row[o.seq].state \in {"CLAIMED", "ASKED"} /\ o.seq \in Seqs
          BY <1>3, ViewIs DEF TxSteps, o
        <5>2. o.pc # "idle"
          BY <1>2
        <5> QED BY <3>2, <5>1, <5>2 DEF Unborn, First
      <4>2. n = Assignment[q]
        BY <1>5, <1>20, <3>2 DEF Old, Leases, RowLeases, TxLeases
      <4> QED BY <1>8, <3>2, <4>1, <4>2 DEF Base
    <3> QED BY <3>1, <3>2
  <2> QED BY <2>1, <2>2
<1>21. MovedIsGivenUp(y, row, assigned)
  <2>1. ASSUME NEW m \in Moved(t), NEW q \in Bindable, Old(y, row, assigned, q, m)
        PROVE  GivenUp(row, q) \/ Past(t, q)
    <3>1. m = n \/ m \in Moved(o)
      BY <1>1, <1>8, <2>1 DEF Moved
    <3>2. m \in Nodes
      BY <1>5, <3>1, MovedNodes DEF o
    <3>3. Old(tx, row, assigned, q, m)
      BY <1>14, <2>1, <3>2
    <3>4. GivenUp(row, q) \/ Past(o, q)
      BY <1>20, <3>1, <3>3 DEF Leases, MovedIsGivenUp, o
    <3> QED BY <1>3, <3>4, PastStays DEF o
  <2>2. ASSUME NEW k \in Handlers \ {h}, NEW m \in Moved(tx[k]), NEW q \in Bindable, Old(y, row, assigned, q, m)
        PROVE  GivenUp(row, q) \/ Past(tx[k], q)
    <3>1. m \in Nodes
      BY MovedNodes, <2>2
    <3> QED BY <1>14, <2>2, <3>1 DEF Leases, MovedIsGivenUp
  <2> QED BY <2>1, <2>2 DEF MovedIsGivenUp
<1>22. MovedOnce(y, held)
  <2>1. MovedOnce(tx, held)
    BY DEF Leases
  <2>2. t.drop \subseteq o.drop /\ t.grab = o.grab \cup {n} /\ n \notin t.drop
    BY <1>1
  <2>3. ASSUME NEW k \in Handlers \ {h} PROVE n \notin tx[k].drop
    <3>1. tx[k].drop \subseteq held /\ o.drop \cap tx[k].drop = {}
      BY <2>1 DEF MovedOnce, o
    <3> QED BY <1>5, <3>1
  <2>4. \A k \in Handlers : y[k].drop \subseteq held /\ y[k].grab \cap y[k].drop = {}
    BY <2>1, <2>2 DEF MovedOnce, o
  <2>5. ASSUME NEW k \in Handlers \ {h}
        PROVE  /\ t.drop \cap (tx[k].drop \cup tx[k].grab) = {} /\ tx[k].drop \cap (t.drop \cup t.grab) = {}
               /\ t.grab \cap tx[k].grab = {} /\ tx[k].grab \cap t.grab = {}
    <3>1. /\ o.drop \cap (tx[k].drop \cup tx[k].grab) = {} /\ tx[k].drop \cap (o.drop \cup o.grab) = {}
          /\ o.grab \cap tx[k].grab = {}
      BY <2>1 DEF MovedOnce, o
    <3> QED BY <1>5, <2>2, <2>3, <3>1
  <2>6. ASSUME NEW j \in Handlers, NEW k \in Handlers \ {j}
        PROVE  y[j].drop \cap (y[k].drop \cup y[k].grab) = {} /\ y[j].grab \cap y[k].grab = {}
    <3>1. CASE j = h
      BY <2>5, <3>1
    <3>2. CASE k = h
      BY <2>5, <3>2
    <3>3. CASE j # h /\ k # h
      BY <2>1, <3>3 DEF MovedOnce
    <3> QED BY <3>1, <3>2, <3>3
  <2> QED BY <2>4, <2>6 DEF MovedOnce
<1>23. \A k \in Handlers : TxLeases(y[k], row)
  BY <1>16 DEF Leases
<1> QED BY <1>3, <1>18, <1>19, <1>21, <1>22, <1>23 DEF Leases

LEMMA LeasesDo ==
    ASSUME TypedInv, RoadInv, RowsInv, LeaseInv, NEW h \in Handlers, Does(h)
    PROVE  LeaseInv'
<1>1. UNCHANGED <<contract, row, held, assigned>>
  BY DEF Does
<1> SUFFICES ASSUME GivenOnce, AcquiresArePlain PROVE Leases(tx', row', assigned', held')
  BY <1>1, LeasesKept
<1>2. Leases(tx, row, assigned, held)
  BY DEF LeaseInv
<1>3. PICK y : y = tx'
  OBVIOUS
<1>4. \A t : Step(h, t) => \A k \in Handlers : y[k] = IF k = h THEN t ELSE tx[k]
  BY <1>3 DEF Step, TypedInv, Typed
<1>5. SUFFICES Leases(y, row, assigned, held)
  BY <1>1, <1>3
<1>6. CASE Step(h, Closed)
  BY <1>2, <1>4, <1>6, RolesClose
<1>7. ASSUME NEW t, NEW v, Step(h, t), Rewrote(h, t, v), Acts(h, t, v) PROVE Leases(y, row, assigned, held)
  <2>1. \A k \in Handlers : y[k] = IF k = h THEN t ELSE tx[k]
    BY <1>4, <1>7
  <2>2. CASE Chooses(h, t, v)
    BY <1>2, <1>7, <2>1, <2>2, LeasesChoose
  <2>3. CASE Finds(h, t, v)
    BY <1>2, <1>7, <2>1, <2>3, LeasesFind
  <2>4. CASE SameNodes(tx[h], t) /\ \A k \in Seqs : v[k].node = View(h)[k].node
    BY <1>2, <1>7, <2>1, <2>4, LeasesQuiet
  <2>5. CASE FindsNone(h, t, v)
    <3>1. PICK s \in Seqs : /\ Settled(h, t, v, s, NoNode) /\ SameNodes(tx[h], t)
                            /\ \A k \in Seqs \ {s} : v[k].node = View(h)[k].node
      BY <2>5 DEF FindsNone
    <3>2. View(h)[s].node = NoNode
      BY <1>7, <3>1, ViewPlain, ActsOpen DEF Settled, PlainRow
    <3> QED BY <2>4, <3>1, <3>2 DEF Settled
  <2>6. CASE Returns(h, t, v)
    BY <2>4, <2>6 DEF Returns, GoesBack
  <2>7. CASE Proceeds(h, t, v) \/ Breaks(h, t, v) \/ Raises(h, t, v)
    BY <2>4, <2>7 DEF Proceeds, Breaks, Raises
  <2> QED BY <1>7, <2>2, <2>3, <2>5, <2>6, <2>7 DEF Acts
<1> QED BY <1>6, <1>7 DEF Does

LEMMA LeasesStutter ==
    ASSUME LeaseInv, UNCHANGED <<contract, row, tx, held, assigned>>
    PROVE  LeaseInv'
BY LeasesKept DEF LeaseInv

\* A report or an answer brings its step's end, and no node.
LEMMA LeasesReport ==
    ASSUME TypedInv, RowsInv, LeaseInv, NEW h \in Handlers,
           \/ \E n \in Nodes : ReportOk(h, n) \/ ReportFailed(h, n)
           \/ \E s \in Seqs : Answer(h, s)
    PROVE  LeaseInv'
<1>1. PICK s \in Seqs, n \in Whoever, x \in Row, pc \in {"back", "commit"}, u \in TxOf(Seqs, Names) :
        /\ Begins(s, n, x, pc, u) /\ Step(h, u) /\ Unlocked(s)
        /\ row[s].state \in {"CLAIMED", "ASKED"}
        /\ x.state \in {"DONE", "FAILED"} /\ (pc = "back" => x.state = "DONE")
        /\ x.node = row[s].node
  BY ReportIs, Zenon
<1>2. ~Open(h) /\ UNCHANGED <<contract, row, held, assigned>>
  BY ReportIs DEF tables
<1> SUFFICES ASSUME GivenOnce, AcquiresArePlain PROVE Leases(tx', row', assigned', held')
  BY <1>2, LeasesKept
<1>3. Leases(tx, row, assigned, held) /\ Typed /\ DOMAIN row = Seqs
  BY DEF LeaseInv, TypedInv, Typed
<1>4. PICK y : y = tx'
  OBVIOUS
<1>5. \A k \in Handlers : y[k] = IF k = h THEN u ELSE tx[k]
  BY <1>1, <1>3, <1>4 DEF Step, Typed
<1>6. tx[h] = Closed
  BY <1>2 DEF Open, TypedInv, Begun
<1>7. contract[s].kind # "acquire" /\ s # 0
  BY <1>1, EndingRow
<1>8. DOMAIN u.w = {s} /\ u.w[s] = x /\ u.grab = {} /\ u.drop = {} /\ u.assigned = {} /\ u.seq = s
  BY <1>1 DEF Begins
<1>9. \A q, m : Owns(u, q, m) => Stands(row, assigned, q, m)
  BY <1>1, <1>3, <1>8 DEF Owns, Stands, Bears
<1>10. \A q : ~Fresh(u, row, q)
  BY <1>7, <1>8 DEF Fresh
<1>11. KeepsOwners(h, u)
  BY <1>9, <1>10 DEF KeepsOwners
<1>12. TxLeases(u, row)
  <2>1. RowLeases(row, assigned)
    BY <1>3 DEF Leases
  <2>2. ASSUME NEW k \in Seqs, NEW m \in Nodes, contract[k].kind = "acquire", Owns(u, contract[k].want, m)
        PROVE  Seen(u, row, k).state = "DONE"
    <3>1. row[k].state = "DONE" /\ k \notin DOMAIN u.w
      BY <1>7, <1>8, <1>9, <2>1, <2>2 DEF RowLeases
    <3> QED BY <3>1 DEF Seen
  <2> QED BY <1>1, <1>8, <1>9, <2>1, <2>2 DEF TxLeases, RowLeases
<1>13. /\ First(u) <=> First(tx[h])
       /\ u.grab = tx[h].grab /\ u.drop = tx[h].drop
       /\ \A q : Past(tx[h], q) => Past(u, q)
  BY <1>6, <1>7, <1>8, ClosedIs DEF First, Past
<1>14. Leases(y, row, assigned, held)
  BY <1>3, <1>5, <1>11, <1>12, <1>13, RolesStay
<1> QED BY <1>2, <1>4, <1>14

LEMMA LeasesClaim ==
    ASSUME TypedInv, RowsInv, LeaseInv, NEW n \in Nodes, Claim(n)
    PROVE  LeaseInv'
<1>1. PICK s \in Seqs :
            /\ row[s].state = "PENDING" /\ row[s].node = n /\ row[s].node # NoNode
            /\ row'[s].state = "CLAIMED" /\ row'[s].node = n /\ \A k \in Seqs \ {s} : row'[k] = row[k]
            /\ UNCHANGED <<contract, held, assigned, tx>>
  BY ClaimedRows
<1> SUFFICES ASSUME GivenOnce, AcquiresArePlain PROVE Leases(tx', row', assigned', held')
  BY <1>1, LeasesKept
<1>2. Leases(tx, row, assigned, held) /\ DOMAIN row = Seqs /\ \A h \in Handlers : DOMAIN tx[h].w \subseteq Seqs
  BY ViewIs DEF LeaseInv, TypedInv, Typed
<1>3. DOMAIN row' = Seqs
  BY <1>2 DEF Claim
<1>4. PICK r : r = row'
  OBVIOUS
<1>5. SUFFICES Leases(tx, r, assigned, held)
  BY <1>1, <1>4
<1>6. contract[s].kind # "acquire"
  BY <1>1 DEF RowsInv, PlainRow
<1>7. /\ DOMAIN r = Seqs /\ \A k \in Seqs : r[k].node = row[k].node
      /\ \A k \in Seqs \ {s} : r[k] = row[k]
      /\ r[s].state \notin {"DONE", "FAILED", "ABSENT"} /\ row[s].state \notin {"DONE", "FAILED", "ABSENT"}
  BY <1>1, <1>3, <1>4
<1>8. \A q, m : Stands(r, assigned, q, m) <=> Stands(row, assigned, q, m)
  BY <1>2, <1>7 DEF Stands, Bears
<1>9. \A h \in Handlers : \A q : Fresh(tx[h], r, q) <=> Fresh(tx[h], row, q)
  BY <1>2, <1>6, <1>7 DEF Fresh
<1>10. \A q, m : Old(tx, r, assigned, q, m) <=> Old(tx, row, assigned, q, m)
  BY <1>8, <1>9 DEF Old
<1>11. \A h \in Handlers : \A q, m : New(tx[h], r, q, m) <=> New(tx[h], row, q, m)
  BY <1>9 DEF New
<1>12. \A q : GivenUp(r, q) <=> GivenUp(row, q)
  BY <1>7 DEF GivenUp
<1>13. ~Unborn(r) /\ ~Unborn(row)
  BY <1>7 DEF Unborn
<1>14. RowLeases(r, assigned)
  BY <1>2, <1>6, <1>7, <1>8 DEF Leases, RowLeases
<1>15. ASSUME NEW h \in Handlers PROVE TxLeases(tx[h], r)
  <2>1. TxLeases(tx[h], row)
    BY <1>2 DEF Leases
  <2>2. \A k \in Seqs : contract[k].kind = "acquire" => Seen(tx[h], r, k) = Seen(tx[h], row, k)
    BY <1>6, <1>7 DEF Seen
  <2>3. \A k \in DOMAIN tx[h].w : r[k].state \in {"DONE", "FAILED"} => row[k].state \in {"DONE", "FAILED"}
    BY <1>2, <1>7
  <2> QED BY <2>1, <2>2, <2>3 DEF TxLeases
<1>16. RolesHeld(tx, r, assigned, held)
  BY <1>2, <1>10, <1>11, <1>12, <1>13 DEF Leases, RolesHeld
<1>17. RolesApart(tx, r, assigned)
  <2>1. ASSUME NEW p \in Bindable, NEW q \in Bindable, NEW m \in Nodes, p # q,
               Old(tx, r, assigned, p, m), Old(tx, r, assigned, q, m)
        PROVE  {p, q} \subseteq Roles \/ GivenUp(r, p) \/ GivenUp(r, q)
    BY <1>2, <1>10, <1>12, <2>1 DEF Leases, RolesApart
  <2>2. ASSUME NEW p \in Bindable, NEW q \in Bindable, NEW m \in Nodes, NEW k \in Handlers,
               New(tx[k], r, p, m), New(tx[k], r, q, m)
        PROVE  p = q
    BY <1>2, <1>11, <2>2 DEF Leases, RolesApart
  <2> QED BY <2>1, <2>2 DEF RolesApart
<1>18. MovedIsGivenUp(tx, r, assigned)
  BY <1>2, <1>10, <1>12 DEF Leases, MovedIsGivenUp
<1> QED BY <1>2, <1>14, <1>15, <1>16, <1>17, <1>18 DEF Leases

\* A commit makes what its transaction has just acquired old; what it gives up is given up.
LEMMA LeasesCommit ==
    ASSUME TypedInv, RoadInv, RowsInv, LeaseInv, NEW k \in Handlers, Commit(k)
    PROVE  LeaseInv'
<1>1. /\ row' = View(k) /\ contract' = contract /\ Open(k)
      /\ held' = HeldBy(k) /\ assigned' = Known(k)
      /\ \A h \in Handlers : tx'[h] = IF h = k THEN Closed ELSE tx[h]
      /\ \A s \in DOMAIN tx[k].w : row'[s] = tx[k].w[s]
      /\ \A s \in Seqs \ DOMAIN tx[k].w : row'[s] = row[s]
      /\ \A h \in Handlers \ {k} : \A s \in DOMAIN tx[h].w : row'[s] = row[s]
  BY CommitsAre
<1> SUFFICES ASSUME GivenOnce, AcquiresArePlain PROVE Leases(tx', row', assigned', held')
  BY <1>1, LeasesKept
<1>2. /\ Leases(tx, row, assigned, held) /\ DOMAIN row = Seqs /\ DOMAIN View(k) = Seqs /\ tx[k].pc = "commit"
      /\ \A h \in Handlers : DOMAIN tx[h].w \subseteq Seqs
  BY ViewIs DEF LeaseInv, TypedInv, Typed, Commit
<1>3. PICK y, r, A, H : y = tx' /\ r = row' /\ A = assigned' /\ H = held'
  OBVIOUS
<1>4. SUFFICES Leases(y, r, A, H)
  BY <1>3
<1> DEFINE o == tx[k]
<1>5. /\ DOMAIN r = Seqs /\ A = Known(k) /\ H = (held \ o.drop) \cup o.grab
      /\ \A h \in Handlers : y[h] = IF h = k THEN Closed ELSE tx[h]
      /\ \A s \in DOMAIN o.w : r[s] = o.w[s]
      /\ \A s \in Seqs \ DOMAIN o.w : r[s] = row[s]
      /\ \A h \in Handlers \ {k} : \A s \in DOMAIN tx[h].w : r[s] = row[s]
  BY <1>1, <1>2, <1>3 DEF HeldBy
<1>6. /\ RowLeases(row, assigned) /\ TxLeases(o, row) /\ TxSteps(o, row)
      /\ \A s \in Seqs : contract[s].kind = "acquire" /\ row[s].state = "DONE" => r[s].state = "DONE"
  BY <1>1, <1>2, <1>3, ViewPlain DEF Leases, RowsInv
<1> HIDE DEF o
<1>7. \A q, n : Stands(r, A, q, n) => Stands(row, assigned, q, n) \/ Owns(o, q, n)
  BY <1>2, <1>5 DEF Stands, Owns, Bears, Known, o
<1>8. \A h \in Handlers \ {k} : \A q : Fresh(tx[h], r, q) <=> Fresh(tx[h], row, q)
  BY <1>5 DEF Fresh
<1>9. \A q, n : Old(y, r, A, q, n) => Old(tx, row, assigned, q, n) \/ New(o, row, q, n)
  <2>1. \A q, n : Owns(o, q, n) => Old(tx, row, assigned, q, n) \/ New(o, row, q, n)
    BY DEF Old, New, o
  <2> QED BY <1>5, <1>7, <1>8, <2>1, ClosedOwns DEF Old
<1>10. \A q, n : \A h \in Handlers : New(y[h], r, q, n) => h # k /\ y[h] = tx[h] /\ New(tx[h], row, q, n)
  BY <1>5, <1>8, ClosedOwns DEF New
<1>11. \A q : GivenUp(row, q) => GivenUp(r, q)
  BY <1>5, <1>6 DEF GivenUp, TxLeases
<1>12. \A q : Past(o, q) => GivenUp(r, q)
  BY <1>2, <1>5 DEF Past, GivenUp, o
<1>13. ASSUME NEW q \in Bindable, NEW n \in Moved(o), Old(tx, row, assigned, q, n)
       PROVE  GivenUp(r, q)
  BY <1>2, <1>11, <1>12, <1>13 DEF Leases, MovedIsGivenUp, o
<1>14. \A q \in Bindable, n \in Nodes : New(o, row, q, n) => n \in o.grab /\ n \in Moved(o)
  BY <1>2 DEF Leases, RolesHeld, Moved, o
<1>15. First(o) => o.drop = {} /\ \A q \in Roles : Assignment[q] \in o.grab
  BY <1>6 DEF TxSteps
<1>16. RolesHeld(y, r, A, H)
  <2>1. ASSUME NEW q \in Bindable, NEW n \in Nodes, Old(y, r, A, q, n)
        PROVE  n \in H \/ GivenUp(r, q)
    <3>1. CASE New(o, row, q, n)
      BY <1>5, <1>14, <3>1
    <3>2. CASE Old(tx, row, assigned, q, n) /\ n \in held
      <4>1. n \in o.drop => n \in Moved(o)
        BY <1>15 DEF Moved, Base
      <4> QED BY <1>5, <1>13, <3>2, <4>1
    <3>3. ASSUME Old(tx, row, assigned, q, n), Unborn(row), q \in Roles PROVE n \in H
      <4>1. First(o)
        <5>1. o.seq # 0 => o.seq \in Seqs /\ row[o.seq].state # "ABSENT"
          BY <1>2, <1>6 DEF TxSteps, o
        <5> QED BY <1>2, <3>3, <5>1 DEF Unborn, First, o
      <4>2. n = Assignment[q]
        BY <1>2, <3>3 DEF Old, Leases, RowLeases, TxLeases
      <4> QED BY <1>5, <1>15, <3>3, <4>1, <4>2
    <3>4. CASE Old(tx, row, assigned, q, n)
      <4>1. n \in held \/ GivenUp(row, q) \/ (Unborn(row) /\ q \in Roles)
        BY <1>2, <3>4 DEF Leases, RolesHeld
      <4> QED BY <1>11, <3>2, <3>3, <3>4, <4>1
    <3> QED BY <1>9, <2>1, <3>1, <3>4
  <2>2. ASSUME NEW q \in Bindable, NEW n \in Nodes, NEW h \in Handlers, New(y[h], r, q, n)
        PROVE  n \in y[h].grab \ Base(y[h])
    BY <1>2, <1>10, <2>2 DEF Leases, RolesHeld
  <2> QED BY <2>1, <2>2 DEF RolesHeld
<1>17. RolesApart(y, r, A)
  <2>1. ASSUME NEW p \in Bindable, NEW q \in Bindable, NEW n \in Nodes, p # q,
               Old(y, r, A, p, n), Old(y, r, A, q, n)
        PROVE  {p, q} \subseteq Roles \/ GivenUp(r, p) \/ GivenUp(r, q)
    <3>1. CASE Old(tx, row, assigned, p, n) /\ Old(tx, row, assigned, q, n)
      <4>1. {p, q} \subseteq Roles \/ GivenUp(row, p) \/ GivenUp(row, q)
        BY <1>2, <2>1, <3>1 DEF Leases, RolesApart
      <4> QED BY <1>11, <4>1
    <3>2. CASE Old(tx, row, assigned, p, n) /\ New(o, row, q, n)
      BY <1>13, <1>14, <3>2
    <3>3. CASE New(o, row, p, n) /\ Old(tx, row, assigned, q, n)
      BY <1>13, <1>14, <3>3
    <3>4. CASE New(o, row, p, n) /\ New(o, row, q, n)
      BY <1>2, <2>1, <3>4 DEF Leases, RolesApart, o
    <3> QED BY <1>9, <2>1, <3>1, <3>2, <3>3, <3>4
  <2>2. ASSUME NEW p \in Bindable, NEW q \in Bindable, NEW n \in Nodes, NEW h \in Handlers,
               New(y[h], r, p, n), New(y[h], r, q, n)
        PROVE  p = q
    <3>1. New(tx[h], row, p, n) /\ New(tx[h], row, q, n)
      BY <1>10, <2>2
    <3> QED BY <1>2, <3>1 DEF Leases, RolesApart
  <2> QED BY <2>1, <2>2 DEF RolesApart
<1>18. MovedOnce(tx, held)
  BY <1>2 DEF Leases
<1>19. MovedIsGivenUp(y, r, A)
  <2>1. ASSUME NEW h \in Handlers, NEW n \in Moved(y[h]), NEW q \in Bindable, Old(y, r, A, q, n)
        PROVE  GivenUp(r, q) \/ Past(y[h], q)
    <3>1. h # k /\ y[h] = tx[h] /\ n \in Moved(tx[h]) /\ n \in Nodes
      <4>1. h # k
        BY <1>5, <2>1, ClosedIs DEF Moved
      <4> QED BY <1>5, <2>1, <4>1, MovedNodes
    <3>2. ~New(o, row, q, n)
      <4>1. n \in o.grab => n \notin Moved(tx[h])
        BY <1>18, <3>1 DEF MovedOnce, Moved, o
      <4> QED BY <1>14, <3>1, <4>1
    <3>3. Old(tx, row, assigned, q, n)
      BY <1>9, <2>1, <3>2
    <3>4. GivenUp(row, q) \/ Past(tx[h], q)
      BY <1>2, <3>1, <3>3 DEF Leases, MovedIsGivenUp
    <3> QED BY <1>11, <3>1, <3>4
  <2> QED BY <2>1 DEF MovedIsGivenUp
<1>20. MovedOnce(y, H)
  <2>1. \A h \in Handlers \ {k} : tx[h].drop \subseteq H
    BY <1>5, <1>18 DEF MovedOnce, o
  <2> QED BY <1>5, <1>18, <2>1, ClosedIs DEF MovedOnce
<1>21. RowLeases(r, A)
  <2>1. \A q \in Roles : <<q, Assignment[q]>> \in A
    BY <1>5, <1>6 DEF RowLeases, TxLeases, Known, o
  <2>2. \A q \in Roles, n \in Nodes : Stands(r, A, q, n) => n = Assignment[q]
    BY <1>6, <1>7 DEF RowLeases, TxLeases
  <2>3. ASSUME NEW s \in Seqs, NEW n \in Nodes, contract[s].kind = "acquire", Stands(r, A, contract[s].want, n)
        PROVE  r[s].state = "DONE"
    <3>1. Owns(o, contract[s].want, n) => Seen(o, row, s).state = "DONE"
      BY <1>6, <2>3 DEF TxLeases
    <3> QED BY <1>5, <1>6, <1>7, <2>3, <3>1 DEF RowLeases, Seen
  <2> QED BY <2>1, <2>2, <2>3 DEF RowLeases
<1>22. ASSUME NEW h \in Handlers PROVE TxLeases(y[h], r)
  <2>1. CASE h = k
    BY <1>5, <2>1, ClosedOwns
  <2>2. CASE h # k
    <3>1. y[h] = tx[h] /\ TxLeases(tx[h], row) /\ \A s \in DOMAIN tx[h].w : r[s] = row[s]
      BY <1>2, <1>5, <2>2 DEF Leases
    <3>2. \A s \in Seqs : contract[s].kind = "acquire" /\ Seen(tx[h], row, s).state = "DONE" =>
                Seen(tx[h], r, s).state = "DONE"
      BY <1>6 DEF Seen
    <3> QED BY <3>1, <3>2 DEF TxLeases
  <2> QED BY <2>1, <2>2
<1> QED BY <1>16, <1>17, <1>19, <1>20, <1>21, <1>22 DEF Leases

LEMMA LeasesFirst ==
    ASSUME Init
    PROVE  LeaseInv
<1> DEFINE t == tx[Creator]
<1>1. /\ TypedInv /\ contract \in Contracts /\ held = {} /\ assigned = {<<q, Assignment[q]>> : q \in Roles}
      /\ \A s \in Seqs : row[s].state = "ABSENT"
      /\ Creator \in Handlers /\ FirstTxIs(t)
      /\ \A h \in Handlers : h # Creator => tx[h] = Closed
  BY InitIs
<1>2. /\ DOMAIN row = Seqs /\ DOMAIN t.w = Seqs
      /\ \A s \in Seqs : /\ t.w[s].node = row[s].node /\ t.w[s].state = "PENDING"
                         /\ row[s].node = IF contract[s].uses \in Roles THEN Assignment[contract[s].uses] ELSE NoNode
  BY <1>1, FirstRows DEF FirstTxIs, TypedInv, Typed
<1>3. t.pc = "acquire" /\ t.seq = 0 /\ t.grab = {Assignment[q] : q \in Roles} /\ t.drop = {} /\ t.assigned = {}
  BY <1>1 DEF FirstTxIs
<1>4. Unborn(row) /\ First(t)
  BY <1>1, <1>3 DEF Unborn, First
<1> HIDE DEF t
<1>5. ASSUME NEW q, NEW n \in Nodes, Stands(row, assigned, q, n) \/ \E h \in Handlers : Owns(tx[h], q, n)
      PROVE  q \in Roles /\ n = Assignment[q]
  <2>1. <<q, n>> \in assigned => q \in Roles /\ n = Assignment[q]
    BY <1>1
  <2>2. ASSUME NEW s \in Seqs, contract[s].uses = q, row[s].node = n PROVE q \in Roles /\ n = Assignment[q]
    BY <1>2, <2>2, Matched
  <2>3. Owns(t, q, n) => q \in Roles /\ n = Assignment[q]
    BY <1>2, <1>3, <2>2 DEF Owns, Bears
  <2>4. Stands(row, assigned, q, n) => q \in Roles /\ n = Assignment[q]
    BY <1>2, <2>1, <2>2 DEF Stands, Bears
  <2> QED BY <1>1, <1>5, <2>3, <2>4, ClosedOwns DEF t
<1>6. ASSUME NEW h \in Handlers PROVE \A q : ~Fresh(tx[h], row, q)
  BY <1>1, <1>2, ClosedIs DEF Fresh, t
<1>7. ASSUME NEW h \in Handlers PROVE Moved(tx[h]) = {}
  BY <1>1, <1>3, <1>4, ClosedIs DEF Moved, Base, t
<1>8. \A q, n : n \in Nodes /\ Old(tx, row, assigned, q, n) => q \in Roles /\ n = Assignment[q]
  BY <1>5 DEF Old
<1>9. \A h \in Handlers : \A q, n : ~New(tx[h], row, q, n)
  BY <1>6 DEF New
<1>10. \A s \in Seqs : contract[s].kind = "acquire" => contract[s].want \notin Roles
  BY <1>1, BindableIs
<1>11. RowLeases(row, assigned)
  <2>1. \A q \in Roles : <<q, Assignment[q]>> \in assigned
    BY <1>1
  <2> QED BY <1>5, <1>10, <2>1 DEF RowLeases
<1>12. ASSUME NEW h \in Handlers PROVE TxLeases(tx[h], row)
  <2>1. tx[h].assigned = {}
    BY <1>1, <1>3, ClosedIs DEF t
  <2>2. \A s \in DOMAIN tx[h].w : row[s].state = "ABSENT"
    BY <1>1, <1>2, ClosedIs DEF t
  <2> QED BY <1>5, <1>10, <2>1, <2>2 DEF TxLeases
<1>13. RolesHeld(tx, row, assigned, held)
  BY <1>4, <1>8, <1>9 DEF RolesHeld
<1>14. RolesApart(tx, row, assigned)
  BY <1>8, <1>9 DEF RolesApart
<1>15. MovedIsGivenUp(tx, row, assigned)
  BY <1>7 DEF MovedIsGivenUp
<1>16. MovedOnce(tx, held)
  BY <1>1, <1>3, ClosedIs DEF MovedOnce, t
<1> QED BY <1>11, <1>12, <1>13, <1>14, <1>15, <1>16 DEF Leases, LeaseInv

\* Who uses a role that has been given up, if releases come last, has ended.
LEMMA UsersAreOver ==
    ASSUME contract \in Contracts, AcquiresArePlain, ~RetriesMeet, InOrder(row),
           NEW i \in Seqs, NEW s \in Seqs, SurelyOver(contract, BroughtBack, i, s),
           row[i].state \in {"DONE", "FAILED"}
    PROVE  Ended(row, s)
<1> DEFINE plain == {k \in Seqs : OnOneRoad(k)}
           Rejoins(e, k) == k \in BroughtBack[e] /\ s \in Through(contract, plain \cap BroughtBack[e], k)
<1>1. /\ s \in plain \cap Through(contract, plain, i)
      /\ \A e \in Seqs \ {s} : s \in BroughtBack[e] =>
            Rejoins(e, i) \/ (e \in plain \cap Through(contract, plain, i) /\ Rejoins(e, e))
  <2>1. DOMAIN contract = Seqs /\ plain = {k \in DOMAIN contract : OneRoad(contract, BroughtBack, k)}
    BY ContractShape DEF OnOneRoad
  <2> HIDE DEF plain
  <2> QED BY <2>1 DEF SurelyOver
<1>2. OnOneRoad(s)
  BY <1>1
<1>3. HasBegun(row, i)
  BY DEF HasBegun
<1>4. plain \in SUBSET Seqs /\ \A j \in plain : OnOneRoad(j)
  OBVIOUS
<1> HIDE DEF plain
<1>5. CASE \A e \in Seqs \ {s} : s \notin BroughtBack[e]
  <2>1. Waits(i, s, plain)
    BY <1>1, <1>4, <1>5 DEF Waits
  <2> QED BY <1>3, <1>4, <2>1 DEF InOrder
<1>6. CASE \E e \in Seqs \ {s} : s \in BroughtBack[e]
  <2>1. PICK e \in Seqs \ {s} : s \in BroughtBack[e]
    BY <1>6
  <2>2. \A d \in Seqs : s \in BroughtBack[d] => d = e
    BY <2>1, OneBrings
  <2>3. PICK A : A = plain \cap BroughtBack[e]
    OBVIOUS
  <2>4. A \in SUBSET Seqs /\ A \subseteq BroughtBack[e] /\ \A j \in A : OnOneRoad(j)
    BY <1>4, <2>3
  <2>5. CASE Rejoins(e, i)
    <3>1. Waits(i, s, A)
      BY <1>2, <2>2, <2>3, <2>4, <2>5 DEF Waits
    <3> QED BY <1>3, <2>4, <3>1 DEF InOrder
  <2>6. CASE e \in plain \cap Through(contract, plain, i) /\ Rejoins(e, e)
    <3>1. \A d \in Seqs : e \in BroughtBack[d] => d = e
      BY <2>1, <2>6, OneBrings
    <3>2. Waits(i, e, plain)
      BY <1>4, <2>6, <3>1 DEF Waits
    <3>3. Ended(row, e) /\ OnOneRoad(e)
      BY <1>3, <1>4, <2>1, <2>6, <3>2 DEF InOrder
    <3>4. HasBegun(row, e)
      BY <3>3 DEF HasBegun, Ended
    <3>5. Waits(e, s, A)
      BY <1>2, <2>2, <2>3, <2>4, <2>6 DEF Waits
    <3> QED BY <2>1, <2>4, <3>4, <3>5 DEF InOrder
  <2> QED BY <1>1, <2>1, <2>5, <2>6
<1> QED BY <1>5, <1>6

\* A step that is yet to run, or runs, keeps its node, however late nodes are given up,
\* if their release comes last (release.go).
THEOREM ReleasesAreLate == Spec => []LateReleasesAreSafe
<1> DEFINE LateInv == RoadInv /\ RowsInv /\ OrderInv /\ LeaseInv
<1>1. Init => LateInv
  BY RoadFirst, RowsFirst, OrderFirst, LeasesFirst
<1>2. TypedInv /\ LateInv /\ [Next]_vars => LateInv'
  <2> SUFFICES ASSUME TypedInv, RoadInv, RowsInv, OrderInv, LeaseInv, [Next]_vars
               PROVE  RowsInv' /\ OrderInv' /\ LeaseInv'
    BY RoadStepwise
  <2>1. ASSUME UNCHANGED <<contract, row, tx, held, assigned>> PROVE RowsInv' /\ OrderInv' /\ LeaseInv'
    BY <2>1, RowsStutter, OrderStutter, LeasesStutter
  <2>2. ASSUME NEW n \in Nodes, Work(n) \/ Report(n) PROVE RowsInv' /\ OrderInv' /\ LeaseInv'
    <3>1. CASE Claim(n)
      BY <3>1, RowsClaim, OrderClaim, LeasesClaim
    <3>2. ASSUME NEW h \in Handlers, ReportOk(h, n) \/ ReportFailed(h, n)
          PROVE  RowsInv' /\ OrderInv' /\ LeaseInv'
      BY <3>2, RowsReport, OrderReport, LeasesReport
    <3> QED BY <2>1, <2>2, <3>1, <3>2 DEF Work, Report, Redeliver, Abandon, ReportRefused, tables
  <2>3. ASSUME NEW h \in Handlers, Handle(h) \/ Rollback(h) PROVE RowsInv' /\ OrderInv' /\ LeaseInv'
    <3>1. CASE Commit(h)
      BY <3>1, RowsCommit, OrderCommit, LeasesCommit
    <3>2. CASE ~Commit(h)
      BY <2>3, <3>2, HandleDoes, RowsDo, OrderDo, LeasesDo
    <3> QED BY <3>1, <3>2
  <2>4. ASSUME NEW h \in Handlers, NEW s \in Seqs, Answer(h, s) PROVE RowsInv' /\ OrderInv' /\ LeaseInv'
    BY <2>4, RowsReport, OrderReport, LeasesReport
  <2> QED BY <2>1, <2>2, <2>3, <2>4 DEF Next, vars, tables
<1>3. TypedInv /\ LateInv => LateReleasesAreSafe
  <2> SUFFICES ASSUME TypedInv, RowsInv, OrderInv, LeaseInv, ReleasesComeLast, AcquiresArePlain,
                      NEW s \in Seqs, row[s].state \in {"PENDING", "CLAIMED"}, row[s].node # NoNode
               PROVE  row[s].node \in held
    BY DEF LateReleasesAreSafe, StepsKeepTheirNodes
  <2> DEFINE q == contract[s].uses
             n == row[s].node
  <2>1. contract \in Contracts /\ DOMAIN row = Seqs /\ n \in Nodes
    BY DEF TypedInv, Typed, Row
  <2>2. GivenOnce
    BY DEF ReleasesComeLast, GivenOnce
  <2>3. contract[s].kind # "acquire" /\ q # NoRole /\ ~Unborn(row)
    BY DEF RowsInv, PlainRow, Unborn
  <2>4. q \in Bindable
    BY <2>1, <2>3, BindableIs
  <2>5. Old(tx, row, assigned, q, n)
    BY <2>1, <2>3 DEF Old, Stands, Bears
  <2>6. n \in held \/ GivenUp(row, q)
    BY <2>1, <2>2, <2>3, <2>4, <2>5 DEF LeaseInv, Leases, RolesHeld
  <2>7. ASSUME GivenUp(row, q) PROVE FALSE
    <3>1. PICK i \in Seqs : q \in contract[i].release /\ row[i].state \in {"DONE", "FAILED"}
      BY <2>7 DEF GivenUp
    <3>2. i # s
      BY <3>1
    <3>3. ~RetriesMeet /\ SurelyOver(contract, BroughtBack, i, s)
      BY <3>1, <3>2 DEF ReleasesComeLast
    <3>4. Ended(row, s)
      BY <2>1, <3>1, <3>3, UsersAreOver DEF OrderInv
    <3> QED BY <3>4 DEF Ended
  <2> QED BY <2>6, <2>7
<1> QED BY <1>1, <1>2, <1>3, GraphTyped, PTL DEF Spec

-----------------------------------------------------------------------------
(* PlanColumn: the types.                                                   *)

PlanNames == {st.id : st \in Planning!Steps} \cup {NoStep}
Bys == {"requester", "step", "answer", "contract"} \X PlanNames
Versions == [by : Bys, proposed : SUBSET PlanNames, steps : Seq(Planning!Steps), crit : SUBSET PlanNames]
PlanRow == [name : PlanNames, kind : {st.kind : st \in Planning!Steps}, needs : {st.needs : st \in Planning!Steps},
            state : Planning!StepStates, attempt : Nat]
PlanTx == [pc : {"idle", "report", "answer", "column"}, seq : Nat, seen : Seq(Versions),
           again : Seq(Versions), plan : SUBSET Plans, yes : BOOLEAN]

IsTable(r) == r \in [DOMAIN r -> PlanRow] /\ DOMAIN r \subseteq Nat \ {0}

\* b begins with a.
Continues(a, b) == Len(a) <= Len(b) /\ \A j \in 1..Len(a) : b[j] = a[j]

IsColumn(c) ==
    /\ c \in Seq(Versions) /\ Len(c) >= 1 /\ c[1].by = Planning!ByRequester
    /\ \A i \in DOMAIN c : Planning!Valid(c[i]) /\ Continues(c[1].steps, c[i].steps)

\* A column that was read of this Run.
OfRun(c) == IsColumn(c) /\ c[1] = column[1]

At(t) == IF t.pc = "report" THEN "CLAIMED" ELSE "ASKED"

PlanOf(c, s) == s \in DOMAIN Planning!Live(c).steps /\ Planning!Live(c).steps[s].kind = "plan"

TxSound(t, r) ==
    /\ OfRun(t.seen) /\ (t.pc = "column" => OfRun(t.again))
    /\ t.seq \in DOMAIN r /\ r[t.seq].state = At(t)
    /\ t.pc = "report" /\ PlanOf(t.seen, t.seq) => t.plan # {}

\* The rows of the contract that was submitted.
Submitted(r) ==
    \A i \in 1..Len(column[1].steps) : i \in DOMAIN r /\ r[i].name = column[1].steps[i].id

PlanTyped ==
    /\ IsColumn(column) /\ IsTable(rows) /\ Submitted(rows)
    /\ txs \in [Handlers -> PlanTx]
    /\ \A h \in Handlers : Planning!Open(h) => TxSound(txs[h], rows)
    /\ \A h, k \in Handlers : Planning!Open(h) /\ Planning!Open(k) /\ txs[h].seq = txs[k].seq => h = k
    /\ \A h \in Handlers : ~Planning!Open(h) => txs[h].seq = 0

-----------------------------------------------------------------------------
(* Versions and columns.                                                    *)

LEMMA VersionFields ==
    ASSUME NEW v \in Versions
    PROVE  v.by \in Bys /\ v.proposed \in SUBSET PlanNames /\ v.steps \in Seq(Planning!Steps) /\ v.crit \in SUBSET PlanNames
BY DEF Versions

LEMMA IdsAreNames ==
    ASSUME NEW s \in Seq(Planning!Steps)
    PROVE  Planning!Ids(s) \subseteq PlanNames
BY DEF Planning!Ids, PlanNames

LEMMA MadeVersion ==
    ASSUME NEW by \in Bys, NEW p, NEW s \in Seq(Planning!Steps), NEW c, c \subseteq Planning!Ids(s), p \subseteq PlanNames
    PROVE  Planning!Version(by, p, s, c) \in Versions
BY IdsAreNames DEF Planning!Version, Versions

LEMMA ColumnVersions ==
    ASSUME NEW c, IsColumn(c)
    PROVE  /\ c \in Seq(Versions) /\ Len(c) \in Nat /\ Len(c) >= 1 /\ DOMAIN c = 1..Len(c)
           /\ Planning!Live(c) = c[Len(c)] /\ Len(c) \in DOMAIN c /\ 1 \in DOMAIN c
           /\ \A i \in DOMAIN c : c[i] \in Versions /\ Planning!Valid(c[i]) /\ Continues(c[1].steps, c[i].steps)
BY DEF IsColumn, Planning!Live, Planning!Last

LEMMA StepsContinue ==
    ASSUME NEW a \in Seq(Planning!Steps), NEW b \in Seq(Planning!Steps), NEW e \in Seq(Planning!Steps), Continues(a, b)
    PROVE  Continues(a, b \o e) /\ Continues(b, b \o e) /\ b \o e \in Seq(Planning!Steps)
BY DEF Continues

LEMMA OneMore ==
    ASSUME NEW c, IsColumn(c), NEW v \in Versions, Planning!Valid(v), Continues(c[1].steps, v.steps)
    PROVE  /\ IsColumn(c \o <<v>>) /\ (c \o <<v>>)[1] = c[1] /\ Planning!Live(c \o <<v>>) = v
           /\ Len(c \o <<v>>) = Len(c) + 1 /\ Append(c, v) = c \o <<v>>
<1> DEFINE d == c \o <<v>>
<1>1. c \in Seq(Versions) /\ Len(c) >= 1 /\ DOMAIN c = 1..Len(c) /\ c[1].by = Planning!ByRequester
  BY ColumnVersions DEF IsColumn
<1>2. d \in Seq(Versions) /\ Len(d) = Len(c) + 1 /\ d[Len(d)] = v /\ \A i \in 1..Len(c) : d[i] = c[i]
  BY <1>1
<1>3. d[1] = c[1]
  BY <1>1, <1>2
<1>4. \A i \in DOMAIN d : i \in DOMAIN c \/ i = Len(d)
  BY <1>1, <1>2
<1>5. \A i \in DOMAIN d : Planning!Valid(d[i]) /\ Continues(d[1].steps, d[i].steps)
  BY <1>1, <1>2, <1>3, <1>4, ColumnVersions
<1>6. Append(c, v) = d
  BY <1>1
<1> QED BY <1>1, <1>2, <1>3, <1>5, <1>6 DEF IsColumn, Planning!Live, Planning!Last

-----------------------------------------------------------------------------
(* What the rewrites of rows do.                                            *)

\* q is r, where outside of S pending questions may have been asked and
\* pending steps been skipped.
Rewritten(r, q, S) ==
    /\ IsTable(q) /\ DOMAIN q = DOMAIN r
    /\ \A s \in DOMAIN r :
        /\ q[s].name = r[s].name
        /\ s \in S \/ q[s].state = r[s].state \/ (r[s].state = "PENDING" /\ q[s].state \in {"ASKED", "SKIPPED"})

LEMMA RowSet ==
    ASSUME NEW x \in PlanRow, NEW st \in Planning!StepStates
    PROVE  LET y == [x EXCEPT !.state = st] IN y \in PlanRow /\ y.state = st /\ y.name = x.name
BY DEF PlanRow

LEMMA RewrittenOn ==
    ASSUME NEW r, NEW q, NEW p, NEW S, IsTable(r), Rewritten(r, q, S), Rewritten(q, p, {})
    PROVE  Rewritten(r, p, S)
BY DEF Rewritten

LEMMA RaiseIs ==
    ASSUME NEW r, IsTable(r), NEW steps
    PROVE  Rewritten(r, Planning!Raise(r, steps), {})
<1>1. \A s \in DOMAIN r : r[s] \in PlanRow /\ LET y == [r[s] EXCEPT !.state = "ASKED"]
                                             IN  y \in PlanRow /\ y.state = "ASKED" /\ y.name = r[s].name
  BY RowSet DEF Planning!StepStates, IsTable
<1> QED BY <1>1 DEF Planning!Raise, Rewritten, IsTable

LEMMA PropagateIs ==
    ASSUME NEW r, IsTable(r)
    PROVE  Rewritten(r, Planning!Propagate(r), {})
<1>1. PICK D : Planning!Propagate(r) = [s \in DOMAIN r |-> IF r[s].state = "PENDING" /\ D[s]
                                                  THEN [r[s] EXCEPT !.state = "SKIPPED"] ELSE r[s]]
  BY Zenon DEF Planning!Propagate
<1>2. \A s \in DOMAIN r : r[s] \in PlanRow /\ LET y == [r[s] EXCEPT !.state = "SKIPPED"]
                                             IN  y \in PlanRow /\ y.state = "SKIPPED" /\ y.name = r[s].name
  BY RowSet DEF Planning!StepStates, IsTable
<1> QED BY <1>1, <1>2 DEF Rewritten, IsTable

LEMMA SkipAdoptersIs ==
    ASSUME NEW r, IsTable(r), NEW steps, NEW id
    PROVE  Rewritten(r, Planning!SkipAdopters(r, steps, id), {})
<1> DEFINE N == {steps[i].id : i \in Planning!Adopters(steps, id)}
           q == [s \in DOMAIN r |-> IF r[s].state = "PENDING" /\ r[s].name \in N
                                    THEN [r[s] EXCEPT !.state = "SKIPPED"] ELSE r[s]]
<1>1. Planning!SkipAdopters(r, steps, id) = Planning!Propagate(q)
  BY DEF Planning!SkipAdopters
<1> HIDE DEF N
<1>2. \A s \in DOMAIN r : r[s] \in PlanRow /\ LET y == [r[s] EXCEPT !.state = "SKIPPED"]
                                             IN  y \in PlanRow /\ y.state = "SKIPPED" /\ y.name = r[s].name
  BY RowSet DEF Planning!StepStates, IsTable
<1>3. Rewritten(r, q, {})
  BY <1>2 DEF Rewritten, IsTable
<1>4. IsTable(q)
  BY <1>3 DEF Rewritten
<1> HIDE DEF q
<1> QED BY <1>1, <1>3, <1>4, PropagateIs, RewrittenOn

LEMMA PlanAgainIs ==
    ASSUME NEW r, IsTable(r), NEW S, NEW a \in Nat
    PROVE  Rewritten(r, Planning!Again(r, S, a), S) /\ \A s \in DOMAIN r \cap S : Planning!Again(r, S, a)[s].state = "PENDING"
<1>1. \A s \in DOMAIN r : r[s] \in PlanRow /\ LET y == [r[s] EXCEPT !.state = "PENDING", !.attempt = a]
                                             IN  y \in PlanRow /\ y.state = "PENDING" /\ y.name = r[s].name
  BY DEF Planning!StepStates, IsTable, PlanRow
<1> QED BY <1>1 DEF Planning!Again, Rewritten, IsTable

LEMMA SetIs ==
    ASSUME NEW r, IsTable(r), NEW s \in DOMAIN r, NEW st \in Planning!StepStates
    PROVE  LET q == [r EXCEPT ![s].state = st] IN Rewritten(r, q, {s}) /\ q[s].state = st
<1>1. \A k \in DOMAIN r : r[k] \in PlanRow
  BY DEF IsTable
<1>2. LET y == [r[s] EXCEPT !.state = st] IN y \in PlanRow /\ y.state = st /\ y.name = r[s].name
  BY <1>1, RowSet
<1> QED BY <1>1, <1>2 DEF Rewritten, IsTable

-----------------------------------------------------------------------------
(* Types: what each step leaves of them.                                    *)

\* Every name a plan or a contract uses is one.
LEMMA PlanRowIs ==
    ASSUME NEW st \in Planning!Steps
    PROVE  Planning!FirstRow(st) \in PlanRow /\ Planning!FirstRow(st).name = st.id /\ Planning!FirstRow(st).state = "PENDING"
BY DEF Planning!FirstRow, PlanRow, PlanNames, Planning!StepStates

LEMMA OpenFacts ==
    ASSUME PlanTyped, NEW h \in Handlers, Planning!Open(h)
    PROVE  /\ txs[h] \in PlanTx /\ TxSound(txs[h], rows)
           /\ IsColumn(txs[h].seen) /\ txs[h].seen[1] = column[1]
           /\ txs[h].pc = "column" => IsColumn(txs[h].again) /\ txs[h].again[1] = column[1]
           /\ txs[h].seq \in DOMAIN rows /\ txs[h].seq \in Nat \ {0}
           /\ rows[txs[h].seq].state \in {"CLAIMED", "ASKED"}
BY DEF PlanTyped, TxSound, OfRun, At, IsTable

LEMMA PlanClosedIs == Planning!Closed \in PlanTx /\ Planning!Closed.pc = "idle" /\ Planning!Closed.seq = 0
BY DEF Planning!Closed, PlanTx

\* What the others hold is as it was.
Spared(h, q) ==
    \A k \in Handlers \ {h} : Planning!Open(k) => txs[k].seq \in DOMAIN q /\ q[txs[k].seq].state = rows[txs[k].seq].state

LEMMA RewrittenSpares ==
    ASSUME PlanTyped, NEW h \in Handlers, NEW q, NEW S, Rewritten(rows, q, S), S \cap Planning!Locked(h) = {}
    PROVE  IsTable(q) /\ Submitted(q) /\ Spared(h, q)
<1>1. IsTable(q) /\ Submitted(q)
  BY DEF PlanTyped, Submitted, Rewritten
<1>2. ASSUME NEW k \in Handlers \ {h}, Planning!Open(k)
      PROVE  txs[k].seq \in DOMAIN q /\ q[txs[k].seq].state = rows[txs[k].seq].state
  <2>1. txs[k].seq \in DOMAIN rows /\ rows[txs[k].seq].state \in {"CLAIMED", "ASKED"}
    BY <1>2, OpenFacts
  <2>2. txs[k].seq \notin S
    BY DEF Planning!Locked
  <2> QED BY <2>1, <2>2 DEF Rewritten
<1> QED BY <1>1, <1>2 DEF Spared

\* A transaction commits.
LEMMA CommitKeepsTypes ==
    ASSUME PlanTyped, NEW h \in Handlers, Planning!Open(h), Planning!Close(h),
           IsColumn(column'), column'[1] = column[1],
           IsTable(rows'), Submitted(rows'), Spared(h, rows')
    PROVE  PlanTyped'
<1>1. txs \in [Handlers -> PlanTx] /\ txs' = [txs EXCEPT ![h] = Planning!Closed]
  BY DEF PlanTyped, Planning!Close
<1>2. txs' \in [Handlers -> PlanTx] /\ txs'[h] = Planning!Closed /\ \A k \in Handlers \ {h} : txs'[k] = txs[k]
  BY <1>1, PlanClosedIs
<1>3. \A k \in Handlers : Planning!Open(k)' => k # h /\ Planning!Open(k) /\ txs'[k] = txs[k]
  BY <1>2, PlanClosedIs DEF Planning!Open
<1>4. ASSUME NEW k \in Handlers, Planning!Open(k)'
      PROVE  TxSound(txs[k], rows)'
  <2>1. k # h /\ Planning!Open(k) /\ txs'[k] = txs[k]
    BY <1>3, <1>4
  <2>2. TxSound(txs[k], rows)
    BY <2>1 DEF PlanTyped
  <2>3. txs[k].seq \in DOMAIN rows' /\ rows'[txs[k].seq].state = rows[txs[k].seq].state
    BY <2>1 DEF Spared
  <2> QED BY <2>1, <2>2, <2>3 DEF TxSound, OfRun
<1>5. Submitted(rows)'
  BY DEF Submitted
<1>6. \A j, k \in Handlers : Planning!Open(j)' /\ Planning!Open(k)' /\ txs'[j].seq = txs'[k].seq => j = k
  BY <1>3 DEF PlanTyped
<1>7. \A k \in Handlers : ~Planning!Open(k)' => txs'[k].seq = 0
  BY <1>2, PlanClosedIs DEF PlanTyped, Planning!Open
<1> QED BY <1>2, <1>4, <1>5, <1>6, <1>7 DEF PlanTyped

LEMMA RewriteKeepsTypes ==
    ASSUME PlanTyped, NEW h \in Handlers, Planning!Open(h), Planning!Close(h),
           IsColumn(column'), column'[1] = column[1],
           NEW S, Rewritten(rows, rows', S), S \cap Planning!Locked(h) = {}
    PROVE  PlanTyped'
BY RewrittenSpares, CommitKeepsTypes

\* A transaction is opened, or reads on.
LEMMA ReadKeepsTypes ==
    ASSUME PlanTyped, NEW h \in Handlers, NEW t \in PlanTx, t.pc # "idle", t.seq \notin Planning!Locked(h),
           TxSound(t, rows), txs' = [txs EXCEPT ![h] = t], UNCHANGED <<column, rows>>
    PROVE  PlanTyped'
<1>1. txs' \in [Handlers -> PlanTx] /\ txs'[h] = t /\ \A k \in Handlers \ {h} : txs'[k] = txs[k]
  BY DEF PlanTyped
<1>2. \A k \in Handlers : Planning!Open(k)' => TxSound(txs'[k], rows)
  BY <1>1 DEF PlanTyped, Planning!Open
<1>3. \A k \in Handlers : Planning!Open(k)' => TxSound(txs[k], rows)'
  BY <1>2 DEF TxSound, OfRun
<1>4. \A j, k \in Handlers : Planning!Open(j)' /\ Planning!Open(k)' /\ txs'[j].seq = txs'[k].seq => j = k
  BY <1>1 DEF PlanTyped, Planning!Open, Planning!Locked
<1>5. \A k \in Handlers : ~Planning!Open(k)' => txs'[k].seq = 0
  BY <1>1 DEF PlanTyped, Planning!Open
<1> QED BY <1>1, <1>3, <1>4, <1>5 DEF PlanTyped, Submitted

\* The last of some places is one of them.
LEMMA LastIsMember ==
    ASSUME NEW n \in Nat, NEW S \in SUBSET (1..n), S # {}
    PROVE  Planning!LastOf(S) \in S /\ \A y \in S : y <= Planning!LastOf(S)
<1> DEFINE T == {n - x : x \in S}
<1>0. \A x \in S : n - x \in Nat
  OBVIOUS
<1>1. T \in SUBSET Nat /\ T # {}
  BY <1>0
<1> HIDE DEF T
<1>2. PICK m \in T : \A k \in T : m <= k
  BY <1>1, LeastExists
<1>3. PICK x \in S : m = n - x
  BY <1>2 DEF T
<1>4. \A y \in S : n - y \in T
  BY DEF T
<1>5. \A y \in S : y <= x
  BY <1>2, <1>3, <1>4
<1> QED BY <1>5, Zenon DEF Planning!LastOf

-----------------------------------------------------------------------------
(* What a transaction is about.                                             *)

LEMMA LiveFacts ==
    ASSUME NEW c, IsColumn(c)
    PROVE  /\ Planning!Live(c) \in Versions /\ Planning!Valid(Planning!Live(c)) /\ Continues(c[1].steps, Planning!Live(c).steps)
           /\ Planning!Live(c).steps \in Seq(Planning!Steps) /\ DOMAIN Planning!Live(c).steps = 1..Len(Planning!Live(c).steps)
           /\ Len(Planning!Live(c).steps) \in Nat /\ c[1].steps \in Seq(Planning!Steps)
<1>1. Planning!Live(c) \in Versions /\ Planning!Valid(Planning!Live(c)) /\ Continues(c[1].steps, Planning!Live(c).steps) /\ c[1] \in Versions
  BY ColumnVersions
<1>2. Planning!Live(c).steps \in Seq(Planning!Steps) /\ c[1].steps \in Seq(Planning!Steps)
  BY <1>1, VersionFields
<1> QED BY <1>1, <1>2

LEMMA PlaceIs ==
    ASSUME NEW s, NEW id \in Planning!Ids(s)
    PROVE  Planning!PlaceOf(s, id) \in DOMAIN s /\ s[Planning!PlaceOf(s, id)].id = id
<1>1. \E i \in DOMAIN s : s[i].id = id
  BY DEF Planning!Ids
<1> QED BY <1>1, Zenon DEF Planning!PlaceOf

LEMMA ValidNames ==
    ASSUME NEW v \in Versions, Planning!Valid(v), NEW i \in DOMAIN v.steps
    PROVE  /\ v.steps[i].back # NoStep => v.steps[i].back \in Planning!Ids(v.steps)
           /\ v.steps[i].adopts # NoStep => v.steps[i].adopts \in Planning!Ids(v.steps)
           /\ v.steps[i].id \in Planning!Ids(v.steps)
<1> DEFINE e == SubSeq(v.steps, 1, i - 1)
<1>1. v.steps \in Seq(Planning!Steps) /\ i \in 1..Len(v.steps)
  BY VersionFields
<1>2. DOMAIN e = 1..(i - 1) /\ \A j \in 1..(i - 1) : e[j] = v.steps[j] /\ j \in DOMAIN v.steps
  BY <1>1
<1>3. Planning!Ids(e) \subseteq Planning!Ids(v.steps)
  BY <1>2 DEF Planning!Ids
<1>4. v.steps[i].back # NoStep => v.steps[i].back \in Planning!Ids(e)
  BY DEF Planning!Valid
<1>5. v.steps[i].adopts # NoStep => \E j \in DOMAIN v.steps : v.steps[j].id = v.steps[i].adopts
  BY DEF Planning!Valid
<1> QED BY <1>3, <1>4, <1>5 DEF Planning!Ids

LEMMA StepOfIs ==
    ASSUME PlanTyped, NEW h \in Handlers, Planning!Open(h),
           Planning!StepOf(h).kind = "plan" \/ Planning!StepOf(h).back # NoStep \/ Planning!StepOf(h).adopts # NoStep
    PROVE  LET steps == Planning!Live(txs[h].seen).steps IN
           /\ txs[h].seq \in DOMAIN steps /\ Planning!StepOf(h) = steps[txs[h].seq] /\ Planning!StepOf(h).id \in Planning!Ids(steps)
           /\ Planning!StepOf(h).id \in PlanNames
           /\ Planning!StepOf(h).back # NoStep => Planning!PlaceOf(steps, Planning!StepOf(h).back) \in DOMAIN steps
           /\ Planning!StepOf(h).adopts # NoStep => Planning!Planner(h) \in DOMAIN steps
<1> DEFINE v == Planning!Live(txs[h].seen)
<1>1. IsColumn(txs[h].seen)
  BY OpenFacts
<1>2. v \in Versions /\ Planning!Valid(v) /\ v.steps \in Seq(Planning!Steps)
  BY <1>1, LiveFacts
<1>3. txs[h].seq \in DOMAIN v.steps /\ Planning!StepOf(h) = v.steps[txs[h].seq]
  BY DEF Planning!StepOf, Planning!None
<1> HIDE DEF v
<1>4. /\ Planning!StepOf(h).back # NoStep => Planning!StepOf(h).back \in Planning!Ids(v.steps)
      /\ Planning!StepOf(h).adopts # NoStep => Planning!StepOf(h).adopts \in Planning!Ids(v.steps)
      /\ Planning!StepOf(h).id \in Planning!Ids(v.steps)
  BY <1>2, <1>3, ValidNames
<1>5. Planning!StepOf(h).id \in PlanNames
  BY <1>2, <1>4, IdsAreNames
<1> QED BY <1>3, <1>4, <1>5, PlaceIs DEF v, Planning!Planner

LEMMA OwnSeq ==
    ASSUME PlanTyped, NEW h \in Handlers, Planning!Open(h)
    PROVE  {txs[h].seq} \cap Planning!Locked(h) = {}
<1>1. txs[h].seq # 0
  BY OpenFacts
<1> QED BY <1>1 DEF PlanTyped, Planning!Locked

LEMMA DoneIs ==
    ASSUME PlanTyped, NEW h \in Handlers, Planning!Open(h)
    PROVE  Rewritten(rows, Planning!Done(h), {txs[h].seq}) /\ IsTable(Planning!Done(h))
<1>1. txs[h].seq \in DOMAIN rows /\ IsTable(rows) /\ "DONE" \in Planning!StepStates
  BY OpenFacts DEF PlanTyped, Planning!StepStates
<1> QED BY <1>1, SetIs DEF Planning!Done, Rewritten

LEMMA RaisedOn ==
    ASSUME NEW r, NEW q, NEW S, IsTable(r), Rewritten(r, q, S), NEW steps
    PROVE  Rewritten(r, Planning!Raise(q, steps), S)
<1>1. IsTable(q)
  BY DEF Rewritten
<1> QED BY <1>1, RaiseIs, RewrittenOn

-----------------------------------------------------------------------------
(* Types: the steps of a report.                                            *)

LEMMA ClaimTypes ==
    ASSUME PlanTyped, NEW s \in DOMAIN rows, Planning!Claim(s)
    PROVE  PlanTyped'
<1>1. IsTable(rows) /\ "CLAIMED" \in Planning!StepStates /\ UNCHANGED <<column, txs>>
  BY DEF PlanTyped, Planning!StepStates, Planning!Claim
<1>2. Rewritten(rows, rows', {s}) /\ rows[s].state = "PENDING"
  BY <1>1, SetIs DEF Planning!Claim
<1>3. IsTable(rows') /\ Submitted(rows')
  BY <1>2 DEF PlanTyped, Rewritten, Submitted
<1>4. \A h \in Handlers : Planning!Open(h)' <=> Planning!Open(h)
  BY <1>1 DEF Planning!Open
<1>5. ASSUME NEW h \in Handlers, Planning!Open(h)
      PROVE  TxSound(txs[h], rows')
  <2>1. TxSound(txs[h], rows) /\ txs[h].seq \in DOMAIN rows /\ rows[txs[h].seq].state # "PENDING"
    BY <1>5, OpenFacts
  <2>2. txs[h].seq \in DOMAIN rows' /\ rows'[txs[h].seq].state = rows[txs[h].seq].state
    BY <1>2, <2>1 DEF Rewritten
  <2> QED BY <2>1, <2>2 DEF TxSound
<1>6. \A h \in Handlers : Planning!Open(h)' => TxSound(txs[h], rows)'
  BY <1>1, <1>4, <1>5 DEF TxSound, OfRun
<1> QED BY <1>1, <1>3, <1>4, <1>6 DEF PlanTyped, Submitted

LEMMA BroughtIs ==
    ASSUME NEW s, NEW plan \in Planning!Brought(s), NEW yes \in Planning!LoopMet(s)
    PROVE  plan \in SUBSET Plans /\ yes \in BOOLEAN /\ (PlanOf(column, s) => plan # {})
BY DEF Planning!Brought, Planning!LoopMet, PlanOf, Planning!Standing

LEMMA BeginKeepsTypes ==
    ASSUME PlanTyped, NEW h \in Handlers, NEW s \in DOMAIN rows, s \notin Planning!Locked(h),
           NEW pc \in {"report", "answer"}, NEW plan \in SUBSET Plans, NEW yes \in BOOLEAN,
           Planning!Begin(h, pc, s, plan, yes), UNCHANGED <<column, rows>>,
           rows[s].state = IF pc = "report" THEN "CLAIMED" ELSE "ASKED",
           pc = "report" /\ PlanOf(column, s) => plan # {}
    PROVE  PlanTyped'
<1> DEFINE t == [pc |-> pc, seq |-> s, seen |-> column, again |-> <<>>, plan |-> plan, yes |-> yes]
<1>1. s \in Nat /\ column \in Seq(Versions) /\ IsColumn(column) /\ <<>> \in Seq(Versions)
  BY DEF PlanTyped, IsTable, IsColumn
<1>2. t \in PlanTx /\ t.pc = pc /\ t.seq = s /\ t.seen = column /\ t.plan = plan
  BY <1>1 DEF PlanTx
<1>3. txs' = [txs EXCEPT ![h] = t]
  BY DEF Planning!Begin
<1> HIDE DEF t
<1>4. TxSound(t, rows)
  BY <1>1, <1>2 DEF TxSound, OfRun, At
<1> QED BY <1>2, <1>3, <1>4, ReadKeepsTypes

LEMMA ReportTypes ==
    ASSUME PlanTyped, NEW h \in Handlers, NEW s \in DOMAIN rows, Planning!Report(h, s)
    PROVE  PlanTyped'
<1>1. PICK plan \in Planning!Brought(s), yes \in Planning!LoopMet(s) : Planning!Begin(h, "report", s, plan, yes)
  BY DEF Planning!Report
<1>2. plan \in SUBSET Plans /\ yes \in BOOLEAN /\ (PlanOf(column, s) => plan # {})
  BY BroughtIs
<1>3. s \notin Planning!Locked(h) /\ rows[s].state = "CLAIMED" /\ UNCHANGED <<column, rows>>
  BY DEF Planning!Report
<1> QED BY <1>1, <1>2, <1>3, BeginKeepsTypes

LEMMA AnswerTypes ==
    ASSUME PlanTyped, NEW h \in Handlers, NEW s \in DOMAIN rows, Planning!Answer(h, s)
    PROVE  PlanTyped'
<1>1. PICK yes \in BOOLEAN : Planning!Begin(h, "answer", s, {}, yes)
  BY DEF Planning!Answer
<1>2. s \notin Planning!Locked(h) /\ rows[s].state = "ASKED" /\ UNCHANGED <<column, rows>>
  BY DEF Planning!Answer
<1> QED BY <1>1, <1>2, BeginKeepsTypes

LEMMA ReadColumnTypes ==
    ASSUME PlanTyped, NEW h \in Handlers, Planning!ReadColumn(h)
    PROVE  PlanTyped'
<1> DEFINE t == [txs[h] EXCEPT !.pc = "column", !.again = column]
<1>1. Planning!Open(h) /\ txs[h].pc = "answer" /\ UNCHANGED <<column, rows>>
  BY DEF Planning!ReadColumn, Planning!Open
<1>2. column \in Seq(Versions) /\ IsColumn(column) /\ txs[h] \in PlanTx /\ TxSound(txs[h], rows)
  BY <1>1, OpenFacts DEF PlanTyped, IsColumn
<1>3. /\ t \in PlanTx /\ t.pc = "column" /\ t.again = column
      /\ t.seq = txs[h].seq /\ t.seen = txs[h].seen
  BY <1>2 DEF PlanTx
<1>4. txs' = [txs EXCEPT ![h] = t]
  BY DEF Planning!ReadColumn, PlanTyped
<1> HIDE DEF t
<1>5. t.seq \notin Planning!Locked(h)
  BY <1>1, <1>3, OwnSeq
<1>6. TxSound(t, rows)
  BY <1>1, <1>2, <1>3 DEF TxSound, OfRun, At
<1> QED BY <1>1, <1>3, <1>4, <1>5, <1>6, ReadKeepsTypes

LEMMA GoBackTypes ==
    ASSUME PlanTyped, NEW h \in Handlers, Planning!GoBack(h)
    PROVE  PlanTyped'
<1> DEFINE range == Planning!PlaceOf(Planning!Live(txs[h].seen).steps, Planning!StepOf(h).back)..txs[h].seq
           a == rows[txs[h].seq].attempt + 1
<1>1. Planning!Open(h) /\ Planning!Close(h) /\ column' = column /\ rows' = Planning!Again(rows, range \cap DOMAIN rows, a)
      /\ range \cap Planning!Locked(h) = {}
  BY DEF Planning!GoBack, Planning!Open
<1> HIDE DEF range
<1>2. IsTable(rows) /\ txs[h].seq \in DOMAIN rows /\ IsColumn(column)
  BY <1>1, OpenFacts DEF PlanTyped
<1>3. a \in Nat
  BY <1>2 DEF IsTable, PlanRow
<1> HIDE DEF a
<1>4. Rewritten(rows, rows', range \cap DOMAIN rows)
  BY <1>1, <1>2, <1>3, PlanAgainIs
<1>5. (range \cap DOMAIN rows) \cap Planning!Locked(h) = {}
  BY <1>1
<1> QED BY <1>1, <1>2, <1>4, <1>5, RewriteKeepsTypes

LEMMA FinishTypes ==
    ASSUME PlanTyped, NEW h \in Handlers, Planning!Finish(h)
    PROVE  PlanTyped'
<1>1. Planning!Open(h) /\ Planning!Close(h) /\ column' = column /\ rows' = Planning!Raise(Planning!Done(h), Planning!Live(column).steps)
  BY DEF Planning!Finish, Planning!Open
<1>2. Rewritten(rows, rows', {txs[h].seq}) /\ IsColumn(column)
  BY <1>1, DoneIs, RaisedOn DEF PlanTyped
<1> QED BY <1>1, <1>2, OwnSeq, RewriteKeepsTypes

LEMMA RefuseTypes ==
    ASSUME PlanTyped, NEW h \in Handlers, Planning!Refuse(h)
    PROVE  PlanTyped'
<1>1. Planning!Open(h) /\ Planning!Close(h) /\ column' = column /\ rows' = [rows EXCEPT ![txs[h].seq].state = "FAILED"]
  BY DEF Planning!Refuse, Planning!Adds, Planning!Expands, Planning!Open
<1>2. txs[h].seq \in DOMAIN rows /\ IsTable(rows) /\ "FAILED" \in Planning!StepStates /\ IsColumn(column)
  BY <1>1, OpenFacts DEF PlanTyped, Planning!StepStates
<1>3. Rewritten(rows, rows', {txs[h].seq})
  BY <1>1, <1>2, SetIs
<1> QED BY <1>1, <1>2, <1>3, OwnSeq, RewriteKeepsTypes

LEMMA AddNothingTypes ==
    ASSUME PlanTyped, NEW h \in Handlers, Planning!AddNothing(h)
    PROVE  PlanTyped'
<1> DEFINE q == Planning!SkipAdopters(Planning!Done(h), Planning!Live(txs[h].seen).steps, Planning!StepOf(h).id)
<1>1. Planning!Open(h) /\ Planning!Close(h) /\ column' = column /\ rows' = Planning!Raise(q, Planning!Live(column).steps)
  BY DEF Planning!AddNothing, Planning!Adds, Planning!Expands, Planning!Open
<1>2. IsTable(rows) /\ IsColumn(column)
  BY DEF PlanTyped
<1>3. Rewritten(rows, Planning!Done(h), {txs[h].seq}) /\ Rewritten(Planning!Done(h), q, {})
  BY <1>1, DoneIs, SkipAdoptersIs
<1> HIDE DEF q
<1>4. Rewritten(rows, q, {txs[h].seq})
  BY <1>2, <1>3, RewrittenOn
<1>5. Rewritten(rows, rows', {txs[h].seq})
  BY <1>1, <1>2, <1>4, RaisedOn
<1> QED BY <1>1, <1>2, <1>5, OwnSeq, RewriteKeepsTypes

LEMMA ConflictTypes ==
    ASSUME PlanTyped, NEW h \in Handlers, Planning!Conflict(h) \/ Planning!Undo(h)
    PROVE  PlanTyped'
<1>1. Planning!Open(h) /\ Planning!Close(h) /\ UNCHANGED <<column, rows>>
  BY DEF Planning!Conflict, Planning!Undo, Planning!Adds, Planning!Expands, Planning!Open
<1>2. IsTable(rows) /\ IsColumn(column) /\ Rewritten(rows, rows', {})
  BY <1>1 DEF PlanTyped, Rewritten
<1> QED BY <1>1, <1>2, RewriteKeepsTypes

-----------------------------------------------------------------------------
(* Types: the contract grows.                                               *)

LEMMA ValidOf ==
    ASSUME NEW v, NEW w, v.steps = w.steps, v.crit = w.crit, Planning!Valid(v)
    PROVE  Planning!Valid(w)
BY DEF Planning!Valid

LEMMA StepNamed ==
    ASSUME PlanTyped, NEW h \in Handlers, Planning!Open(h)
    PROVE  Planning!StepOf(h).id \in PlanNames /\ Planning!ByStep(Planning!StepOf(h).id) \in Bys /\ Planning!ByAnswer(Planning!StepOf(h).id) \in Bys
<1> DEFINE steps == Planning!Live(txs[h].seen).steps
<1>1. steps \in Seq(Planning!Steps)
  BY OpenFacts, LiveFacts
<1>2. \A i \in DOMAIN steps : steps[i] \in Planning!Steps
  BY <1>1
<1>3. Planning!StepOf(h).id = NoStep \/ \E i \in DOMAIN steps : Planning!StepOf(h) = steps[i]
  BY DEF Planning!StepOf, Planning!None
<1> HIDE DEF steps
<1>4. Planning!StepOf(h).id \in PlanNames
  BY <1>2, <1>3 DEF PlanNames
<1> QED BY <1>4 DEF Planning!ByStep, Planning!ByAnswer, Bys

LEMMA PlanIs ==
    ASSUME Planning!AllValid, PlanTyped, NEW h \in Handlers, Planning!Adds(h)
    PROVE  /\ Planning!Open(h) /\ txs[h].pc = "report" /\ Planning!StepOf(h).kind = "plan"
           /\ Planning!ThePlan(h) \in Plans /\ Planning!ThePlan(h).steps \in Seq(Planning!Steps)
<1>1. Planning!Open(h) /\ txs[h].pc = "report" /\ Planning!StepOf(h).kind = "plan"
  BY DEF Planning!Adds, Planning!Expands, Planning!Open
<1>2. txs[h].plan \in SUBSET Plans /\ TxSound(txs[h], rows)
  BY <1>1, OpenFacts DEF PlanTx
<1>3. PlanOf(txs[h].seen, txs[h].seq)
  BY <1>1, StepOfIs DEF PlanOf
<1>4. Planning!ThePlan(h) \in txs[h].plan
  BY <1>1, <1>2, <1>3 DEF TxSound, Planning!ThePlan
<1> QED BY <1>1, <1>2, <1>4 DEF Planning!AllValid

LEMMA TwoMore ==
    ASSUME NEW c, IsColumn(c), NEW v \in Versions, Planning!Valid(v), Continues(c[1].steps, v.steps),
           NEW w \in Versions, Planning!Valid(w), Continues(c[1].steps, w.steps)
    PROVE  /\ IsColumn(c \o <<v, w>>) /\ (c \o <<v, w>>)[1] = c[1] /\ Planning!Live(c \o <<v, w>>) = w
<1> DEFINE d == c \o <<v>>
<1>1. IsColumn(d) /\ d[1] = c[1]
  BY OneMore
<1>2. c \o <<v, w>> = d \o <<w>>
  BY ColumnVersions
<1> HIDE DEF d
<1>3. IsColumn(d \o <<w>>) /\ (d \o <<w>>)[1] = d[1] /\ Planning!Live(d \o <<w>>) = w
  BY <1>1, OneMore
<1> QED BY <1>1, <1>2, <1>3

LEMMA GrownIs ==
    ASSUME Planning!AllValid, PlanTyped, NEW h \in Handlers, Planning!Adds(h), Planning!Sound(h, Planning!ThePlan(h))
    PROVE  LET c == txs[h].seen \o Planning!Grown(h, Planning!ThePlan(h)) IN
           /\ IsColumn(c) /\ c[1] = column[1] /\ Planning!Live(c).steps = Planning!Live(txs[h].seen).steps \o Planning!ThePlan(h).steps
           /\ Planning!Grown(h, Planning!ThePlan(h)) \in Seq(Versions) /\ Planning!Live(txs[h].seen).crit \subseteq Planning!Live(c).crit
<1> DEFINE p == Planning!ThePlan(h)
           live == Planning!Live(txs[h].seen)
           steps == live.steps \o p.steps
           next == Planning!Version(Planning!ByStep(Planning!StepOf(h).id), p.proposed, steps, live.crit)
           yolo == Planning!Version(Planning!ByYolo, {}, steps, live.crit \cup p.proposed)
<1>1. Planning!Open(h) /\ p.steps \in Seq(Planning!Steps)
  BY PlanIs
<1>2. IsColumn(txs[h].seen) /\ txs[h].seen[1] = column[1]
  BY <1>1, OpenFacts
<1>3. live.steps \in Seq(Planning!Steps) /\ Continues(column[1].steps, live.steps) /\ column[1].steps \in Seq(Planning!Steps)
  BY <1>2, LiveFacts
<1>4. steps \in Seq(Planning!Steps) /\ Continues(column[1].steps, steps)
  BY <1>1, <1>3, StepsContinue
<1>5. Planning!Valid(next) /\ Planning!Valid([next EXCEPT !.crit = @ \cup p.proposed])
  BY DEF Planning!Sound
<1>6. next.steps = steps /\ next.crit = live.crit /\ yolo.steps = steps /\ yolo.crit = live.crit \cup p.proposed
  BY DEF Planning!Version
<1>7. Planning!Valid(yolo) /\ live.crit \cup p.proposed \subseteq Planning!Ids(steps)
  <2> DEFINE more == [next EXCEPT !.crit = @ \cup p.proposed]
  <2>1. more.steps = steps /\ more.crit = live.crit \cup p.proposed
    BY DEF Planning!Version
  <2>2. Planning!Valid(more)
    BY <1>5
  <2> HIDE DEF more, steps
  <2>3. Planning!Valid(yolo)
    BY <1>6, <2>1, <2>2, ValidOf
  <2>4. more.crit \subseteq Planning!Ids(more.steps)
    BY <2>2 DEF Planning!Valid
  <2> QED BY <2>1, <2>3, <2>4
<1>8. Planning!ByStep(Planning!StepOf(h).id) \in Bys /\ Planning!ByYolo \in Bys
  BY <1>1, StepNamed DEF Planning!ByYolo, Bys, PlanNames
<1>9. next \in Versions /\ yolo \in Versions
  <2> HIDE DEF steps
  <2>1. p.proposed \subseteq PlanNames
    BY <1>4, <1>7, IdsAreNames
  <2>2. next \in Versions
    BY <1>4, <1>7, <1>8, <2>1, MadeVersion
  <2>3. yolo \in Versions
    BY <1>4, <1>7, <1>8, MadeVersion
  <2> QED BY <2>2, <2>3
<1>10. Planning!Grown(h, p) = IF Planning!StepOf(h).yolo /\ p.proposed # {} THEN <<next, yolo>> ELSE <<next>>
  BY DEF Planning!Grown
<1> DEFINE seen == txs[h].seen
           c == seen \o Planning!Grown(h, p)
<1>11. Continues(seen[1].steps, next.steps) /\ Continues(seen[1].steps, yolo.steps)
  BY <1>2, <1>4, <1>6
<1> HIDE DEF next, yolo, steps, p, live, seen
<1>12. IsColumn(c) /\ c[1] = seen[1] /\ (Planning!Live(c) = next \/ Planning!Live(c) = yolo)
  <2>1. CASE Planning!StepOf(h).yolo /\ p.proposed # {}
    BY <1>2, <1>5, <1>7, <1>9, <1>10, <1>11, <2>1, TwoMore DEF seen
  <2>2. CASE ~(Planning!StepOf(h).yolo /\ p.proposed # {})
    BY <1>2, <1>5, <1>9, <1>10, <1>11, <2>2, OneMore DEF seen
  <2> QED BY <2>1, <2>2
<1>13. IsColumn(c) /\ c[1] = column[1] /\ Planning!Live(c).steps = steps /\ live.crit \subseteq Planning!Live(c).crit
  BY <1>2, <1>6, <1>12 DEF seen
<1>14. Planning!Grown(h, p) \in Seq(Versions)
  BY <1>9, <1>10
<1> QED BY <1>13, <1>14 DEF p, live, steps, seen

LEMMA SparedOn ==
    ASSUME PlanTyped, NEW h \in Handlers, NEW q, IsTable(q), Submitted(q), Spared(h, q),
           NEW r, NEW S, Rewritten(q, r, S), S \cap Planning!Locked(h) = {}
    PROVE  IsTable(r) /\ Submitted(r) /\ Spared(h, r)
<1>1. IsTable(r) /\ Submitted(r)
  BY DEF Rewritten, Submitted
<1>2. ASSUME NEW k \in Handlers \ {h}, Planning!Open(k)
      PROVE  txs[k].seq \in DOMAIN r /\ r[txs[k].seq].state = rows[txs[k].seq].state
  <2>1. rows[txs[k].seq].state \in {"CLAIMED", "ASKED"}
    BY <1>2, OpenFacts
  <2>2. txs[k].seq \in DOMAIN q /\ q[txs[k].seq].state = rows[txs[k].seq].state
    BY <1>2 DEF Spared
  <2>3. txs[k].seq \notin S
    BY DEF Planning!Locked
  <2> QED BY <2>1, <2>2, <2>3 DEF Rewritten
<1> QED BY <1>1, <1>2 DEF Spared

\* The table with the rows of a plan.
Planted(h, p) ==
    [s \in DOMAIN rows \cup Planning!NewPlaces(h, p) |->
        IF s \in DOMAIN rows THEN Planning!Done(h)[s] ELSE Planning!FirstRow((Planning!Live(txs[h].seen).steps \o p.steps)[s])]

LEMMA PlantedIs ==
    ASSUME Planning!AllValid, PlanTyped, NEW h \in Handlers, Planning!Adds(h)
    PROVE  LET q == Planted(h, Planning!ThePlan(h))
               new == Planning!NewPlaces(h, Planning!ThePlan(h))
               steps == Planning!Live(txs[h].seen).steps \o Planning!ThePlan(h).steps IN
           /\ IsTable(q) /\ DOMAIN q = DOMAIN rows \cup new /\ new \subseteq DOMAIN steps
           /\ \A s \in DOMAIN rows : q[s] = Planning!Done(h)[s]
           /\ \A s \in new \ DOMAIN rows : q[s].name = steps[s].id
<1> DEFINE p == Planning!ThePlan(h)
           live == Planning!Live(txs[h].seen).steps
           steps == live \o p.steps
           new == Planning!NewPlaces(h, p)
           q == Planted(h, p)
<1>1. Planning!Open(h) /\ p.steps \in Seq(Planning!Steps)
  BY PlanIs
<1>2. live \in Seq(Planning!Steps) /\ IsTable(rows) /\ IsTable(Planning!Done(h)) /\ DOMAIN Planning!Done(h) = DOMAIN rows
  BY <1>1, OpenFacts, LiveFacts, DoneIs DEF PlanTyped, Rewritten
<1>3. new = (Len(live) + 1)..(Len(live) + Len(p.steps))
  BY DEF Planning!NewPlaces
<1> HIDE DEF p, live, new
<1>4. new \subseteq DOMAIN steps /\ steps \in Seq(Planning!Steps) /\ new \subseteq Nat \ {0}
  BY <1>1, <1>2, <1>3
<1>5. \A s \in new : steps[s] \in Planning!Steps
  BY <1>4
<1>6. /\ q = [s \in DOMAIN rows \cup new |-> IF s \in DOMAIN rows THEN Planning!Done(h)[s] ELSE Planning!FirstRow(steps[s])]
  BY DEF Planted, p, live, new
<1> HIDE DEF steps, q
<1>7. \A s \in new : Planning!FirstRow(steps[s]) \in PlanRow /\ Planning!FirstRow(steps[s]).name = steps[s].id
  BY <1>5, PlanRowIs
<1>8. \A s \in DOMAIN rows : Planning!Done(h)[s] \in PlanRow
  BY <1>2 DEF IsTable
<1>9. IsTable(q)
  BY <1>2, <1>4, <1>6, <1>7, <1>8 DEF IsTable
<1> QED BY <1>4, <1>6, <1>7, <1>9 DEF p, live, steps, new, q

LEMMA GrowTypes ==
    ASSUME Planning!AllValid, PlanTyped, NEW h \in Handlers, Planning!Grow(h)
    PROVE  PlanTyped'
<1> DEFINE p == Planning!ThePlan(h)
           q == Planted(h, p)
           steps == Planning!Live(txs[h].seen).steps \o p.steps
<1>1. Planning!Adds(h) /\ Planning!Sound(h, p) /\ Planning!Close(h) /\ column' = txs[h].seen \o Planning!Grown(h, p)
  BY DEF Planning!Grow, Planning!Acceptable
<1>2. rows' = Planning!Raise(q, steps)
  BY DEF Planning!Grow, Planted
<1>3. Planning!Open(h) /\ IsColumn(column') /\ column'[1] = column[1]
  BY <1>1, PlanIs, GrownIs
<1>4. IsTable(q) /\ DOMAIN rows \subseteq DOMAIN q /\ \A s \in DOMAIN rows : q[s] = Planning!Done(h)[s]
  BY <1>1, PlantedIs
<1>5. Submitted(Planning!Done(h)) /\ Spared(h, Planning!Done(h)) /\ DOMAIN Planning!Done(h) = DOMAIN rows
  BY <1>3, DoneIs, OwnSeq, RewrittenSpares DEF Rewritten
<1> HIDE DEF p, q, steps
<1>6. Submitted(q) /\ Spared(h, q)
  BY <1>4, <1>5 DEF Submitted, Spared
<1>7. IsTable(rows') /\ Submitted(rows') /\ Spared(h, rows')
  BY <1>2, <1>4, <1>6, RaiseIs, SparedOn
<1> QED BY <1>1, <1>3, <1>7, CommitKeepsTypes

-----------------------------------------------------------------------------
(* Types: what an answer sets off.                                          *)

LEMMA AnswerCommitTypes ==
    ASSUME PlanTyped, NEW h \in Handlers, Planning!Open(h), NEW col, NEW steps, Planning!AnswerCommits(h, col, steps),
           IsColumn(col), col[1] = column[1]
    PROVE  PlanTyped'
<1>1. Planning!Close(h) /\ column' = col /\ rows' = Planning!Raise(Planning!Done(h), steps)
  BY DEF Planning!AnswerCommits
<1>2. Rewritten(rows, rows', {txs[h].seq})
  BY <1>1, DoneIs, RaisedOn DEF PlanTyped
<1> QED BY <1>1, <1>2, OwnSeq, RewriteKeepsTypes

LEMMA AdoptedIs ==
    ASSUME PlanTyped, NEW h \in Handlers, Planning!Open(h), Planning!Adopted(h) # <<>>,
           \A v \in Planning!Range(Planning!Adopted(h)) : Planning!Valid(v)
    PROVE  \E v \in Versions : /\ Planning!Adopted(h) = <<v>> /\ Planning!Valid(v) /\ v.steps = Planning!Live(txs[h].seen).steps
                               /\ Planning!Live(txs[h].seen).crit \subseteq v.crit /\ v.by[1] = "answer"
<1> DEFINE live == Planning!Live(txs[h].seen)
           crit == live.crit \cup txs[h].again[Planning!LastOf(Planning!Proposals(h))].proposed
           v == Planning!Version(Planning!ByAnswer(Planning!StepOf(h).id), {}, live.steps, crit)
<1>1. Planning!Adopted(h) = <<v>>
  BY DEF Planning!Adopted
<1>2. Planning!Valid(v)
  BY <1>1 DEF Planning!Range
<1>3. v.steps = live.steps /\ v.crit = crit /\ v.by[1] = "answer"
  BY DEF Planning!Version, Planning!ByAnswer
<1>4. live.steps \in Seq(Planning!Steps) /\ Planning!ByAnswer(Planning!StepOf(h).id) \in Bys
  BY OpenFacts, LiveFacts, StepNamed
<1>5. crit \subseteq Planning!Ids(live.steps)
  BY <1>2, <1>3 DEF Planning!Valid
<1> HIDE DEF crit, live
<1>6. v \in Versions
  BY <1>4, <1>5, MadeVersion
<1> QED BY <1>1, <1>2, <1>3, <1>6 DEF live, crit

LEMMA AdoptTypes ==
    ASSUME PlanTyped, NEW h \in Handlers, Planning!Adopt(h)
    PROVE  PlanTyped'
<1>1. Planning!Open(h) /\ txs[h].pc = "column" /\ IsColumn(column)
  BY DEF Planning!Adopt, Planning!Open, PlanTyped
<1>2. CASE Planning!Adopted(h) = <<>>
  BY <1>1, <1>2, AnswerCommitTypes DEF Planning!Adopt
<1>3. CASE Planning!Adopted(h) # <<>>
  <2> DEFINE c == txs[h].again \o Planning!Adopted(h)
  <2>1. Planning!AnswerCommits(h, c, Planning!Adopted(h)[1].steps) /\ \A v \in Planning!Range(Planning!Adopted(h)) : Planning!Valid(v)
    BY <1>3 DEF Planning!Adopt
  <2>2. PICK v \in Versions : Planning!Adopted(h) = <<v>> /\ Planning!Valid(v) /\ v.steps = Planning!Live(txs[h].seen).steps
    BY <1>1, <1>3, <2>1, AdoptedIs
  <2>3. /\ IsColumn(txs[h].again) /\ txs[h].again[1] = column[1]
        /\ IsColumn(txs[h].seen) /\ txs[h].seen[1] = column[1]
    BY <1>1, OpenFacts
  <2>4. Continues(txs[h].again[1].steps, v.steps)
    BY <2>2, <2>3, LiveFacts
  <2>5. IsColumn(c) /\ c[1] = column[1]
    BY <2>2, <2>3, <2>4, OneMore
  <2> HIDE DEF c
  <2> QED BY <1>1, <2>1, <2>5, AnswerCommitTypes
<1> QED BY <1>2, <1>3

LEMMA JustNoTypes ==
    ASSUME PlanTyped, NEW h \in Handlers, Planning!JustNo(h)
    PROVE  PlanTyped'
<1>1. Planning!Open(h) /\ Planning!AnswerCommits(h, column, Planning!Live(column).steps) /\ IsColumn(column)
  BY DEF Planning!JustNo, Planning!Open, PlanTyped
<1> QED BY <1>1, AnswerCommitTypes

\* A plan that is taken back stands behind the contract it added to.
LEMMA BuiltIs ==
    ASSUME PlanTyped, NEW h \in Handlers, Planning!Open(h), txs[h].pc = "column", Planning!Built(h) # {}
    PROVE  LET at == Planning!LastOf(Planning!Built(h))
               again == txs[h].again IN
           /\ at \in DOMAIN again /\ at - 1 \in DOMAIN again /\ again[at].by = Planning!ByStep(Planning!StepOf(h).adopts)
           /\ again[at - 1] \in Versions /\ again[at - 1].steps \in Seq(Planning!Steps) /\ Planning!Valid(again[at - 1])
           /\ Continues(column[1].steps, again[at - 1].steps)
<1> DEFINE at == Planning!LastOf(Planning!Built(h))
           again == txs[h].again
<1>1. IsColumn(again) /\ again[1] = column[1]
  BY OpenFacts
<1>2. DOMAIN again = 1..Len(again) /\ Len(again) \in Nat /\ again[1].by = Planning!ByRequester
  BY <1>1, ColumnVersions DEF IsColumn
<1>3. Planning!Built(h) \subseteq 1..Len(again)
  BY <1>2 DEF Planning!Built
<1>4. at \in Planning!Built(h)
  BY <1>2, <1>3, LastIsMember
<1>5. again[at].by = Planning!ByStep(Planning!StepOf(h).adopts) /\ at \in DOMAIN again
  BY <1>4 DEF Planning!Built
<1>6. at # 1
  BY <1>2, <1>5 DEF Planning!ByStep, Planning!ByRequester
<1> HIDE DEF at, again
<1>7. at - 1 \in DOMAIN again
  BY <1>2, <1>5, <1>6
<1>8. again[at - 1] \in Versions /\ Planning!Valid(again[at - 1]) /\ Continues(again[1].steps, again[at - 1].steps)
  BY <1>1, <1>7, ColumnVersions
<1>9. again[at - 1].steps \in Seq(Planning!Steps)
  BY <1>8, VersionFields
<1> QED BY <1>1, <1>5, <1>7, <1>8, <1>9 DEF at, again

LEMMA TakenBackIs ==
    ASSUME PlanTyped, NEW h \in Handlers, Planning!Open(h), txs[h].pc = "column", Planning!Built(h) # {}
    PROVE  /\ IsColumn(Planning!TakenBack(h)) /\ Planning!TakenBack(h)[1] = column[1]
           /\ Planning!Live(Planning!TakenBack(h)).steps = txs[h].again[Planning!LastOf(Planning!Built(h)) - 1].steps
           /\ Planning!Live(Planning!TakenBack(h)).by[1] = "answer" /\ Len(Planning!TakenBack(h)) = Len(txs[h].again) + 1
<1> DEFINE before == txs[h].again[Planning!LastOf(Planning!Built(h)) - 1]
           again == txs[h].again
           v == Planning!Version(Planning!ByAnswer(Planning!StepOf(h).id), {}, before.steps, before.crit)
<1>1. IsColumn(again) /\ again[1] = column[1]
  BY OpenFacts
<1>2. /\ before.steps \in Seq(Planning!Steps) /\ Planning!Valid(before)
      /\ Continues(column[1].steps, before.steps)
  BY BuiltIs
<1>3. Planning!TakenBack(h) = Append(again, v)
  BY DEF Planning!TakenBack
<1>4. v.steps = before.steps /\ v.crit = before.crit /\ v.by[1] = "answer"
  BY DEF Planning!Version, Planning!ByAnswer
<1>5. Planning!Valid(v)
  BY <1>2, <1>4, ValidOf
<1>6. before.crit \subseteq Planning!Ids(before.steps) /\ Planning!ByAnswer(Planning!StepOf(h).id) \in Bys
  BY <1>2, StepNamed DEF Planning!Valid
<1> HIDE DEF before, again
<1>7. v \in Versions
  BY <1>2, <1>6, MadeVersion
<1>8. Continues(again[1].steps, v.steps)
  BY <1>1, <1>2, <1>4
<1> HIDE DEF v
<1>9. /\ IsColumn(again \o <<v>>) /\ (again \o <<v>>)[1] = again[1] /\ Planning!Live(again \o <<v>>) = v
      /\ Len(again \o <<v>>) = Len(again) + 1 /\ Append(again, v) = again \o <<v>>
  BY <1>1, <1>5, <1>7, <1>8, OneMore
<1> QED BY <1>1, <1>3, <1>4, <1>9 DEF before, again

\* The steps that were submitted are never taken back.
LEMMA LeftIs ==
    ASSUME PlanTyped, NEW h \in Handlers, Planning!Open(h), txs[h].pc = "column"
    PROVE  /\ Planning!Left(h) \subseteq DOMAIN rows
           /\ \A s \in DOMAIN rows : rows[s].state # "PENDING" => s \in Planning!Left(h)
           /\ 1..Len(column[1].steps) \subseteq Planning!Left(h)
<1>1. Planning!Left(h) \subseteq DOMAIN rows /\ \A s \in DOMAIN rows : rows[s].state # "PENDING" => s \in Planning!Left(h)
  BY DEF Planning!Left, Planning!Remaining
<1>2. ASSUME NEW i \in 1..Len(column[1].steps)
      PROVE  i \in Planning!Left(h)
  <2>1. i \in DOMAIN rows /\ rows[i].name = column[1].steps[i].id
    BY DEF PlanTyped, Submitted
  <2>2. CASE Planning!Built(h) = {}
    BY <2>1, <2>2 DEF Planning!Left
  <2>3. CASE Planning!Built(h) # {}
    <3> DEFINE before == txs[h].again[Planning!LastOf(Planning!Built(h)) - 1].steps
    <3>1. Continues(column[1].steps, before) /\ before \in Seq(Planning!Steps) /\ Len(column[1].steps) \in Nat
      BY <2>3, BuiltIs, LiveFacts DEF PlanTyped
    <3>2. i \in DOMAIN before /\ before[i] = column[1].steps[i]
      BY <3>1 DEF Continues
    <3>3. rows[i].name \in Planning!Ids(before)
      BY <2>1, <3>2 DEF Planning!Ids
    <3>4. rows[i].name \notin Planning!Retired(h)
      BY <3>3 DEF Planning!Retired
    <3> QED BY <2>1, <2>3, <3>4 DEF Planning!Left, Planning!Remaining
  <2> QED BY <2>2, <2>3
<1> QED BY <1>1, <1>2

LEMMA LeftRows ==
    ASSUME PlanTyped, NEW h \in Handlers, Planning!Open(h), txs[h].pc = "column", NEW r, IsTable(r), DOMAIN r = DOMAIN rows,
           Submitted(r), Spared(h, r)
    PROVE  LET q == [s \in Planning!Left(h) |-> r[s]] IN IsTable(q) /\ Submitted(q) /\ Spared(h, q)
<1> DEFINE q == [s \in Planning!Left(h) |-> r[s]]
<1>1. /\ Planning!Left(h) \subseteq DOMAIN rows /\ \A s \in DOMAIN rows : rows[s].state # "PENDING" => s \in Planning!Left(h)
      /\ 1..Len(column[1].steps) \subseteq Planning!Left(h)
  BY LeftIs
<1>2. IsTable(q) /\ Submitted(q)
  BY <1>1 DEF IsTable, Submitted
<1>3. ASSUME NEW k \in Handlers \ {h}, Planning!Open(k)
      PROVE  txs[k].seq \in DOMAIN q /\ q[txs[k].seq].state = rows[txs[k].seq].state
  <2>1. txs[k].seq \in DOMAIN rows /\ rows[txs[k].seq].state # "PENDING" /\ r[txs[k].seq].state = rows[txs[k].seq].state
    BY <1>3, OpenFacts DEF Spared
  <2> QED BY <1>1, <2>1
<1> QED BY <1>2, <1>3 DEF Spared

LEMMA TakenBackColumn ==
    ASSUME PlanTyped, NEW h \in Handlers, Planning!Open(h), txs[h].pc = "column",
           column' = IF Planning!Built(h) = {} THEN column ELSE Planning!TakenBack(h)
    PROVE  IsColumn(column') /\ column'[1] = column[1]
BY TakenBackIs DEF PlanTyped

LEMMA RetireTypes ==
    ASSUME PlanTyped, NEW h \in Handlers, Planning!Retire(h)
    PROVE  PlanTyped'
<1> DEFINE range == Planning!Planner(h)..txs[h].seq
           a == rows[Planning!Planner(h)].attempt + 1
           q == [s \in Planning!Left(h) |-> rows[s]]
<1>1. /\ Planning!Open(h) /\ txs[h].pc = "column" /\ Planning!Close(h) /\ Planning!Planner(h) \in Planning!Left(h) /\ range \cap Planning!Locked(h) = {}
      /\ column' = IF Planning!Built(h) = {} THEN column ELSE Planning!TakenBack(h)
      /\ rows' = Planning!Again(q, range \cap Planning!Left(h), a)
  BY DEF Planning!Retire, Planning!Rejects, Planning!Open
<1> HIDE DEF range
<1>2. IsTable(rows) /\ Submitted(rows) /\ Spared(h, rows)
  BY OpenFacts DEF PlanTyped, Spared
<1>3. IsTable(q) /\ Submitted(q) /\ Spared(h, q)
  BY <1>1, <1>2, LeftRows
<1>4. a \in Nat
  BY <1>1, <1>2, LeftIs DEF IsTable, PlanRow
<1> HIDE DEF q, a
<1>5. Rewritten(q, rows', range \cap Planning!Left(h)) /\ (range \cap Planning!Left(h)) \cap Planning!Locked(h) = {}
  BY <1>1, <1>3, <1>4, PlanAgainIs
<1>6. IsTable(rows') /\ Submitted(rows') /\ Spared(h, rows')
  BY <1>3, <1>5, SparedOn
<1> QED BY <1>1, <1>6, TakenBackColumn, CommitKeepsTypes

LEMMA TurnTypes ==
    ASSUME PlanTyped, NEW h \in Handlers, Planning!Turn(h)
    PROVE  PlanTyped'
<1> DEFINE r == Planning!Done(h)
           q == [s \in Planning!Left(h) |-> r[s]]
<1>1. /\ Planning!Open(h) /\ txs[h].pc = "column" /\ Planning!Close(h)
      /\ column' = IF Planning!Built(h) = {} THEN column ELSE Planning!TakenBack(h)
      /\ rows' = Planning!Raise(q, Planning!Live(column').steps)
  BY DEF Planning!Turn, Planning!Rejects, Planning!Open
<1>2. IsTable(r) /\ DOMAIN r = DOMAIN rows /\ Submitted(r) /\ Spared(h, r)
  BY <1>1, DoneIs, OwnSeq, RewrittenSpares DEF Rewritten
<1> HIDE DEF r
<1>3. IsTable(q) /\ Submitted(q) /\ Spared(h, q)
  BY <1>1, <1>2, LeftRows
<1> HIDE DEF q
<1>4. IsTable(rows') /\ Submitted(rows') /\ Spared(h, rows')
  BY <1>1, <1>3, RaiseIs, SparedOn
<1> QED BY <1>1, <1>4, TakenBackColumn, CommitKeepsTypes

\* A Run begins with the rows of its contract.
LEMMA BeginTypes ==
    ASSUME NEW steps \in Seq(Planning!Steps), NEW crit, Planning!Valid(Planning!Version(Planning!ByRequester, {}, steps, crit)),
           column = <<Planning!Version(Planning!ByRequester, {}, steps, crit)>>,
           IsTable(rows), DOMAIN rows = DOMAIN steps, \A i \in DOMAIN steps : rows[i].name = steps[i].id,
           txs = [h \in Handlers |-> Planning!Closed]
    PROVE  PlanTyped
<1> DEFINE v == Planning!Version(Planning!ByRequester, {}, steps, crit)
<1>1. v.steps = steps /\ v.crit = crit /\ v.by = Planning!ByRequester
  BY DEF Planning!Version
<1>2. crit \subseteq Planning!Ids(steps)
  BY <1>1 DEF Planning!Valid
<1>3. v \in Versions
  BY <1>2, MadeVersion DEF Planning!ByRequester, Bys, PlanNames
<1>4. column = <<v>> /\ Planning!Valid(v)
  OBVIOUS
<1> HIDE DEF v
<1>5. Continues(v.steps, v.steps)
  BY <1>1 DEF Continues
<1>6. IsColumn(column) /\ column[1] = v
  BY <1>1, <1>3, <1>4, <1>5 DEF IsColumn
<1>7. Submitted(rows)
  BY <1>1, <1>6 DEF Submitted
<1>8. txs \in [Handlers -> PlanTx] /\ \A h \in Handlers : ~Planning!Open(h) /\ txs[h].seq = 0
  BY PlanClosedIs DEF Planning!Open
<1> QED BY <1>6, <1>7, <1>8 DEF PlanTyped

LEMMA InitRows ==
    ASSUME NEW steps \in Seq(Planning!Steps)
    PROVE  LET r == Planning!Raise([i \in DOMAIN steps |-> Planning!FirstRow(steps[i])], steps) IN
           IsTable(r) /\ DOMAIN r = DOMAIN steps /\ \A i \in DOMAIN steps : r[i].name = steps[i].id
<1> DEFINE q == [i \in DOMAIN steps |-> Planning!FirstRow(steps[i])]
<1>1. \A i \in DOMAIN steps : Planning!FirstRow(steps[i]) \in PlanRow /\ Planning!FirstRow(steps[i]).name = steps[i].id
  BY PlanRowIs
<1>2. IsTable(q) /\ DOMAIN q = DOMAIN steps /\ \A i \in DOMAIN steps : q[i].name = steps[i].id
  BY <1>1 DEF IsTable
<1> HIDE DEF q
<1> QED BY <1>2, RaiseIs DEF Rewritten, q

LEMMA InitTypes == Planning!AllValid /\ Planning!Init => PlanTyped
<1> SUFFICES ASSUME Planning!AllValid, Planning!Init PROVE PlanTyped
  OBVIOUS
<1>1. PICK c \in PlanContracts :
        /\ column = <<Planning!Version(Planning!ByRequester, {}, c.steps, c.crit)>>
        /\ rows = Planning!Raise([i \in DOMAIN c.steps |-> Planning!FirstRow(c.steps[i])], c.steps)
  BY DEF Planning!Init
<1>2. c.steps \in Seq(Planning!Steps) /\ Planning!Valid(Planning!Version(Planning!ByRequester, {}, c.steps, c.crit)) /\ txs = [h \in Handlers |-> Planning!Closed]
  BY DEF Planning!AllValid, Planning!Init
<1>3. IsTable(rows) /\ DOMAIN rows = DOMAIN c.steps /\ \A i \in DOMAIN c.steps : rows[i].name = c.steps[i].id
  BY <1>1, <1>2, InitRows
<1> QED BY <1>1, <1>2, <1>3, BeginTypes

LEMMA NextTypes ==
    ASSUME Planning!AllValid, PlanTyped, Planning!Next
    PROVE  PlanTyped'
<1>1. CASE \E s \in DOMAIN rows : Planning!Claim(s)
  BY <1>1, ClaimTypes
<1>2. CASE \E h \in Handlers, s \in DOMAIN rows : Planning!Report(h, s) \/ Planning!Answer(h, s)
  BY <1>2, ReportTypes, AnswerTypes
<1>3. ASSUME NEW h \in Handlers, Planning!Transact(h)
      PROVE  PlanTyped'
  BY <1>3, GoBackTypes, FinishTypes, RefuseTypes, AddNothingTypes, GrowTypes, ConflictTypes, ReadColumnTypes,
     AdoptTypes, JustNoTypes, RetireTypes, TurnTypes DEF Planning!Transact
<1> QED BY <1>1, <1>2, <1>3 DEF Planning!Next

LEMMA TypesSuffice == PlanTyped => Planning!TypeOK
<1> SUFFICES ASSUME PlanTyped PROVE Planning!TypeOK
  OBVIOUS
<1>1. /\ Len(column) >= 1 /\ column \in Seq(Versions) /\ column[1].by = Planning!ByRequester
      /\ \A i \in DOMAIN column : Planning!Valid(column[i])
  BY DEF PlanTyped, IsColumn
<1>2. DOMAIN column[1].steps \subseteq DOMAIN rows
  <2>1. column[1].steps \in Seq(Planning!Steps)
    BY LiveFacts DEF PlanTyped
  <2> QED BY <2>1 DEF PlanTyped, Submitted
<1>3. \A s \in DOMAIN rows : rows[s].state \in Planning!StepStates /\ rows[s].attempt \in Nat
  BY DEF PlanTyped, IsTable, PlanRow
<1>4. \A h \in Handlers : txs[h].pc \in {"idle", "report", "answer", "column"}
  BY DEF PlanTyped, PlanTx
<1>5. \A h \in Handlers : Planning!Open(h) => txs[h].seq \in DOMAIN rows /\ txs[h].seq \notin Planning!Locked(h)
  BY OpenFacts, OwnSeq
<1> QED BY <1>1, <1>2, <1>3, <1>4, <1>5 DEF Planning!TypeOK

LEMMA UnchangedTypes == PlanTyped /\ UNCHANGED Planning!vars => PlanTyped'
<1> SUFFICES ASSUME PlanTyped, UNCHANGED Planning!vars PROVE PlanTyped'
  OBVIOUS
<1>1. UNCHANGED <<column, rows, txs>>
  BY DEF Planning!vars
<1>2. \A h \in Handlers : (Planning!Open(h)' <=> Planning!Open(h)) /\ (TxSound(txs[h], rows)' <=> TxSound(txs[h], rows))
  BY <1>1 DEF Planning!Open, TxSound, OfRun
<1> QED BY <1>1, <1>2 DEF PlanTyped, Submitted

-----------------------------------------------------------------------------
(* The rows follow the contract.                                            *)

Follows(r, steps) == \A i \in DOMAIN steps : i \in DOMAIN r /\ r[i].name = steps[i].id
Stand(r, steps) == \A s \in DOMAIN r : r[s].state = "PENDING" => r[s].name \in Planning!Ids(steps)

\* As long as transactions follow each other, one is open at most, and has read
\* the column as it is.
Current(h) == txs[h].seen = column /\ (txs[h].pc = "column" => txs[h].again = column)

PlanFollow ==
    /\ ~overlaps => \A h, k \in Handlers : Planning!Open(h) => Current(h) /\ (Planning!Open(k) => h = k)
    /\ ~overlaps /\ "revived" \notin crossed => Follows(rows, Planning!Live(column).steps)
    /\ ~overlaps /\ crossed = {} => Stand(rows, Planning!Live(column).steps)

LEMMA FollowsOn ==
    ASSUME NEW r, NEW q, NEW S, Rewritten(r, q, S), NEW steps, Follows(r, steps)
    PROVE  Follows(q, steps)
BY DEF Follows, Rewritten

LEMMA StandOn ==
    ASSUME NEW r, NEW q, NEW S, Rewritten(r, q, S), NEW steps, Stand(r, steps),
           \A s \in S \cap DOMAIN r : q[s].state = "PENDING" => q[s].name \in Planning!Ids(steps)
    PROVE  Stand(q, steps)
BY DEF Stand, Rewritten

LEMMA DoneFollows ==
    ASSUME PlanTyped, NEW h \in Handlers, Planning!Open(h), NEW steps
    PROVE  /\ Follows(rows, steps) => Follows(Planning!Done(h), steps)
           /\ Stand(rows, steps) => Stand(Planning!Done(h), steps)
<1>1. txs[h].seq \in DOMAIN rows /\ IsTable(rows) /\ "DONE" \in Planning!StepStates
  BY OpenFacts DEF PlanTyped, Planning!StepStates
<1>2. Rewritten(rows, Planning!Done(h), {txs[h].seq}) /\ Planning!Done(h)[txs[h].seq].state = "DONE"
  BY <1>1, SetIs DEF Planning!Done
<1> QED BY <1>2, FollowsOn, StandOn

LEMMA CommitFollows ==
    ASSUME PlanTyped, PlanFollow, NEW h \in Handlers, Planning!Open(h), Planning!Close(h), overlaps' = overlaps,
           ~overlaps /\ "revived" \notin crossed' => Follows(rows', Planning!Live(column').steps),
           ~overlaps /\ crossed' = {} => Stand(rows', Planning!Live(column').steps)
    PROVE  PlanFollow'
<1>1. txs'[h] = Planning!Closed /\ \A k \in Handlers \ {h} : txs'[k] = txs[k]
  BY DEF PlanTyped, Planning!Close
<1>2. ASSUME ~overlaps', NEW k \in Handlers
      PROVE  ~Planning!Open(k)'
  <2>1. CASE k = h
    BY <1>1, <2>1, PlanClosedIs DEF Planning!Open
  <2>2. CASE k # h
    <3>1. ~Planning!Open(k)
      BY <1>2, <2>2 DEF PlanFollow
    <3> QED BY <1>1, <2>2, <3>1 DEF Planning!Open
  <2> QED BY <2>1, <2>2
<1>3. ~overlaps' /\ "revived" \notin crossed' => Follows(rows, Planning!Live(column).steps)'
  BY DEF Follows, Planning!Live
<1>4. ~overlaps' /\ crossed' = {} => Stand(rows, Planning!Live(column).steps)'
  BY DEF Stand, Planning!Live
<1> QED BY <1>2, <1>3, <1>4 DEF PlanFollow

\* Where the steps of the contract in force stay what they are.
LEMMA SameStepsFollow ==
    ASSUME PlanTyped, PlanFollow, NEW h \in Handlers, Planning!Open(h), Planning!Close(h), UNCHANGED Planning!history,
           ~overlaps => Planning!Live(column').steps = Planning!Live(column).steps,
           NEW r, Rewritten(r, rows', {}), r = rows \/ r = Planning!Done(h)
    PROVE  PlanFollow'
<1>1. overlaps' = overlaps /\ crossed' = crossed
  BY DEF Planning!history
<1>2. ~overlaps /\ "revived" \notin crossed => Follows(r, Planning!Live(column).steps)
  BY DoneFollows DEF PlanFollow
<1>3. ~overlaps /\ crossed = {} => Stand(r, Planning!Live(column).steps)
  BY DoneFollows DEF PlanFollow
<1>4. ~overlaps /\ "revived" \notin crossed' => Follows(rows', Planning!Live(column').steps)
  BY <1>1, <1>2, FollowsOn
<1>5. ~overlaps /\ crossed' = {} => Stand(rows', Planning!Live(column').steps)
  BY <1>1, <1>3, StandOn
<1> QED BY <1>1, <1>4, <1>5, CommitFollows

LEMMA ClaimFollows ==
    ASSUME PlanTyped, PlanFollow, NEW s \in DOMAIN rows, Planning!Claim(s)
    PROVE  PlanFollow'
<1>1. IsTable(rows) /\ "CLAIMED" \in Planning!StepStates /\ UNCHANGED <<column, txs, overlaps, crossed>>
  BY DEF PlanTyped, Planning!StepStates, Planning!Claim, Planning!history
<1>2. Rewritten(rows, rows', {s}) /\ rows'[s].state = "CLAIMED"
  BY <1>1, SetIs DEF Planning!Claim
<1>3. ~overlaps /\ "revived" \notin crossed => Follows(rows', Planning!Live(column).steps)
  BY <1>2, FollowsOn DEF PlanFollow
<1>4. ~overlaps /\ crossed = {} => Stand(rows', Planning!Live(column).steps)
  BY <1>2, StandOn DEF PlanFollow
<1> QED BY <1>1, <1>3, <1>4 DEF PlanFollow, Current, Planning!Open, Follows, Stand, Planning!Live

LEMMA BeginFollows ==
    ASSUME PlanTyped, PlanFollow, NEW h \in Handlers, NEW pc \in {"report", "answer"}, NEW s, NEW plan, NEW yes,
           Planning!Begin(h, pc, s, plan, yes), Planning!Overlaps, UNCHANGED <<column, rows, crossed>>
    PROVE  PlanFollow'
<1> DEFINE t == [pc |-> pc, seq |-> s, seen |-> column, again |-> <<>>, plan |-> plan, yes |-> yes]
<1>1. txs'[h] = t /\ \A k \in Handlers \ {h} : txs'[k] = txs[k]
  BY DEF PlanTyped, Planning!Begin
<1>2. t.seen = column /\ t.pc # "column"
  OBVIOUS
<1> HIDE DEF t
<1>3. ASSUME ~overlaps'
      PROVE  ~overlaps /\ \A k \in Handlers : ~Planning!Open(k)
  BY <1>3 DEF Planning!Overlaps
<1>4. ~overlaps' => \A k \in Handlers : Planning!Open(k)' => k = h /\ Current(k)'
  BY <1>1, <1>2, <1>3 DEF Planning!Open, Current
<1>5. ~overlaps' /\ "revived" \notin crossed' => Follows(rows, Planning!Live(column).steps)'
  BY <1>3 DEF PlanFollow, Follows, Planning!Live
<1>6. ~overlaps' /\ crossed' = {} => Stand(rows, Planning!Live(column).steps)'
  BY <1>3 DEF PlanFollow, Stand, Planning!Live
<1> QED BY <1>4, <1>5, <1>6 DEF PlanFollow

LEMMA ReportFollows ==
    ASSUME PlanTyped, PlanFollow, NEW h \in Handlers, NEW s \in DOMAIN rows, Planning!Report(h, s) \/ Planning!Answer(h, s)
    PROVE  PlanFollow'
<1>1. Planning!Overlaps /\ UNCHANGED <<column, rows, crossed>>
  BY DEF Planning!Report, Planning!Answer
<1>2. CASE Planning!Report(h, s)
  <2>1. PICK plan \in Planning!Brought(s), yes \in Planning!LoopMet(s) : Planning!Begin(h, "report", s, plan, yes)
    BY <1>2 DEF Planning!Report
  <2> QED BY <1>1, <2>1, BeginFollows
<1>3. CASE Planning!Answer(h, s)
  <2>1. PICK yes \in BOOLEAN : Planning!Begin(h, "answer", s, {}, yes)
    BY <1>3 DEF Planning!Answer
  <2> QED BY <1>1, <2>1, BeginFollows
<1> QED BY <1>2, <1>3

LEMMA ReadColumnFollows ==
    ASSUME PlanTyped, PlanFollow, NEW h \in Handlers, Planning!ReadColumn(h)
    PROVE  PlanFollow'
<1>1. /\ txs' = [txs EXCEPT ![h].pc = "column", ![h].again = column] /\ txs[h].pc = "answer"
      /\ UNCHANGED <<column, rows, overlaps, crossed>>
  BY DEF Planning!ReadColumn, Planning!history
<1>2. /\ txs'[h].seen = txs[h].seen /\ txs'[h].again = column
      /\ \A k \in Handlers \ {h} : txs'[k] = txs[k]
  BY <1>1 DEF PlanTyped, PlanTx
<1>3. Planning!Open(h) /\ \A k \in Handlers : Planning!Open(k)' => Planning!Open(k)
  BY <1>1, <1>2 DEF Planning!Open
<1>4. ~overlaps => \A k \in Handlers : Planning!Open(k)' => k = h /\ Current(k)'
  BY <1>1, <1>2, <1>3 DEF PlanFollow, Current
<1>5. Follows(rows, Planning!Live(column).steps)' <=> Follows(rows, Planning!Live(column).steps)
  BY <1>1 DEF Follows, Planning!Live
<1>6. Stand(rows, Planning!Live(column).steps)' <=> Stand(rows, Planning!Live(column).steps)
  BY <1>1 DEF Stand, Planning!Live
<1> QED BY <1>1, <1>4, <1>5, <1>6 DEF PlanFollow

LEMMA UnchangedSteps ==
    ASSUME column' = column
    PROVE  Planning!Live(column').steps = Planning!Live(column).steps
BY DEF Planning!Live

LEMMA FinishFollows ==
    ASSUME PlanTyped, PlanFollow, NEW h \in Handlers, Planning!Finish(h)
    PROVE  PlanFollow'
<1>1. /\ Planning!Open(h) /\ Planning!Close(h) /\ column' = column /\ UNCHANGED Planning!history
      /\ rows' = Planning!Raise(Planning!Done(h), Planning!Live(column).steps)
  BY DEF Planning!Finish, Planning!Open
<1>2. Rewritten(Planning!Done(h), rows', {})
  BY <1>1, DoneIs, RaiseIs
<1> QED BY <1>1, <1>2, UnchangedSteps, SameStepsFollow

LEMMA AddNothingFollows ==
    ASSUME PlanTyped, PlanFollow, NEW h \in Handlers, Planning!AddNothing(h)
    PROVE  PlanFollow'
<1> DEFINE q == Planning!SkipAdopters(Planning!Done(h), Planning!Live(txs[h].seen).steps, Planning!StepOf(h).id)
<1>1. Planning!Open(h) /\ Planning!Close(h) /\ column' = column /\ UNCHANGED Planning!history /\ rows' = Planning!Raise(q, Planning!Live(column).steps)
  BY DEF Planning!AddNothing, Planning!Adds, Planning!Expands, Planning!Open
<1>2. IsTable(Planning!Done(h)) /\ Rewritten(Planning!Done(h), q, {})
  BY <1>1, DoneIs, SkipAdoptersIs
<1> HIDE DEF q
<1>3. Rewritten(Planning!Done(h), rows', {})
  BY <1>1, <1>2, RaisedOn
<1> QED BY <1>1, <1>3, UnchangedSteps, SameStepsFollow

LEMMA ConflictFollows ==
    ASSUME PlanTyped, PlanFollow, NEW h \in Handlers, Planning!Conflict(h) \/ Planning!Undo(h)
    PROVE  PlanFollow'
<1>1. Planning!Open(h) /\ Planning!Close(h) /\ column' = column /\ rows' = rows /\ UNCHANGED Planning!history
  BY DEF Planning!Conflict, Planning!Undo, Planning!Adds, Planning!Expands, Planning!Open
<1>2. Rewritten(rows, rows', {})
  BY <1>1 DEF PlanTyped, Rewritten
<1> QED BY <1>1, <1>2, UnchangedSteps, SameStepsFollow

LEMMA RefuseFollows ==
    ASSUME PlanTyped, PlanFollow, NEW h \in Handlers, Planning!Refuse(h)
    PROVE  PlanFollow'
<1>1. /\ Planning!Open(h) /\ Planning!Close(h) /\ column' = column /\ overlaps' = overlaps /\ crossed' = crossed
      /\ rows' = [rows EXCEPT ![txs[h].seq].state = "FAILED"]
  BY DEF Planning!Refuse, Planning!Adds, Planning!Expands, Planning!Open, Planning!history
<1>2. txs[h].seq \in DOMAIN rows /\ IsTable(rows) /\ "FAILED" \in Planning!StepStates
  BY <1>1, OpenFacts DEF PlanTyped, Planning!StepStates
<1>3. Rewritten(rows, rows', {txs[h].seq}) /\ rows'[txs[h].seq].state = "FAILED"
  BY <1>1, <1>2, SetIs
<1>4. ~overlaps /\ "revived" \notin crossed' => Follows(rows', Planning!Live(column').steps)
  BY <1>1, <1>3, UnchangedSteps, FollowsOn DEF PlanFollow
<1>5. ~overlaps /\ crossed' = {} => Stand(rows', Planning!Live(column').steps)
  <2> SUFFICES ASSUME ~overlaps, crossed' = {} PROVE Stand(rows', Planning!Live(column').steps)
    OBVIOUS
  <2>1. Stand(rows, Planning!Live(column).steps)
    BY <1>1 DEF PlanFollow
  <2>2. Stand(rows', Planning!Live(column).steps)
    BY <1>3, <2>1, StandOn
  <2> QED BY <1>1, <2>2, UnchangedSteps
<1> QED BY <1>1, <1>4, <1>5, CommitFollows

\* A loop begins steps of the contract again.
LEMMA GoBackFollows ==
    ASSUME PlanTyped, PlanFollow, NEW h \in Handlers, Planning!GoBack(h)
    PROVE  PlanFollow'
<1> DEFINE steps == Planning!Live(txs[h].seen).steps
           from == Planning!PlaceOf(steps, Planning!StepOf(h).back)
           range == (from..txs[h].seq) \cap DOMAIN rows
           a == rows[txs[h].seq].attempt + 1
<1>1. /\ Planning!Open(h) /\ Planning!Close(h) /\ column' = column /\ overlaps' = overlaps /\ crossed' = crossed
      /\ rows' = Planning!Again(rows, range, a) /\ Planning!StepOf(h).back # NoStep
  BY DEF Planning!GoBack, Planning!LoopsBack, Planning!Open, Planning!history
<1>2. txs[h].seq \in DOMAIN steps /\ from \in DOMAIN steps /\ DOMAIN steps = 1..Len(steps) /\ Len(steps) \in Nat
  BY <1>1, StepOfIs, OpenFacts, LiveFacts
<1>3. range \subseteq DOMAIN steps
  BY <1>2
<1>4. a \in Nat /\ IsTable(rows)
  BY <1>1, OpenFacts DEF PlanTyped, IsTable, PlanRow
<1> HIDE DEF range, a
<1>5. Rewritten(rows, rows', range)
  BY <1>1, <1>4, PlanAgainIs
<1>6. ~overlaps /\ "revived" \notin crossed' => Follows(rows', Planning!Live(column').steps)
  BY <1>1, <1>5, UnchangedSteps, FollowsOn DEF PlanFollow
<1>7. ASSUME ~overlaps, crossed' = {}
      PROVE  Stand(rows', Planning!Live(column').steps)
  <2>1. Follows(rows, Planning!Live(column).steps) /\ Stand(rows, Planning!Live(column).steps) /\ steps = Planning!Live(column).steps
    BY <1>1, <1>7 DEF PlanFollow, Current
  <2>2. \A s \in range \cap DOMAIN rows : rows'[s].name \in Planning!Ids(Planning!Live(column).steps)
    BY <1>3, <1>5, <2>1 DEF Follows, Rewritten, Planning!Ids
  <2>3. Stand(rows', Planning!Live(column).steps)
    BY <1>5, <2>1, <2>2, StandOn
  <2> QED BY <1>1, <2>3, UnchangedSteps
<1> QED BY <1>1, <1>6, <1>7, CommitFollows

LEMMA AnswerCommitFollows ==
    ASSUME PlanTyped, PlanFollow, NEW h \in Handlers, Planning!Open(h), NEW col, NEW steps, Planning!AnswerCommits(h, col, steps),
           ~overlaps => Planning!Live(col).steps = Planning!Live(column).steps
    PROVE  PlanFollow'
<1>1. Planning!Close(h) /\ column' = col /\ rows' = Planning!Raise(Planning!Done(h), steps) /\ UNCHANGED Planning!history
  BY DEF Planning!AnswerCommits
<1>2. Rewritten(Planning!Done(h), rows', {})
  BY <1>1, DoneIs, RaiseIs
<1>3. ~overlaps => Planning!Live(column').steps = Planning!Live(column).steps
  BY <1>1
<1> QED BY <1>1, <1>2, <1>3, SameStepsFollow

LEMMA JustNoFollows ==
    ASSUME PlanTyped, PlanFollow, NEW h \in Handlers, Planning!JustNo(h)
    PROVE  PlanFollow'
BY AnswerCommitFollows DEF Planning!JustNo, Planning!Open

\* The steps in force stay those that were read.
LEMMA AdoptFollows ==
    ASSUME PlanTyped, PlanFollow, NEW h \in Handlers, Planning!Adopt(h)
    PROVE  PlanFollow'
<1>1. Planning!Open(h) /\ txs[h].pc = "column"
  BY DEF Planning!Adopt, Planning!Open
<1>2. CASE Planning!Adopted(h) = <<>>
  BY <1>1, <1>2, AnswerCommitFollows DEF Planning!Adopt
<1>3. CASE Planning!Adopted(h) # <<>>
  <2> DEFINE c == txs[h].again \o Planning!Adopted(h)
  <2>1. Planning!AnswerCommits(h, c, Planning!Adopted(h)[1].steps) /\ \A v \in Planning!Range(Planning!Adopted(h)) : Planning!Valid(v)
    BY <1>3 DEF Planning!Adopt
  <2>2. PICK v \in Versions : Planning!Adopted(h) = <<v>> /\ Planning!Valid(v) /\ v.steps = Planning!Live(txs[h].seen).steps
    BY <1>1, <1>3, <2>1, AdoptedIs
  <2>3. /\ IsColumn(txs[h].again) /\ txs[h].again[1] = column[1]
        /\ IsColumn(txs[h].seen) /\ txs[h].seen[1] = column[1]
    BY <1>1, OpenFacts
  <2>4. Continues(txs[h].again[1].steps, v.steps)
    BY <2>2, <2>3, LiveFacts
  <2>5. Planning!Live(c) = v
    BY <2>2, <2>3, <2>4, OneMore
  <2>6. ~overlaps => Planning!Live(c).steps = Planning!Live(column).steps
    BY <1>1, <2>2, <2>5 DEF PlanFollow, Current
  <2> HIDE DEF c
  <2> QED BY <1>1, <2>1, <2>6, AnswerCommitFollows
<1> QED BY <1>2, <1>3

\* The plan's steps are behind those of the contract that was read, its rows
\* behind theirs.
LEMMA GrowFollows ==
    ASSUME Planning!AllValid, PlanTyped, PlanFollow, NEW h \in Handlers, Planning!Grow(h)
    PROVE  PlanFollow'
<1> DEFINE p == Planning!ThePlan(h)
           q == Planted(h, p)
           live == Planning!Live(txs[h].seen).steps
           steps == live \o p.steps
           new == Planning!NewPlaces(h, p)
<1>1. /\ Planning!Adds(h) /\ Planning!Sound(h, p) /\ Planning!Close(h) /\ column' = txs[h].seen \o Planning!Grown(h, p)
      /\ overlaps' = overlaps /\ crossed' = crossed /\ new \cap DOMAIN rows = {}
  BY DEF Planning!Grow, Planning!Acceptable, Planning!history
<1>2. rows' = Planning!Raise(q, steps)
  BY DEF Planning!Grow, Planted
<1>3. Planning!Open(h) /\ Planning!Live(column').steps = steps /\ p.steps \in Seq(Planning!Steps)
  BY <1>1, PlanIs, GrownIs
<1>4. /\ IsTable(q) /\ DOMAIN q = DOMAIN rows \cup new /\ new \subseteq DOMAIN steps
      /\ \A s \in DOMAIN rows : q[s] = Planning!Done(h)[s]
      /\ \A s \in new : q[s].name = steps[s].id
  BY <1>1, PlantedIs
<1>5. live \in Seq(Planning!Steps) /\ DOMAIN Planning!Done(h) = DOMAIN rows
  BY <1>3, OpenFacts, LiveFacts, DoneIs DEF Rewritten
<1>6. new = (Len(live) + 1)..(Len(live) + Len(p.steps))
  BY DEF Planning!NewPlaces
<1> HIDE DEF p, q, live, new
<1>7. /\ \A i \in DOMAIN live : i \in DOMAIN steps /\ steps[i] = live[i]
      /\ \A i \in DOMAIN steps : i \in DOMAIN live \/ i \in new
  BY <1>3, <1>5, <1>6
<1> HIDE DEF steps
<1>8. Planning!Ids(live) \subseteq Planning!Ids(steps)
  BY <1>7 DEF Planning!Ids
<1>9. Rewritten(q, rows', {})
  BY <1>2, <1>4, RaiseIs
<1>10. ASSUME ~overlaps, "revived" \notin crossed'
       PROVE  Follows(rows', Planning!Live(column').steps)
  <2>1. Follows(Planning!Done(h), live)
    BY <1>1, <1>3, <1>10, DoneFollows DEF PlanFollow, Current, live
  <2>2. Follows(q, steps)
    BY <1>4, <1>5, <1>7, <2>1 DEF Follows
  <2> QED BY <1>3, <1>9, <2>2, FollowsOn
<1>11. ASSUME ~overlaps, crossed' = {}
       PROVE  Stand(rows', Planning!Live(column').steps)
  <2>1. Stand(Planning!Done(h), live)
    BY <1>1, <1>3, <1>11, DoneFollows DEF PlanFollow, Current, live
  <2>2. \A s \in new : q[s].name \in Planning!Ids(steps)
    BY <1>4 DEF Planning!Ids
  <2>3. Stand(q, steps)
    BY <1>4, <1>5, <1>8, <2>1, <2>2 DEF Stand
  <2> QED BY <1>3, <1>9, <2>3, StandOn
<1> QED BY <1>1, <1>3, <1>10, <1>11, CommitFollows

LEMMA PrefixIs ==
    ASSUME NEW a \in Seq(Planning!Steps), NEW b \in Seq(Planning!Steps), Planning!IsPrefix(a, b)
    PROVE  DOMAIN a \subseteq DOMAIN b /\ \A i \in DOMAIN a : a[i] = b[i]
<1>1. Len(a) <= Len(b) /\ SubSeq(a, 1, Len(a)) = SubSeq(b, 1, Len(a))
  BY DEF Planning!IsPrefix
<1>2. \A i \in 1..Len(a) : SubSeq(a, 1, Len(a))[i] = a[i] /\ SubSeq(b, 1, Len(a))[i] = b[i]
  BY <1>1
<1> QED BY <1>1, <1>2

\* Whose plan was the last to be taken back is followed by the rows that are
\* left: of the contract before it, and of nothing else.
LEMMA LeftFollows ==
    ASSUME PlanTyped, PlanFollow, NEW h \in Handlers, Planning!Open(h), txs[h].pc = "column", ~overlaps,
           column' = IF Planning!Built(h) = {} THEN column ELSE Planning!TakenBack(h),
           NEW r, DOMAIN r = DOMAIN rows,
           Planning!Built(h) # {} => "revived" \notin Planning!Crossing(h)
    PROVE  LET q == [s \in Planning!Left(h) |-> r[s]] IN
           /\ (\A s \in DOMAIN rows : r[s].name = rows[s].name) /\ Follows(r, Planning!Live(column).steps)
              => Follows(q, Planning!Live(column').steps)
           /\ Stand(rows, Planning!Live(column).steps) /\ (Planning!Built(h) # {} => "orphaned" \notin Planning!Crossing(h))
              => \A s \in Planning!Left(h) : rows[s].state = "PENDING" => rows[s].name \in Planning!Ids(Planning!Live(column').steps)
<1> DEFINE before == txs[h].again[Planning!LastOf(Planning!Built(h)) - 1].steps
           live == Planning!Live(column).steps
           q == [s \in Planning!Left(h) |-> r[s]]
<1>1. txs[h].seen = column /\ txs[h].again = column /\ IsColumn(column)
  BY DEF PlanFollow, Current, PlanTyped
<1>2. live \in Seq(Planning!Steps) /\ Planning!Left(h) \subseteq DOMAIN rows
  BY <1>1, LiveFacts, LeftIs
<1>3. CASE Planning!Built(h) = {}
  <2>1. column' = column /\ Planning!Left(h) = DOMAIN rows
    BY <1>3 DEF Planning!Left
  <2> QED BY <2>1 DEF Follows, Stand, Planning!Live
<1>4. CASE Planning!Built(h) # {}
  <2>1. Planning!Live(column').steps = before /\ before \in Seq(Planning!Steps)
    BY <1>4, TakenBackIs, BuiltIs
  <2>2. Planning!IsPrefix(before, live)
    BY <1>1, <1>4 DEF Planning!Crossing
  <2>3. "orphaned" \notin Planning!Crossing(h) => Planning!Ids(live) \subseteq Planning!Ids(before) \cup Planning!Retired(h)
    BY <1>1 DEF Planning!Crossing
  <2>4. \A s \in DOMAIN rows : s \in Planning!Left(h) <=> ~(rows[s].state = "PENDING" /\ rows[s].name \in Planning!Retired(h))
    BY <1>4 DEF Planning!Left, Planning!Remaining
  <2>5. Planning!Ids(before) \cap Planning!Retired(h) = {}
    BY DEF Planning!Retired
  <2> HIDE DEF before, live
  <2>6. DOMAIN before \subseteq DOMAIN live /\ \A i \in DOMAIN before : before[i] = live[i]
    BY <1>2, <2>1, <2>2, PrefixIs
  <2>7. ASSUME \A s \in DOMAIN rows : r[s].name = rows[s].name, Follows(r, live), NEW i \in DOMAIN before
        PROVE  i \in DOMAIN q /\ q[i].name = before[i].id
    <3>1. i \in DOMAIN rows /\ rows[i].name = before[i].id /\ r[i].name = before[i].id
      BY <2>6, <2>7 DEF Follows
    <3>2. rows[i].name \in Planning!Ids(before)
      BY <3>1 DEF Planning!Ids
    <3> QED BY <2>4, <2>5, <3>1, <3>2
  <2>8. ASSUME Stand(rows, live), "orphaned" \notin Planning!Crossing(h), NEW s \in Planning!Left(h), rows[s].state = "PENDING"
        PROVE  rows[s].name \in Planning!Ids(before)
    BY <1>2, <2>3, <2>4, <2>8 DEF Stand
  <2> QED BY <1>4, <2>1, <2>7, <2>8 DEF Follows, live
<1> QED BY <1>3, <1>4

\* A question that does not belong to the plan stands before it, and so does
\* all that begins again.
LEMMA RangeStays ==
    ASSUME PlanTyped, PlanFollow, NEW h \in Handlers, Planning!Open(h), txs[h].pc = "column", ~overlaps, Planning!Rejects(h),
           column' = IF Planning!Built(h) = {} THEN column ELSE Planning!TakenBack(h),
           Planning!Built(h) # {} => Planning!Crossing(h) = {} /\ Planning!Own(h) = {}
    PROVE  Planning!Planner(h)..txs[h].seq \subseteq DOMAIN Planning!Live(column').steps
<1> DEFINE live == Planning!Live(column).steps
           before == txs[h].again[Planning!LastOf(Planning!Built(h)) - 1].steps
           seq == txs[h].seq
<1>1. txs[h].seen = column /\ txs[h].again = column /\ IsColumn(column) /\ Planning!StepOf(h).adopts # NoStep
  BY DEF PlanFollow, Current, PlanTyped, Planning!Rejects
<1>2. /\ live \in Seq(Planning!Steps) /\ DOMAIN live = 1..Len(live) /\ Len(live) \in Nat
      /\ \A i, j \in DOMAIN live : live[i].id = live[j].id => i = j
  BY <1>1, LiveFacts DEF Planning!Valid
<1>3. seq \in DOMAIN live /\ Planning!StepOf(h) = live[seq] /\ Planning!StepOf(h).id \in Planning!Ids(live) /\ Planning!Planner(h) \in DOMAIN live
  BY <1>1, StepOfIs
<1>4. CASE Planning!Built(h) = {}
  BY <1>2, <1>3, <1>4, UnchangedSteps
<1>5. CASE Planning!Built(h) # {}
  <2>1. Planning!Live(column').steps = before /\ before \in Seq(Planning!Steps)
    BY <1>5, TakenBackIs, BuiltIs
  <2>2. Planning!IsPrefix(before, live)
    BY <1>1, <1>5 DEF Planning!Crossing
  <2>3. Planning!Ids(live) \subseteq Planning!Ids(before) \cup Planning!Retired(h) /\ Planning!StepOf(h).id \notin Planning!Retired(h)
    BY <1>1, <1>5 DEF Planning!Crossing, Planning!Own
  <2> HIDE DEF before, live, seq
  <2>4. DOMAIN before \subseteq DOMAIN live /\ \A i \in DOMAIN before : before[i] = live[i]
    BY <1>2, <2>1, <2>2, PrefixIs
  <2>5. PICK j \in DOMAIN before : before[j].id = Planning!StepOf(h).id
    BY <1>3, <2>3 DEF Planning!Ids
  <2>6. seq \in DOMAIN before
    BY <1>2, <1>3, <2>4, <2>5
  <2>7. DOMAIN before = 1..Len(before) /\ Len(before) \in Nat
    BY <2>1
  <2>8. Planning!Planner(h)..seq \subseteq DOMAIN before
    BY <1>2, <1>3, <2>6, <2>7
  <2> QED BY <2>1, <2>8 DEF seq
<1> QED BY <1>4, <1>5

LEMMA RetireFollows ==
    ASSUME PlanTyped, PlanFollow, NEW h \in Handlers, Planning!Retire(h)
    PROVE  PlanFollow'
<1> DEFINE range == Planning!Planner(h)..txs[h].seq
           a == rows[Planning!Planner(h)].attempt + 1
           q == [s \in Planning!Left(h) |-> rows[s]]
<1>1. /\ Planning!Open(h) /\ txs[h].pc = "column" /\ Planning!Close(h) /\ Planning!Rejects(h) /\ Planning!Planner(h) \in Planning!Left(h)
      /\ column' = IF Planning!Built(h) = {} THEN column ELSE Planning!TakenBack(h)
      /\ crossed' = IF Planning!Built(h) = {} THEN crossed ELSE crossed \cup Planning!Crossing(h) \cup Planning!Own(h)
      /\ rows' = Planning!Again(q, range \cap Planning!Left(h), a) /\ overlaps' = overlaps
  BY DEF Planning!Retire, Planning!Rejects, Planning!Open
<1>2. IsTable(rows) /\ Planning!Left(h) \subseteq DOMAIN rows
  BY <1>1, LeftIs DEF PlanTyped
<1>3. IsTable(q) /\ DOMAIN q = Planning!Left(h) /\ \A s \in Planning!Left(h) : q[s] = rows[s]
  BY <1>2 DEF IsTable
<1>4. a \in Nat
  BY <1>1, <1>2 DEF IsTable, PlanRow
<1> HIDE DEF a, range
<1>5. Rewritten(q, rows', range \cap Planning!Left(h))
  <2> HIDE DEF q
  <2> QED BY <1>1, <1>3, <1>4, PlanAgainIs
<1>6. ASSUME ~overlaps, "revived" \notin crossed'
      PROVE  Follows(q, Planning!Live(column').steps)
  <2>1. "revived" \notin crossed /\ (Planning!Built(h) # {} => "revived" \notin Planning!Crossing(h))
    BY <1>1, <1>6
  <2>2. Follows(rows, Planning!Live(column).steps)
    BY <1>6, <2>1 DEF PlanFollow
  <2> QED BY <1>1, <1>6, <2>1, <2>2, LeftFollows
<1>7. ASSUME ~overlaps, crossed' = {}
      PROVE  Stand(rows', Planning!Live(column').steps)
  <2>1. crossed = {} /\ (Planning!Built(h) # {} => Planning!Crossing(h) = {} /\ Planning!Own(h) = {})
    BY <1>1, <1>7
  <2>2. Stand(rows, Planning!Live(column).steps)
    BY <1>7, <2>1 DEF PlanFollow
  <2>3. \A s \in Planning!Left(h) : rows[s].state = "PENDING" => rows[s].name \in Planning!Ids(Planning!Live(column').steps)
    BY <1>1, <1>7, <2>1, <2>2, LeftFollows
  <2>4. range \subseteq DOMAIN Planning!Live(column').steps
    BY <1>1, <1>7, <2>1, RangeStays DEF range
  <2>5. Follows(q, Planning!Live(column').steps)
    BY <1>6, <1>7
  <2> HIDE DEF q
  <2>6. Stand(q, Planning!Live(column').steps)
    BY <1>3, <2>3 DEF Stand
  <2>7. \A s \in range \cap Planning!Left(h) : q[s].name \in Planning!Ids(Planning!Live(column').steps)
    BY <2>4, <2>5 DEF Follows, Planning!Ids
  <2>8. \A s \in (range \cap Planning!Left(h)) \cap DOMAIN q : rows'[s].name \in Planning!Ids(Planning!Live(column').steps)
    BY <1>5, <2>7 DEF Rewritten
  <2> QED BY <1>5, <2>6, <2>8, StandOn
<1>8. ~overlaps /\ "revived" \notin crossed' => Follows(rows', Planning!Live(column').steps)
  <2> HIDE DEF q
  <2> QED BY <1>5, <1>6, FollowsOn
<1> QED BY <1>1, <1>7, <1>8, CommitFollows

LEMMA TurnFollows ==
    ASSUME PlanTyped, PlanFollow, NEW h \in Handlers, Planning!Turn(h)
    PROVE  PlanFollow'
<1> DEFINE r == Planning!Done(h)
           q == [s \in Planning!Left(h) |-> r[s]]
<1>1. /\ Planning!Open(h) /\ txs[h].pc = "column" /\ Planning!Close(h)
      /\ column' = IF Planning!Built(h) = {} THEN column ELSE Planning!TakenBack(h)
      /\ crossed' = IF Planning!Built(h) = {} THEN crossed ELSE crossed \cup Planning!Crossing(h)
      /\ rows' = Planning!Raise(q, Planning!Live(column').steps) /\ overlaps' = overlaps
  BY DEF Planning!Turn, Planning!Rejects, Planning!Open
<1>2. IsTable(rows) /\ Planning!Left(h) \subseteq DOMAIN rows
  BY <1>1, LeftIs DEF PlanTyped
<1>3. txs[h].seq \in DOMAIN rows /\ "DONE" \in Planning!StepStates
  BY <1>1, OpenFacts DEF Planning!StepStates
<1>4. Rewritten(rows, r, {txs[h].seq}) /\ r[txs[h].seq].state = "DONE"
  BY <1>2, <1>3, SetIs DEF Planning!Done
<1>5. /\ IsTable(r) /\ DOMAIN r = DOMAIN rows
      /\ \A s \in DOMAIN rows : r[s].name = rows[s].name /\ (r[s].state = "PENDING" => rows[s].state = "PENDING")
  BY <1>4 DEF Rewritten
<1>6. Follows(rows, Planning!Live(column).steps) => Follows(r, Planning!Live(column).steps)
  BY <1>1, DoneFollows
<1> HIDE DEF r
<1>7. IsTable(q) /\ DOMAIN q = Planning!Left(h) /\ \A s \in Planning!Left(h) : q[s] = r[s]
  BY <1>2, <1>5 DEF IsTable
<1>8. Rewritten(q, rows', {})
  <2> HIDE DEF q
  <2> QED BY <1>1, <1>7, RaiseIs
<1>9. ASSUME ~overlaps, "revived" \notin crossed'
      PROVE  Follows(q, Planning!Live(column').steps)
  <2>1. "revived" \notin crossed /\ (Planning!Built(h) # {} => "revived" \notin Planning!Crossing(h))
    BY <1>1, <1>9
  <2>2. Follows(r, Planning!Live(column).steps)
    BY <1>6, <1>9, <2>1 DEF PlanFollow
  <2> QED BY <1>1, <1>5, <1>9, <2>1, <2>2, LeftFollows
<1>10. ASSUME ~overlaps, crossed' = {}
       PROVE  Stand(q, Planning!Live(column').steps)
  <2>1. crossed = {} /\ (Planning!Built(h) # {} => Planning!Crossing(h) = {})
    BY <1>1, <1>10
  <2>2. Stand(rows, Planning!Live(column).steps)
    BY <1>10, <2>1 DEF PlanFollow
  <2>3. \A s \in Planning!Left(h) : rows[s].state = "PENDING" => rows[s].name \in Planning!Ids(Planning!Live(column').steps)
    BY <1>1, <1>5, <1>10, <2>1, <2>2, LeftFollows
  <2> HIDE DEF q
  <2> QED BY <1>2, <1>5, <1>7, <2>3 DEF Stand
<1> HIDE DEF q
<1>11. ~overlaps /\ "revived" \notin crossed' => Follows(rows', Planning!Live(column').steps)
  BY <1>8, <1>9, FollowsOn
<1>12. ~overlaps /\ crossed' = {} => Stand(rows', Planning!Live(column').steps)
  BY <1>8, <1>10, StandOn
<1> QED BY <1>1, <1>11, <1>12, CommitFollows

LEMMA NextFollows ==
    ASSUME Planning!AllValid, PlanTyped, PlanFollow, Planning!Next
    PROVE  PlanFollow'
<1>1. CASE \E s \in DOMAIN rows : Planning!Claim(s)
  BY <1>1, ClaimFollows
<1>2. CASE \E h \in Handlers, s \in DOMAIN rows : Planning!Report(h, s) \/ Planning!Answer(h, s)
  BY <1>2, ReportFollows
<1>3. ASSUME NEW h \in Handlers, Planning!Transact(h)
      PROVE  PlanFollow'
  BY <1>3, GoBackFollows, FinishFollows, RefuseFollows, AddNothingFollows, GrowFollows, ConflictFollows,
     ReadColumnFollows, AdoptFollows, JustNoFollows, RetireFollows, TurnFollows DEF Planning!Transact
<1> QED BY <1>1, <1>2, <1>3 DEF Planning!Next

LEMMA UnchangedFollows == PlanFollow /\ UNCHANGED Planning!vars => PlanFollow'
BY DEF Planning!vars, PlanFollow, Planning!Open, Current, Follows, Stand, Planning!Live

LEMMA BeginFollow ==
    ASSUME NEW steps \in Seq(Planning!Steps), NEW crit,
           column = <<Planning!Version(Planning!ByRequester, {}, steps, crit)>>,
           DOMAIN rows = DOMAIN steps, \A i \in DOMAIN steps : rows[i].name = steps[i].id,
           txs = [h \in Handlers |-> Planning!Closed]
    PROVE  PlanFollow
<1>1. Planning!Live(column).steps = steps
  BY DEF Planning!Live, Planning!Last, Planning!Version
<1>2. Follows(rows, Planning!Live(column).steps) /\ Stand(rows, Planning!Live(column).steps)
  BY <1>1 DEF Follows, Stand, Planning!Ids
<1>3. \A h \in Handlers : ~Planning!Open(h)
  BY PlanClosedIs DEF Planning!Open
<1> QED BY <1>2, <1>3 DEF PlanFollow

LEMMA InitFollows == Planning!AllValid /\ Planning!Init => PlanFollow
<1> SUFFICES ASSUME Planning!AllValid, Planning!Init PROVE PlanFollow
  OBVIOUS
<1>1. PICK c \in PlanContracts :
        /\ column = <<Planning!Version(Planning!ByRequester, {}, c.steps, c.crit)>>
        /\ rows = Planning!Raise([i \in DOMAIN c.steps |-> Planning!FirstRow(c.steps[i])], c.steps)
  BY DEF Planning!Init
<1>2. c.steps \in Seq(Planning!Steps) /\ txs = [h \in Handlers |-> Planning!Closed]
  BY DEF Planning!AllValid, Planning!Init
<1>3. DOMAIN rows = DOMAIN c.steps /\ \A i \in DOMAIN c.steps : rows[i].name = c.steps[i].id
  BY <1>1, <1>2, InitRows
<1> QED BY <1>1, <1>2, <1>3, BeginFollow

LEMMA FollowSuffices == PlanFollow => Planning!RowsFollowContract
BY DEF PlanFollow, Planning!RowsFollowContract, Follows

\* A pending step that is handed out stands in the contract in force.
LEMMA FollowUnbegun ==
    PlanFollow => \A s \in DOMAIN rows \cap DOMAIN rows' :
        ~overlaps /\ crossed = {} /\ rows[s].state = "PENDING" /\ rows'[s].state = "CLAIMED"
            => rows[s].name \in Planning!Ids(Planning!Live(column).steps)
BY DEF PlanFollow, Stand

-----------------------------------------------------------------------------
(* Versions are added, approvals stand.                                     *)

\* From c to d versions were added; what was approved stands, or an answer has
\* taken it back.
Lengthened(c, d) ==
    /\ Planning!IsPrefix(c, d)
    /\ Planning!Live(c).crit \subseteq Planning!Live(d).crit \/ (Len(d) > Len(c) /\ Planning!Live(d).by[1] = "answer")

LEMMA SameColumn ==
    ASSUME NEW c, IsColumn(c)
    PROVE  Lengthened(c, c)
BY ColumnVersions DEF Lengthened, Planning!IsPrefix

LEMMA PrefixOfMore ==
    ASSUME NEW c \in Seq(Versions), NEW x \in Seq(Versions)
    PROVE  Planning!IsPrefix(c, c \o x)
BY DEF Planning!IsPrefix

LEMMA ColumnMoves ==
    ASSUME Planning!AllValid, PlanTyped, PlanFollow, [Planning!Next]_Planning!vars, ~overlaps'
    PROVE  Lengthened(column, column')
<1>1. IsColumn(column) /\ Lengthened(column, column) /\ column \in Seq(Versions)
  BY SameColumn DEF PlanTyped, IsColumn
<1>2. CASE column' = column
  BY <1>1, <1>2
<1>3. ASSUME NEW h \in Handlers, column' # column, Planning!Grow(h) \/ Planning!Adopt(h) \/ Planning!Retire(h) \/ Planning!Turn(h)
      PROVE  Lengthened(column, column')
  <2>1. Planning!Open(h) /\ overlaps' = overlaps
    BY <1>3 DEF Planning!Grow, Planning!Adopt, Planning!Retire, Planning!Turn, Planning!Adds, Planning!Expands, Planning!Rejects, Planning!AnswerCommits, Planning!Open, Planning!history
  <2>2. txs[h].seen = column /\ (txs[h].pc = "column" => txs[h].again = column)
    BY <2>1 DEF PlanFollow, Current
  <2>3. CASE Planning!Grow(h)
    <3>1. column' = column \o Planning!Grown(h, Planning!ThePlan(h)) /\ Planning!Adds(h) /\ Planning!Sound(h, Planning!ThePlan(h))
      BY <2>2, <2>3 DEF Planning!Grow, Planning!Acceptable
    <3>2. Planning!Grown(h, Planning!ThePlan(h)) \in Seq(Versions) /\ Planning!Live(column).crit \subseteq Planning!Live(column').crit
      BY <2>2, <3>1, GrownIs
    <3> QED BY <1>1, <3>1, <3>2, PrefixOfMore DEF Lengthened
  <2>4. CASE Planning!Adopt(h)
    <3>1. /\ txs[h].pc = "column" /\ Planning!Adopted(h) # <<>> /\ \A v \in Planning!Range(Planning!Adopted(h)) : Planning!Valid(v)
          /\ column' = column \o Planning!Adopted(h)
      BY <1>3, <2>2, <2>4 DEF Planning!Adopt, Planning!AnswerCommits
    <3>2. PICK v \in Versions : /\ Planning!Adopted(h) = <<v>> /\ Planning!Valid(v) /\ v.steps = Planning!Live(column).steps
                                /\ Planning!Live(column).crit \subseteq v.crit
      BY <2>1, <2>2, <3>1, AdoptedIs
    <3>3. Continues(column[1].steps, v.steps)
      BY <1>1, <3>2, LiveFacts
    <3>4. Planning!Live(column') = v
      BY <1>1, <3>1, <3>2, <3>3, OneMore
    <3>5. <<v>> \in Seq(Versions)
      OBVIOUS
    <3> QED BY <1>1, <3>1, <3>2, <3>4, <3>5, PrefixOfMore DEF Lengthened
  <2>5. CASE Planning!Retire(h) \/ Planning!Turn(h)
    <3>1. txs[h].pc = "column" /\ Planning!Built(h) # {} /\ column' = Planning!TakenBack(h)
      BY <1>3, <2>5 DEF Planning!Retire, Planning!Turn, Planning!Rejects
    <3>2. Planning!Live(column').by[1] = "answer" /\ Len(column') = Len(column) + 1
      BY <2>1, <2>2, <3>1, TakenBackIs
    <3>3. PICK v : column' = Append(column, v)
      BY <2>2, <3>1 DEF Planning!TakenBack
    <3>4. Planning!IsPrefix(column, column')
      BY <1>1, <3>2, <3>3 DEF Planning!IsPrefix
    <3>5. Len(column) \in Nat
      BY <1>1
    <3> QED BY <3>2, <3>4, <3>5 DEF Lengthened
  <2> QED BY <1>3, <2>3, <2>4, <2>5
<1>4. ASSUME Planning!Next, column' # column
      PROVE  \E h \in Handlers : Planning!Grow(h) \/ Planning!Adopt(h) \/ Planning!Retire(h) \/ Planning!Turn(h)
  BY <1>4 DEF Planning!Next, Planning!Transact, Planning!Claim, Planning!Report, Planning!Answer, Planning!GoBack, Planning!Finish, Planning!Refuse, Planning!AddNothing, Planning!Conflict, Planning!ReadColumn,
     Planning!JustNo, Planning!AnswerCommits, Planning!Undo
<1> QED BY <1>2, <1>3, <1>4 DEF Planning!vars

-----------------------------------------------------------------------------
(* The theorems.                                                            *)

PlanInv == PlanTyped /\ PlanFollow

LEMMA PlanBegins == ReportsInit => PlanInv
<1>1. ASSUME NoPlan
      PROVE  PlanInv
  <2>1. /\ <<>> \in Seq(Planning!Steps) /\ IsTable(rows) /\ DOMAIN rows = DOMAIN <<>> /\ DOMAIN <<>> = {}
        /\ column = <<Planning!Version(Planning!ByRequester, {}, <<>>, {})>>
        /\ txs = [h \in Handlers |-> Planning!Closed]
    BY <1>1 DEF NoPlan, IsTable
  <2>2. Planning!Valid(Planning!Version(Planning!ByRequester, {}, <<>>, {}))
    BY DEF Planning!Valid, Planning!Version
  <2> QED BY <2>1, <2>2, BeginTypes, BeginFollow DEF PlanInv
<1> QED BY <1>1, InitTypes, InitFollows, PlansAccepted DEF ReportsInit, PlanInv

LEMMA PlanKeeps == PlanInv /\ [GraphNext \/ PlanNext]_<<vars, planVars>> => PlanInv'
<1>1. PlanInv /\ UNCHANGED planVars => PlanInv'
  BY UnchangedTypes, UnchangedFollows DEF PlanInv, planVars, Planning!vars
<1>2. PlanInv /\ Planning!Next => PlanInv'
  BY NextTypes, NextFollows, PlansAccepted DEF PlanInv
<1> QED BY <1>1, <1>2 DEF GraphNext, PlanNext

\* What a step of either kind is for the column.
LEMMA PlanSteps == [GraphNext \/ PlanNext]_<<vars, planVars>> => [Planning!Next]_Planning!vars
BY DEF GraphNext, PlanNext, planVars, Planning!vars

\* The tables of a Run keep their types, however many reports and answers
\* overlap: every version is valid and begins with what was submitted, and an
\* open transaction has its row to itself (expand.go, ask.go, rollback.go).
THEOREM PlanTypes == ReportsSpec => []Planning!TypeOK
<1>1. PlanInv => Planning!TypeOK
  BY TypesSuffice DEF PlanInv
<1> QED BY <1>1, PlanBegins, PlanKeeps, PTL DEF ReportsSpec

\* The rows begin with the steps of the contract in force, place by place,
\* through every growth, loop, adoption and retreat, as long as transactions
\* follow each other and no plan comes back whose rows are gone.
THEOREM RowsFollow == ReportsSpec => []RowsFollowContract
<1>1. PlanInv => RowsFollowContract
  BY FollowSuffices DEF PlanInv, RowsFollowContract
<1> QED BY <1>1, PlanBegins, PlanKeeps, PTL DEF ReportsSpec

\* No step is handed out of a plan that was taken back, as long as plans are
\* taken back in the reverse of their order and none holds the question about
\* itself.
THEOREM RetiredStayUnbegun == ReportsSpec => RetiredStepsStayUnbegun
<1>1. PlanInv => \A s \in DOMAIN rows \cap DOMAIN rows' :
        ~overlaps /\ crossed = {} /\ rows[s].state = "PENDING" /\ rows'[s].state = "CLAIMED"
            => rows[s].name \in Planning!Ids(Planning!Live(column).steps)
  BY FollowUnbegun DEF PlanInv
<1> QED BY <1>1, PlanBegins, PlanKeeps, PTL
        DEF ReportsSpec, RetiredStepsStayUnbegun, Planning!RetiredStepsStayUnbegun

\* Versions are added and never rewritten, and what somebody has approved stays
\* in force until an answer takes it back, as long as transactions follow each
\* other.
THEOREM ColumnGrows == ReportsSpec => Planning!ColumnOnlyGrows /\ Planning!ApprovalsStand
<1>1. PlanInv /\ [Planning!Next]_Planning!vars =>
        /\ ~overlaps' => Planning!IsPrefix(column, column')
        /\ ~overlaps' => \A c \in Planning!Live(column).crit :
            \/ c \in Planning!Live(column').crit
            \/ Len(column') > Len(column) /\ Planning!Live(column').by[1] = "answer"
  BY ColumnMoves, PlansAccepted DEF Lengthened, PlanInv
<1> QED BY <1>1, PlanBegins, PlanKeeps, PlanSteps, PTL
        DEF ReportsSpec, Planning!ColumnOnlyGrows, Planning!ApprovalsStand
=============================================================================
