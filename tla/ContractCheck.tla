---------------------------- MODULE ContractCheck ----------------------------
(***************************************************************************)
(* What Contract.Validate asks of the shape of the steps.                  *)
(*                                                                         *)
(* A contract is a sequence of steps; a step's name is its place.          *)
(*   kind      "work" (agent, run, build, merge), "acquire" or "ask"       *)
(*   uses      the role whose node performs it, or NoRole                  *)
(*   needs     {} if the field is absent, {S} if it says S                 *)
(*   to        dispatch.to                                                 *)
(*   want, acquired, unavailable   acquire: the role, the two targets      *)
(*   back, max                     loop (back = 0: none)                   *)
(*   checker, tries                validate_with, max_attempts             *)
(*   release   the roles it gives up                                       *)
(* Names, forms, schemas and conditions are left out: no step of the graph *)
(* depends on them.                                                        *)
(***************************************************************************)
EXTENDS Integers, Sequences, FiniteSets

CONSTANT NoRole

Absent == [kind |-> "work", uses |-> NoRole, needs |-> {}, to |-> {},
           want |-> NoRole, acquired |-> 0, unavailable |-> 0,
           back |-> 0, max |-> 0, checker |-> 0, tries |-> 0, release |-> {}]

Least(S) == CHOOSE x \in S : \A y \in S : x <= y
Most(S) == CHOOSE x \in S : \A y \in S : y <= x

\* The steps a step names as the ends of its fork.
Branches(st) == st.to \cup ({st.acquired, st.unavailable} \ {0})

\* What step i waits for. A target of a fork waits for the fork; any other
\* step that does not say waits for the one before it.
NeedsOf(c, i) ==
    LET forks == {j \in 1..(i - 1) : i \in Branches(c[j])}
    IN  CASE c[i].needs # {} -> CHOOSE S \in c[i].needs : TRUE
          [] c[i].needs = {} /\ forks # {} -> {Least(forks)}
          [] OTHER -> {i - 1} \ {0}

\* The steps that are over before step i can begin.
Ancestors(c, i) ==
    LET anc[k \in 1..Len(c)] ==
            UNION {{j} \cup anc[j] : j \in NeedsOf(c, k) \cap 1..(k - 1)}
    IN  anc[i]

\* What is over when s begins: the steps it waits for and, where they are in A,
\* what those have waited for.
Through(c, A, s) ==
    LET before[k \in 1..Len(c)] ==
            UNION {{j} \cup (IF j \in A THEN before[j] ELSE {}) : j \in NeedsOf(c, k) \cap 1..(k - 1)}
    IN  before[s]

\* A fork that leads to p is all that p waits for, no fork leads to it, and it
\* begins again only together with p: p is not passed by before the fork, and what
\* passed it by does not bring it back. again[e] are the steps that begin again
\* as the end of e may have it.
OneRoad(c, again, p) ==
    \A f \in DOMAIN c : p \in Branches(c[f]) =>
        /\ NeedsOf(c, p) = {f}
        /\ \A g \in DOMAIN c : f \notin Branches(c[g])
        /\ \A e \in DOMAIN c \ {f} : f \in again[e] => p \in again[e]

\* Whichever way the forks go, p is over when s begins and stays so: whoever brings
\* p back brings back s, which then waits for p through steps that begin
\* again as well, or is itself over before s.
SurelyOver(c, again, s, p) ==
    LET plain == {k \in DOMAIN c : OneRoad(c, again, k)}
        Rejoins(e, k) == k \in again[e] /\ p \in Through(c, plain \cap again[e], k)
    IN  /\ p \in plain \cap Through(c, plain, s)
        /\ \A e \in DOMAIN c \ {p} : p \in again[e] =>
            Rejoins(e, s) \/ (e \in plain \cap Through(c, plain, s) /\ Rejoins(e, e))

\* The steps that die when a fork to `to` takes `chosen`. Edges point
\* backward, so one pass in order is the code's fixpoint.
SkipClosure(c, to, chosen) ==
    LET dead[k \in 1..Len(c)] ==
            \/ k \in to \ {chosen}
            \/ NeedsOf(c, k) # {} /\ \A j \in NeedsOf(c, k) : j < k /\ dead[j]
    IN  {k \in 1..Len(c) : dead[k]}

\* A contract is a list of such steps; the ends of an acquire are an acquire's.
Shaped(c, roles) ==
    LET names == {NoRole} \cup roles \cup {c[i].want : i \in DOMAIN c}
    IN  /\ c \in Seq([kind : {"work", "acquire", "ask"}, uses : names, needs : SUBSET SUBSET Nat,
                      to : SUBSET Nat, want : names, acquired : Nat, unavailable : Nat,
                      back : Nat, max : Nat, checker : Nat, tries : Nat, release : SUBSET names])
        /\ \A i \in DOMAIN c :
            c[i].kind # "acquire" => c[i].want = NoRole /\ c[i].acquired = 0 /\ c[i].unavailable = 0

-----------------------------------------------------------------------------
Declared(c, roles) == roles \cup {c[i].want : i \in {j \in DOMAIN c : c[j].kind = "acquire"}}

RolesOk(c, roles) ==
    /\ \A i \in DOMAIN c :
        IF c[i].kind = "work" THEN c[i].uses \in Declared(c, roles) ELSE c[i].uses = NoRole
    /\ \A i, j \in DOMAIN c : c[i].kind = "acquire" =>
        c[i].want \notin roles /\ (c[j].kind = "acquire" /\ c[i].want = c[j].want => i = j)

LoopOk(c) ==
    \A i \in DOMAIN c : c[i].back # 0 =>
        /\ c[i].checker = 0
        /\ c[i].back < i
        /\ c[i].max >= 2
        /\ \A k \in c[i].back..i : c[k].release = {} /\ (k # i => c[k].back = 0)

AcquireOk(c) ==
    \A i \in DOMAIN c : c[i].kind = "acquire" =>
        /\ c[i].want # NoRole
        /\ c[i].acquired # c[i].unavailable
        /\ {c[i].acquired, c[i].unavailable} \subseteq (i + 1)..Len(c)
        /\ \A j \in DOMAIN c : c[j].uses = c[i].want => i \in Ancestors(c, j)

ReleaseOk(c, roles) ==
    \A i \in DOMAIN c : \A r \in c[i].release :
        /\ r \in Declared(c, roles)
        /\ \A j \in DOMAIN c \ {i} : c[j].uses = r => j \in Ancestors(c, i)

NeedsOk(c) == \A i \in DOMAIN c : \A S \in c[i].needs : S \subseteq 1..(i - 1)

DispatchOk(c) ==
    \A i \in DOMAIN c : c[i].to # {} =>
        /\ Cardinality(c[i].to) >= 2
        /\ c[i].to \subseteq (i + 1)..Len(c)
        /\ \A t \in c[i].to : t \notin SkipClosure(c, c[i].to, t)

\* The Mediator accepts a contract of this shape.
Validate(c, roles) ==
    /\ roles # {} /\ c # <<>>
    /\ RolesOk(c, roles) /\ LoopOk(c) /\ AcquireOk(c)
    /\ ReleaseOk(c, roles) /\ NeedsOk(c) /\ DispatchOk(c)
=============================================================================
