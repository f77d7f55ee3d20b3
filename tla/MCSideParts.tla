----------------------------- MODULE MCSideParts -----------------------------
(***************************************************************************)
(* The parts beside the Runs: the adapter of an issue tracker              *)
(* (IssueAdapter), the state a host keeps of its lower (LowerIdentity),    *)
(* the environments prepared on it (PreparedEnvironment) and what a node   *)
(* takes from a command that has ended (Harvest). They share no state: a   *)
(* behaviour is one of the four, and the other three stand still.          *)
(***************************************************************************)
EXTENDS IssueAdapter, LowerIdentity, PreparedEnvironment, Harvest

VARIABLE theme  \* which of the four

\* How a part stands still.
NoIdentity ==
    /\ lower = [birth |-> 2, half |-> FALSE] /\ place = "absent" /\ recorded = 0 /\ state = Committed
    /\ bakeLock = NoNode /\ node = [n \in Nodes |-> Down] /\ lost = FALSE /\ deaths = 0
NoEnv ==
    /\ profile = "" /\ mirror = 1 /\ host = [installed |-> TRUE, blocked |-> FALSE] /\ envs = {}
    /\ index = NoIndex /\ proc = [p \in Processes |-> Waiting] /\ moves = 0 /\ trouble = 0
NoHarvest ==
    /\ overlay = FALSE /\ workspace = FALSE /\ step = "" /\ tree = "" /\ source = "" /\ out = "" /\ pc = "" /\ todo = {}
    /\ fin = NothingFound("none") /\ late = FALSE /\ ended = FALSE /\ cause = "none" /\ result = NoResult

PartsSpec ==
    /\ \/ theme = "adapter" /\ Init /\ NoIdentity /\ NoEnv /\ NoHarvest
       \/ theme = "identity" /\ Init /\ IdentityInit /\ NoEnv /\ NoHarvest
       \/ theme = "environment" /\ Init /\ NoIdentity /\ EnvInit /\ NoHarvest
       \/ theme = "harvest" /\ Init /\ NoIdentity /\ NoEnv /\ HarvestInit
    /\ [][/\ UNCHANGED theme
          /\ \/ theme = "adapter" /\ Next /\ UNCHANGED <<identityVars, envVars, harvestVars>>
             \/ theme = "identity" /\ IdentityNext /\ UNCHANGED <<vars, envVars, harvestVars>>
             \/ theme = "environment" /\ EnvNext /\ UNCHANGED <<vars, identityVars, harvestVars>>
             \/ theme = "harvest" /\ HarvestNext /\ UNCHANGED <<vars, identityVars, envVars>>
      ]_<<theme, vars, identityVars, envVars, harvestVars>>
=============================================================================
