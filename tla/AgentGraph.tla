----------------------------- MODULE AgentGraph -----------------------------
(***************************************************************************)
(* One execution of the intelligence graph: five agents in parallel, then  *)
(* validation, synthesis and the report.  LangGraph (external) runs the    *)
(* graph in supersteps: the nodes of a superstep run concurrently, what    *)
(* they return is merged into the state only when all of them have         *)
(* returned, and every successor of any of them runs in the next one.  An  *)
(* exception ends the execution and drops what the superstep returned.     *)
(***************************************************************************)
EXTENDS Naturals, Sequences

CONSTANTS
  Agents,                \* the agents, each with a node and a state field
  Cascade,               \* the model ids _candidate_models goes through
  MaxCorrectionRounds    \* NOVA_VALIDATION_ROUNDS

Stages == {"validation", "synthesis", "report"}

Models == {Cascade[i] : i \in DOMAIN Cascade}

ASSUME AgentsAssumption == Agents # {} /\ Agents \cap Stages = {}
ASSUME RoundsAssumption == MaxCorrectionRounds \in Nat
ASSUME CascadeAssumption == "nothing" \notin Models

Nodes == Agents \cup Stages

VARIABLES
  active,      \* the nodes of the current superstep
  output,      \* what each of them has returned so far
  state,       \* the fields of OrchestratorState the nodes write
  latencies,   \* the keys of state.metrics["agent_latencies_ms"]
  candidate,   \* validate_payload: what the next round will validate
  round,       \* validate_payload: correction rounds begun
  tried,       \* generate_report: the models that have raised
  author,      \* the report's "model"
  result       \* of the awaited graph

vars == <<active, output, state, latencies, candidate, round,
          tried, author, result>>

stageVars == <<candidate, round, tried, author>>

Nothing == "nothing"

(* An agent's dict may be empty, or violate AgentBundle's schema.          *)
AgentContents == {"usable", "empty", "malformed"}

Contents == AgentContents \cup {Nothing, "valid", "dossier", "error", "text"}

TypeOK ==
  /\ active \in SUBSET Nodes
  /\ output \in [Nodes -> Contents]
  /\ state \in [Nodes -> Contents]
  /\ latencies \in SUBSET Agents
  /\ candidate \in {"bundle", "conforming", "violating"}
  /\ round \in 0 .. MaxCorrectionRounds
  /\ tried \in SUBSET Models
  /\ author \in Models \cup {Nothing, "local-template"}
  /\ result \in {"running", "returned", "raised"}

-----------------------------------------------------------------------------
(*                         Wiring and supersteps                           *)

(* Mutant of EntryNodes: one agent has no edge from START.                 *)
EntryNodesMissOne == Agents \ {CHOOSE a \in Agents : TRUE}

(* The nodes with an edge from START.                                      *)
EntryNodes == Agents

(* Mutant of Edges: one agent hands over to another.                       *)
EdgesChained ==
  LET late  == CHOOSE a \in Agents : TRUE
      first == CHOOSE a \in Agents \ {late} : TRUE
  IN  {<<a, "validation">> : a \in Agents} \cup {<<first, late>>}
        \cup {<<"validation", "synthesis">>, <<"synthesis", "report">>}

(* Mutant of Edges: synthesis is not connected to the report.              *)
EdgesWithoutReport ==
  {<<a, "validation">> : a \in Agents} \cup {<<"validation", "synthesis">>}

(* Mutant of Edges: synthesis feeds validation again.                      *)
EdgesWithFeedback ==
  {<<a, "validation">> : a \in Agents}
    \cup {<<"validation", "synthesis">>, <<"synthesis", "validation">>}

(* The other edges, but for the one to END: each is one of its own, so     *)
(* that validation waits for the five agents only because they run in the  *)
(* same superstep.                                                         *)
Edges ==
  {<<a, "validation">> : a \in Agents}
    \cup {<<"validation", "synthesis">>, <<"synthesis", "report">>}

Successors(S) == {n \in Nodes : \E m \in S : <<m, n>> \in Edges}

(* Mutant of MergeMetrics: the last map replaces the others.               *)
MergeMetricsReplace(existing, incoming) ==
  IF incoming = {} THEN existing ELSE {CHOOSE a \in incoming : TRUE}

(* merge_metrics: maps are merged key by key.                              *)
MergeMetrics(existing, incoming) == existing \cup incoming

Init ==
  /\ active = EntryNodes
  /\ output = [n \in Nodes |-> Nothing]
  /\ state = [n \in Nodes |-> Nothing]
  /\ latencies = {}
  /\ candidate = "bundle"
  /\ round = 0
  /\ tried = {}
  /\ author = Nothing
  /\ result = "running"

Executing(n) == result = "running" /\ n \in active /\ output[n] = Nothing

Return(n, content) ==
  /\ output' = [output EXCEPT ![n] = content]
  /\ UNCHANGED <<active, state, latencies, result>>

Raise ==
  /\ result' = "raised"
  /\ UNCHANGED <<active, output, state, latencies>>

(* Every node of the superstep has returned, in any order: the state is    *)
(* updated and the next superstep is made of their successors.  LangGraph  *)
(* sorts the tasks by path before it calls the reducers, so that the order *)
(* of those calls does not depend on which branch ended first, and one     *)
(* step stands for all of them.                                            *)
EndSuperstep ==
  /\ result = "running"
  /\ active # {}
  /\ \A n \in active : output[n] # Nothing
  /\ state' = [n \in Nodes |-> IF n \in active THEN output[n] ELSE state[n]]
  /\ latencies' = MergeMetrics(latencies, active \cap Agents)
  /\ output' = [n \in Nodes |-> Nothing]
  /\ active' = Successors(active)
  /\ result' = IF active' = {} THEN "returned" ELSE "running"
  /\ UNCHANGED stageVars

-----------------------------------------------------------------------------
(*                               The nodes                                 *)

(* An agent looks its facts up; financial_node also loads the MCP tools.   *)
(* Nothing catches their exceptions.                                       *)
AgentNode(a) ==
  /\ Executing(a)
  /\ \/ \E content \in AgentContents : Return(a, content)
     \/ Raise
  /\ UNCHANGED stageVars

(* AgentBundle has a default for every field: only a value of the wrong    *)
(* type violates it.                                                       *)
Conforms ==
  IF candidate = "bundle"
  THEN \A a \in Agents : state[a] # "malformed"
  ELSE candidate = "conforming"

AcceptBundle ==
  /\ Executing("validation")
  /\ Conforms
  /\ Return("validation", "valid")
  /\ UNCHANGED stageVars

(* Mutant of CorrectBundle: the correction rounds are not counted.         *)
CorrectBundleUncounted ==
  /\ Executing("validation")
  /\ ~ Conforms
  /\ round' = round + 1
  /\ \E reply \in {"conforming", "violating"} : candidate' = reply
  /\ UNCHANGED <<active, output, state, latencies, result, tried, author>>

(* Nova Micro's reply becomes the candidate, unless it is no JSON.         *)
CorrectBundle ==
  /\ Executing("validation")
  /\ ~ Conforms
  /\ round < MaxCorrectionRounds
  /\ round' = round + 1
  /\ \E reply \in {"conforming", "violating"} : candidate' = reply
  /\ UNCHANGED <<active, output, state, latencies, result, tried, author>>

(* Mutant of GiveUpOnBundle: None is returned, hence an empty dict merged. *)
GiveUpWithNothing ==
  /\ Executing("validation")
  /\ ~ Conforms
  /\ Return("validation", "valid")
  /\ UNCHANGED stageVars

(* No round is left, or the reply was no JSON: without Bedrock it is the   *)
(* prompt itself.                                                          *)
GiveUpOnBundle ==
  /\ Executing("validation")
  /\ ~ Conforms
  /\ Return("validation", "error")
  /\ UNCHANGED stageVars

ValidationNode == AcceptBundle \/ CorrectBundle \/ GiveUpOnBundle

SynthesisNode ==
  /\ Executing("synthesis")
  /\ Return("synthesis",
            IF state["validation"] = "valid" THEN "dossier" ELSE "error")
  /\ UNCHANGED stageVars

(* The next model to ask: the first in the list that has not raised yet;   *)
(* an id listed twice is asked once.                                       *)
NextModel(m) ==
  \E i \in DOMAIN Cascade :
    /\ Cascade[i] = m
    /\ m \notin tried
    /\ \A j \in 1 .. i - 1 : Cascade[j] \in tried

(* The prompt is built from whatever synthesis returned.                   *)
AskModel(m) ==
  /\ Executing("report")
  /\ NextModel(m)
  /\ \/ /\ author' = m
        /\ Return("report", "text")
        /\ UNCHANGED <<candidate, round, tried>>
     \/ /\ tried' = tried \cup {m}
        /\ UNCHANGED <<active, output, state, latencies, result,
                       candidate, round, author>>

(* The modules generator.py imports, and those its local template uses:    *)
(* _normalize_bullet_text, called for every line, raises NameError for re. *)
ImportedModules == {"json", "os", "logging"}
TemplateModules == {"re"}

RenderLocalReport ==
  /\ Executing("report")
  /\ Models \subseteq tried
  /\ IF TemplateModules \subseteq ImportedModules
     THEN Return("report", "text") /\ author' = "local-template"
     ELSE Raise /\ UNCHANGED author
  /\ UNCHANGED <<candidate, round, tried>>

ReportNode == (\E m \in Models : AskModel(m)) \/ RenderLocalReport

-----------------------------------------------------------------------------
Next ==
  \/ \E a \in Agents : AgentNode(a)
  \/ ValidationNode
  \/ SynthesisNode
  \/ ReportNode
  \/ EndSuperstep

(* The event loop and its threads get on, and every call the nodes make to *)
(* a provider or a model ends: their clients have timeouts.                *)
Fairness ==
  /\ \A a \in Agents : WF_vars(AgentNode(a))
  /\ WF_vars(ValidationNode)
  /\ WF_vars(SynthesisNode)
  /\ WF_vars(ReportNode)
  /\ WF_vars(EndSuperstep)

Spec == Init /\ [][Next]_vars /\ Fairness

-----------------------------------------------------------------------------
(* The synchronization barrier of reducers.py: validation, and so all that *)
(* follows, runs only when every agent's output is in the state.  Nothing  *)
(* checks it (all_agents_resolved is never called); it follows from the    *)
(* wiring.                                                                 *)
ValidationSeesAllAgents ==
  "validation" \in active => \A a \in Agents : state[a] # Nothing

(* No node runs twice in an execution: each of the five fan-in edges could *)
(* start validation by itself.                                             *)
NodesRunOnce == \A n \in active : state[n] = Nothing

(* A graph that returns has a report, which the orchestrator persists and  *)
(* names the model that wrote it.                                          *)
ReturnedHasReport ==
  result = "returned" => state["report"] = "text" /\ author # Nothing

(* The metrics it returns have the latency of every agent: merging the     *)
(* maps of the parallel branches drops none.                               *)
AllLatenciesReported == result = "returned" => latencies = Agents

(* A dossier is made only from a bundle that conforms to the schema, as    *)
(* the agents returned it or as Nova Micro repaired it.                    *)
DossierIsValidated ==
  state["synthesis"] = "dossier" =>
    \/ \A a \in Agents : state[a] # "malformed"
    \/ candidate = "conforming"

(* Every execution ends: the correction rounds and the models run out.     *)
GraphEnds == <>(result # "running")

(* A report rests on usable data of all five agents: what the README says  *)
(* validation checks.                                                      *)
ReportRestsOnUsableData ==
  result = "returned" =>
    /\ state["validation"] = "valid"
    /\ \A a \in Agents : state[a] = "usable"

(* The local template writes the report when no model answers: the report  *)
(* node never fails.                                                       *)
TemplateKeepsWorking == "report" \in active => result # "raised"

=============================================================================
