-------------------------- MODULE AgentGraphProofs --------------------------
(***************************************************************************)
(* Proofs about the intelligence graph, for any set of agents, any list of *)
(* models and any number of correction rounds.                             *)
(***************************************************************************)
EXTENDS AgentGraph, TLAPS

(* The fields nodes have written so far.                                   *)
Published(S) == \A n \in Nodes : n \in S <=> state[n] # Nothing

(* The five supersteps: the barrier in one formula.  Each property below   *)
(* needs to know both what runs and what has been merged before.           *)
Frontier ==
  \/ active = Agents /\ Published({}) /\ latencies = {}
  \/ /\ latencies = Agents
     /\ \/ active = {"validation"} /\ Published(Agents)
        \/ active = {"synthesis"} /\ Published(Agents \cup {"validation"})
        \/ active = {"report"}
             /\ Published(Agents \cup {"validation", "synthesis"})
        \/ active = {} /\ Published(Nodes) /\ result = "returned"

ReturnedOnlyAtEnd == result = "returned" => active = {}

(* What each stage may have returned, and what it must have seen then.     *)
StageContents ==
  \A content \in {output, state} :
    /\ content["validation"] \in {Nothing, "valid", "error"}
    /\ content["synthesis"] \in {Nothing, "dossier", "error"}
    /\ content["report"] \in {Nothing, "text"}
    /\ content["validation"] = "valid" => Conforms
    /\ content["synthesis"] = "dossier" => state["validation"] = "valid"
    /\ content["report"] # Nothing => author # Nothing

(* Only nodes of the superstep have something to merge.                    *)
OutputOfActive == \A n \in Nodes : output[n] # Nothing => n \in active

GraphInv ==
  /\ TypeOK
  /\ Frontier
  /\ ReturnedOnlyAtEnd
  /\ StageContents
  /\ OutputOfActive

-----------------------------------------------------------------------------
LEMMA NodesDisjoint ==
  /\ "validation" \notin Agents /\ "synthesis" \notin Agents
  /\ "report" \notin Agents
  /\ Agents \in SUBSET Nodes /\ Stages \in SUBSET Nodes
BY AgentsAssumption DEF Stages, Nodes

LEMMA SuccessorsOfSuperstep ==
  /\ Successors(Agents) = {"validation"}
  /\ Successors({"validation"}) = {"synthesis"}
  /\ Successors({"synthesis"}) = {"report"}
  /\ Successors({"report"}) = {}
BY NodesDisjoint, AgentsAssumption DEF Successors, Edges, Nodes, Stages

LEMMA GraphInit == Init => GraphInv
<1> SUFFICES ASSUME Init PROVE GraphInv  OBVIOUS
<1>1. TypeOK
  BY NodesDisjoint, RoundsAssumption DEF Init, TypeOK, EntryNodes, Contents, Nothing
<1>2. Frontier /\ ReturnedOnlyAtEnd
  BY DEF Init, Frontier, Published, ReturnedOnlyAtEnd, EntryNodes
<1>3. StageContents /\ OutputOfActive
  BY NodesDisjoint DEF Init, StageContents, OutputOfActive, Nodes, Stages, Nothing
<1> QED  BY <1>1, <1>2, <1>3 DEF GraphInv

(* A node of the running superstep returns or the graph raises: the state  *)
(* fields stay as they are.                                                *)
LEMMA StageStep ==
  ASSUME GraphInv,
         (\E a \in Agents : AgentNode(a)) \/ ValidationNode
           \/ SynthesisNode \/ ReportNode
  PROVE  GraphInv'
<1> USE NodesDisjoint DEF GraphInv, stageVars
<1>1. UNCHANGED <<active, state, latencies>>
  BY DEF AgentNode, ValidationNode, AcceptBundle, CorrectBundle,
         GiveUpOnBundle, SynthesisNode, ReportNode, AskModel,
         RenderLocalReport, Return, Raise
<1>2. result = "running" /\ result' \in {"running", "raised"}
  BY DEF AgentNode, ValidationNode, AcceptBundle, CorrectBundle,
         GiveUpOnBundle, SynthesisNode, ReportNode, AskModel,
         RenderLocalReport, Return, Raise, Executing
<1>3. Frontier' /\ ReturnedOnlyAtEnd'
  BY <1>1, <1>2 DEF Frontier, Published, ReturnedOnlyAtEnd
<1>4. ASSUME NEW a \in Agents, AgentNode(a)  PROVE GraphInv'
  <2>1. a \in Nodes /\ a \notin Stages
    BY <1>4, AgentsAssumption
  <2>2. TypeOK' /\ OutputOfActive'
    BY <1>4, <2>1 DEF AgentNode, Return, Raise, Executing, TypeOK, Contents,
                      AgentContents, Nothing, OutputOfActive
  <2>3. StageContents'
    BY <1>4, <2>1 DEF AgentNode, Return, Raise, TypeOK, StageContents,
                      Conforms, Stages
  <2> QED  BY <1>3, <2>2, <2>3
<1>5. CASE ValidationNode
  <2>1. active = {"validation"}
    BY <1>5 DEF ValidationNode, AcceptBundle, CorrectBundle, GiveUpOnBundle,
                Executing, Frontier
  <2>2. TypeOK' /\ OutputOfActive'
    BY <1>5, RoundsAssumption
       DEF ValidationNode, AcceptBundle, CorrectBundle, GiveUpOnBundle, Return,
           Executing, TypeOK, Contents, Nothing, OutputOfActive, Stages
  <2>3. state["validation"] = Nothing /\ output["synthesis"] = Nothing
        /\ state["synthesis"] = Nothing
    BY <2>1 DEF Frontier, Published, OutputOfActive, Stages
  <2>4. StageContents'
    BY <1>5, <2>1, <2>3
       DEF ValidationNode, AcceptBundle, CorrectBundle, GiveUpOnBundle, Return,
           Executing, TypeOK, StageContents, Conforms, Stages, Nothing
  <2> QED  BY <1>3, <2>2, <2>4
<1>6. CASE SynthesisNode
  <2>1. TypeOK' /\ OutputOfActive'
    BY <1>6 DEF SynthesisNode, Return, Executing, TypeOK, Contents, Nothing,
                OutputOfActive, Stages
  <2>2. StageContents'
    BY <1>6 DEF SynthesisNode, Return, TypeOK, StageContents, Conforms, Stages
  <2> QED  BY <1>3, <2>1, <2>2
<1>7. CASE ReportNode
  <2>1. TypeOK' /\ OutputOfActive'
    BY <1>7 DEF ReportNode, AskModel, RenderLocalReport, Return, Raise,
                Executing, TypeOK, Contents, Nothing, OutputOfActive, Stages
  <2>2. output["report"] = Nothing /\ state["report"] = Nothing
    BY <1>7 DEF ReportNode, AskModel, RenderLocalReport, Executing, Frontier,
                Published, Stages
  <2>3. StageContents'
    BY <1>7, <2>2, CascadeAssumption
       DEF ReportNode, AskModel, RenderLocalReport, Return, Raise, TypeOK,
           StageContents, Conforms, Stages, Nothing
  <2> QED  BY <1>3, <2>1, <2>3
<1> QED  BY <1>4, <1>5, <1>6, <1>7

LEMMA SuperstepStep == ASSUME GraphInv, EndSuperstep PROVE GraphInv'
<1> USE NodesDisjoint DEF GraphInv, EndSuperstep, stageVars
<1>1. active' \in SUBSET Nodes
  BY DEF Successors
<1>2. TypeOK'
  <2>1. latencies' \in SUBSET Agents
    BY DEF MergeMetrics, TypeOK
  <2>2. state' \in [Nodes -> Contents] /\ output' \in [Nodes -> Contents]
    BY DEF TypeOK, Contents
  <2> QED  BY <1>1, <2>1, <2>2 DEF TypeOK
<1>3. \A n \in Nodes : state'[n] # Nothing <=> n \in active \/ state[n] # Nothing
  OBVIOUS
<1>4. Frontier' /\ ReturnedOnlyAtEnd'
  <2>1. CASE active = Agents
    <3>1. active' = {"validation"} /\ latencies' = Agents
      BY <2>1, SuccessorsOfSuperstep DEF MergeMetrics, TypeOK
    <3>2. Published(Agents)'
      BY <1>3, <2>1, AgentsAssumption DEF Frontier, Published
    <3> QED  BY <3>1, <3>2 DEF Frontier, ReturnedOnlyAtEnd
  <2>2. CASE active = {"validation"}
    <3>1. active' = {"synthesis"} /\ latencies' = Agents
      BY <2>2, SuccessorsOfSuperstep DEF MergeMetrics, TypeOK, Frontier
    <3>2. Published(Agents \cup {"validation"})'
      BY <1>3, <2>2 DEF Frontier, Published
    <3> QED  BY <3>1, <3>2 DEF Frontier, ReturnedOnlyAtEnd
  <2>3. CASE active = {"synthesis"}
    <3>1. active' = {"report"} /\ latencies' = Agents
      BY <2>3, SuccessorsOfSuperstep DEF MergeMetrics, TypeOK, Frontier
    <3>2. Published(Agents \cup {"validation", "synthesis"})'
      BY <1>3, <2>3 DEF Frontier, Published
    <3> QED  BY <3>1, <3>2 DEF Frontier, ReturnedOnlyAtEnd
  <2>4. CASE active = {"report"}
    <3>1. active' = {} /\ latencies' = Agents /\ result' = "returned"
      BY <2>4, SuccessorsOfSuperstep DEF MergeMetrics, TypeOK, Frontier
    <3>2. Published(Nodes)'
      BY <1>3, <2>4 DEF Frontier, Published, Nodes, Stages
    <3> QED  BY <3>1, <3>2 DEF Frontier, ReturnedOnlyAtEnd
  <2> QED  BY <2>1, <2>2, <2>3, <2>4 DEF Frontier
<1>5. StageContents'
  <2>1. output'["validation"] = Nothing /\ output'["synthesis"] = Nothing
        /\ output'["report"] = Nothing
    BY DEF Stages
  <2>2. \A n \in Stages : state'[n] = IF n \in active THEN output[n] ELSE state[n]
    BY DEF Stages
  <2>3. active # Agents => (Conforms => Conforms')
    <3>1. active # Agents => \A a \in Agents : state'[a] = state[a]
      BY DEF Frontier
    <3> QED  BY <3>1 DEF Conforms
  <2>4. state'["validation"] = "valid" => Conforms'
    <3>1. active = Agents => state'["validation"] = Nothing
      BY <2>2 DEF Frontier, Published, Stages
    <3> QED  BY <2>2, <2>3, <3>1 DEF StageContents, Stages, Nothing
  <2>5. state'["synthesis"] = "dossier" => state'["validation"] = "valid"
    BY <2>2 DEF StageContents, Stages, Frontier, Published, Nothing
  <2>6. state'["report"] # Nothing => author' # Nothing
    BY <2>2 DEF StageContents, Stages
  <2>7. /\ state'["validation"] \in {Nothing, "valid", "error"}
        /\ state'["synthesis"] \in {Nothing, "dossier", "error"}
        /\ state'["report"] \in {Nothing, "text"}
    BY <2>2 DEF StageContents, Stages
  <2> QED
    BY <2>1, <2>4, <2>5, <2>6, <2>7 DEF StageContents, Nothing
<1>6. OutputOfActive'
  BY DEF OutputOfActive
<1> QED  BY <1>2, <1>4, <1>5, <1>6

LEMMA GraphNext == GraphInv /\ [Next]_vars => GraphInv'
<1> SUFFICES ASSUME GraphInv, [Next]_vars PROVE GraphInv'  OBVIOUS
<1>1. CASE EndSuperstep
  BY <1>1, SuperstepStep
<1>2. CASE (\E a \in Agents : AgentNode(a)) \/ ValidationNode
             \/ SynthesisNode \/ ReportNode
  BY <1>2, StageStep
<1>3. CASE UNCHANGED vars
  BY <1>3 DEF vars, GraphInv, TypeOK, Frontier, Published, ReturnedOnlyAtEnd,
              StageContents, Conforms, OutputOfActive
<1> QED  BY <1>1, <1>2, <1>3 DEF Next

(* The invariant holds in every reachable state.                           *)
THEOREM GraphInvariant == Spec => []GraphInv
BY GraphInit, GraphNext, PTL DEF Spec

-----------------------------------------------------------------------------
(* Every variable keeps its type: the correction rounds never exceed       *)
(* NOVA_VALIDATION_ROUNDS and no node returns anything unforeseen.         *)
THEOREM TypeCorrect == Spec => []TypeOK
<1>1. GraphInv => TypeOK
  BY DEF GraphInv
<1> QED  BY <1>1, GraphInvariant, PTL

(* The barrier of reducers.py: validation starts with every agent's output *)
(* in the state.                                                           *)
THEOREM ValidationSeesAllAgentsHolds == Spec => []ValidationSeesAllAgents
<1>1. GraphInv => ValidationSeesAllAgents
  BY NodesDisjoint DEF GraphInv, Frontier, Published, ValidationSeesAllAgents
<1> QED  BY <1>1, GraphInvariant, PTL

(* No node of the graph runs twice.                                        *)
THEOREM NodesRunOnceHolds == Spec => []NodesRunOnce
<1>1. GraphInv => NodesRunOnce
  BY NodesDisjoint DEF GraphInv, Frontier, Published, NodesRunOnce, Nodes, Stages
<1> QED  BY <1>1, GraphInvariant, PTL

(* A graph that returns has a report and the name of its author.           *)
THEOREM ReturnedHasReportHolds == Spec => []ReturnedHasReport
<1>1. GraphInv => ReturnedHasReport
  <2> SUFFICES ASSUME GraphInv, result = "returned"
               PROVE  state["report"] = "text" /\ author # Nothing
    BY DEF ReturnedHasReport
  <2>1. Published(Nodes)
    BY NodesDisjoint, AgentsAssumption
       DEF GraphInv, ReturnedOnlyAtEnd, Frontier
  <2>2. state["report"] # Nothing
    BY <2>1 DEF Published, Nodes, Stages
  <2> QED  BY <2>2 DEF GraphInv, StageContents
<1> QED  BY <1>1, GraphInvariant, PTL

(* The metrics of a graph that returns name every agent.                   *)
THEOREM AllLatenciesReportedHolds == Spec => []AllLatenciesReported
<1>1. GraphInv => AllLatenciesReported
  BY AgentsAssumption
     DEF GraphInv, ReturnedOnlyAtEnd, Frontier, AllLatenciesReported
<1> QED  BY <1>1, GraphInvariant, PTL

(* A dossier is made only from a bundle that passed AgentBundle.           *)
THEOREM DossierIsValidatedHolds == Spec => []DossierIsValidated
<1>1. GraphInv => DossierIsValidated
  <2> SUFFICES ASSUME GraphInv, state["synthesis"] = "dossier"
               PROVE  \/ \A a \in Agents : state[a] # "malformed"
                      \/ candidate = "conforming"
    BY DEF DossierIsValidated
  <2>1. Conforms
    BY DEF GraphInv, StageContents
  <2> QED  BY <2>1 DEF Conforms
<1> QED  BY <1>1, GraphInvariant, PTL

=============================================================================
