---------------------------- MODULE ProcessGraph ----------------------------
(***************************************************************************)
(* The queries that the circuit and its clients make on the graph of a     *)
(* BPMN model.  Graph is a record, as BuildGraph of BpmnModel makes it:    *)
(*   type      node -> node type         (Node.Type)                       *)
(*   owner     executable -> participant (Node.Owner)                      *)
(*   flow      set of [src, dst, name]   (Edge; name is the token sequence *)
(*             of the expression on the edge, << >> when it has none)      *)
(*   key       public keys, one per participant (Participant.PublicKey)    *)
(*   variables sequence of variable names (BPMNGraph.Variables)            *)
(*   message   event -> message slot     (BPMNGraph.MessageMap)            *)
(*   messageCount  number of message slots                                 *)
(*   executables   what GetExecutableNodes answers, in its order           *)
(***************************************************************************)
EXTENDS Packing, FiniteSets

CONSTANT Graph

Node == DOMAIN Graph.type
Flow == Graph.flow
Participant == DOMAIN Graph.key

Message == 1..Graph.messageCount

\* The filter of GetExecutableNodes: a PaymentTask is not executable.
Executable ==
    {n \in Node : Graph.type[n] \in
        {"Task", "IntermediateCatchEvent", "IntermediateThrowEvent"}}

IsClusive(n) == Graph.type[n] \in {"ExclusiveGateway", "InclusiveGateway"}
Gateway == {n \in Node : Graph.type[n] = "ParallelGateway" \/ IsClusive(n)}

Incoming(n) == {f \in Flow : f.dst = n}
Outgoing(n) == {f \in Flow : f.src = n}

\* task.Incoming[0].SourceRef and task.Outgoing[0].TargetRef
IncomingNode(t) == (CHOOSE f \in Incoming(t) : TRUE).src
OutNode(t)      == (CHOOSE f \in Outgoing(t) : TRUE).dst

IsStartFed(t) == Graph.type[IncomingNode(t)] = "StartEvent"

StartNodes == {n \in Node : Graph.type[n] = "StartEvent"}

\* The executables in the order in which a state lists their numbers.
GetExecutableNodes == Graph.executables

\* indexOf, of an executable.
Place == [t \in Executable |->
             CHOOSE i \in 1..Len(GetExecutableNodes) : GetExecutableNodes[i] = t]

\* n and the gateways from which only gateways lead to it: the nodes that
\* traverse(n) of GetPreviousNodes visits.
Traversed(n) ==
    LET visited[k \in 0..Cardinality(Gateway)] ==
          IF k = 0 THEN {n}
          ELSE visited[k - 1] \cup
               {g \in Gateway : \E f \in Outgoing(g) : f.dst \in visited[k - 1]}
    IN visited[Cardinality(Gateway)]

GetPreviousNodes(n) ==
    {p \in Executable \cup StartNodes :
        \E f \in Outgoing(p) : f.dst \in Traversed(n)}

\* The pairs when the join is not followed backwards.
NoPairs(t) == {}

\* The other tasks that meet t at the gateway behind it; events do not count.
GetPairs(t) ==
    IF Graph.type[t] # "Task" THEN {}
    ELSE {p \in GetPreviousNodes(OutNode(t)) : p # t /\ Graph.type[p] = "Task"}

(***************************************************************************)
(* The models for which Circuit.Define runs to its end: elsewhere indexOf  *)
(* returns -1 and the index panics, the recursion does not stop, or the    *)
(* states do not fit into a number.                                        *)
(***************************************************************************)
GatewaysAcyclic ==
    \A g \in Gateway : \A f \in Outgoing(g) :
        f.dst \in Gateway => f.dst \notin Traversed(g)

\* The list has every executable once.
Listed ==
    /\ GetExecutableNodes \in Seq(Executable)
    /\ \A t \in Executable : \E i \in DOMAIN GetExecutableNodes :
          /\ GetExecutableNodes[i] = t
          /\ \A j \in DOMAIN GetExecutableNodes : GetExecutableNodes[j] = t => j = i
    /\ Len(GetExecutableNodes) =< MaxStates

WellFormed ==
    /\ IsFiniteSet(Node)
    /\ Listed
    /\ \A f \in Flow : {f.src, f.dst} \subseteq Node
    /\ \A t \in Executable :
          /\ \E f \in Flow : Incoming(t) = {f}
          /\ \E f \in Flow : Outgoing(t) = {f}
          /\ Graph.owner[t] \in Participant
          /\ Graph.type[t] # "Task" => Graph.message[t] \in Message
          /\ IncomingNode(t) \in Executable \cup Gateway \/ IsStartFed(t)
          /\ OutNode(t) \in Executable \cup Gateway
             \/ Graph.type[OutNode(t)] = "EndEvent"
    /\ \A g \in Gateway :
          /\ Incoming(g) # {} /\ Outgoing(g) # {}
          /\ \A f \in Incoming(g) : f.src \in Executable \cup Gateway
          /\ \A f \in Outgoing(g) :
                f.dst \in Executable \cup Gateway
                \/ (~IsClusive(g) /\ Graph.type[f.dst] = "EndEvent")
    /\ GatewaysAcyclic
=============================================================================
