------------------------------ MODULE BpmnModel ------------------------------
(***************************************************************************)
(* How pkg/model makes the graph of a BPMN file.  The file, as the XML     *)
(* decoder of pkg/model/bpmn leaves it, is a record defs:                  *)
(*   participant  sequence of [process, key] (processRef and publicKey)    *)
(*   messageFlow  sequence of [src, dst]                                   *)
(*   process      sequence of records with the process's id, its lists of  *)
(*                elements by kind, and its flow, a set of [src, dst, name]*)
(*   ids          the IDs in their order as strings                        *)
(***************************************************************************)
EXTENDS Naturals, Sequences, FiniteSets, SequencesExt, TLC

\* The place of the first element of a list with the property; 0 if there is none.
FirstIn(list, Has(_)) ==
    IF \E i \in DOMAIN list : Has(list[i])
    THEN CHOOSE i \in DOMAIN list :
            Has(list[i]) /\ \A j \in 1..(i - 1) : ~Has(list[j])
    ELSE 0

FindParticipantID(defs, id) ==
    LET IsOf(participant) == participant.process = id
    IN FirstIn(defs.participant, IsOf)

FindMessage(defs, node) ==
    LET Touches(message) == node \in {message.src, message.dst}
    IN FirstIn(defs.messageFlow, Touches)

OfType(ids, type) == [i \in DOMAIN ids |-> [id |-> ids[i], type |-> type]]

\* The nodes of one process, kind by kind, in the order they are added in.
NodesOf(p) ==
    OfType(p.startEvent, "StartEvent")
      \o [i \in DOMAIN p.task |->
            [id |-> p.task[i].id,
             type |-> IF p.task[i].type = "paymentTask" THEN "PaymentTask" ELSE "Task"]]
      \o OfType(p.endEvent, "EndEvent")
      \o OfType(p.catchEvent, "IntermediateCatchEvent")
      \o OfType(p.throwEvent, "IntermediateThrowEvent")
      \o OfType(p.exclusive, "ExclusiveGateway")
      \o OfType(p.parallel, "ParallelGateway")
      \o OfType(p.inclusive, "InclusiveGateway")

Owned == {"Task", "PaymentTask", "IntermediateCatchEvent", "IntermediateThrowEvent"}

VariablesOf(p) == FlattenSeq([i \in DOMAIN p.task |-> p.task[i].variables])

\* addNode and addNodeWithOwner: a second node with an ID is not added.
AddNode(types, node) == types @@ (node.id :> node.type)

\* One process of the file: its nodes, whose owner is the process's participant,
\* and those edges that have both ends already.
AddProcess(graph, defs, i) ==
    LET p == defs.process[i]
        types == FoldLeft(AddNode, graph.type, NodesOf(p))
        added == {n \in DOMAIN types \ DOMAIN graph.type : types[n] \in Owned}
        events == ToSet(p.catchEvent) \cup ToSet(p.throwEvent)
    IN [graph EXCEPT
          !.type = types,
          !.owner = @ @@ [n \in added |-> i],
          !.flow = @ \cup {f \in p.flow : {f.src, f.dst} \subseteq DOMAIN types},
          !.key[i] = defs.participant[FindParticipantID(defs, p.id)].key,
          !.variables = @ \o VariablesOf(p),
          !.message = @ @@ [e \in events |-> FindMessage(defs, e)]]

\* A participant without a process keeps the key Go gives it.
NoKey == "0"

NewBPMNGraph(defs) ==
    [type |-> << >>, owner |-> << >>, flow |-> {},
     key |-> [i \in DOMAIN defs.participant |-> NoKey],
     variables |-> << >>, message |-> << >>, messageCount |-> Len(defs.messageFlow),
     executables |-> << >>]

-----------------------------------------------------------------------------
\* The nodes that the breadth-first search of layerize has visited from a start
\* event when so many layers are done.
Visited(graph, start, layers) ==
    LET visited[k \in 0..layers] ==
          IF k = 0 THEN {start}
          ELSE {start} \cup UNION {{f.dst : f \in {f \in graph.flow : f.src = n}} :
                                      n \in visited[k - 1]}
    IN visited[layers]

GetStartNodes(graph) == {n \in DOMAIN graph.type : graph.type[n] = "StartEvent"}

\* The start events from which n is reached.
StartsOf(graph, n) ==
    {s \in GetStartNodes(graph) :
        n \in Visited(graph, s, Cardinality(DOMAIN graph.type))}

\* layerize: the layers done before n is visited.  A node that no start event
\* reaches is in layer 0; one that two reach is in the layer of whichever Go's
\* map order takes last, see Buildable.
Layer(graph, n) ==
    LET starts == StartsOf(graph, n)
    IN Cardinality({k \in 1..Cardinality(DOMAIN graph.type) :
                      \E s \in starts : n \notin Visited(graph, s, k)})

\* The executables by layers, and by ID in one layer. A PaymentTask is none.
GetExecutableNodes(graph, ids) ==
    LET executables ==
          {n \in DOMAIN graph.type :
              graph.type[n] \in
                 {"Task", "IntermediateCatchEvent", "IntermediateThrowEvent"}}
        layers == << >> @@ [n \in executables |-> Layer(graph, n)]
        rank == [n \in executables |-> CHOOSE k \in DOMAIN ids : ids[k] = n]
        Less(a, b) == layers[a] < layers[b] \/ (layers[a] = layers[b] /\ rank[a] < rank[b])
    IN SetToSortSeq(executables, Less)

-----------------------------------------------------------------------------
BuildGraph(defs) ==
    LET Add(graph, i) == AddProcess(graph, defs, i)
        graph == FoldLeft(Add, NewBPMNGraph(defs), [i \in DOMAIN defs.process |-> i])
    IN [graph EXCEPT !.executables = GetExecutableNodes(graph, defs.ids)]

\* BuildGraph ends in a panic when a process has no participant, an event no
\* message flow, or there are more processes than participants; and with two
\* start events in front of a task the order of the executables changes from
\* call to call.
Buildable(defs) ==
    /\ Len(defs.process) =< Len(defs.participant)
    /\ \A i \in DOMAIN defs.process :
          LET p == defs.process[i]
          IN /\ FindParticipantID(defs, p.id) # 0
             /\ \A e \in ToSet(p.catchEvent) \cup ToSet(p.throwEvent) :
                   FindMessage(defs, e) # 0
    /\ LET graph == BuildGraph(defs)
       IN \A t \in ToSet(graph.executables) : Cardinality(StartsOf(graph, t)) =< 1
=============================================================================
