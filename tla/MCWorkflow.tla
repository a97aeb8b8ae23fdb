----------------------------- MODULE MCWorkflow -----------------------------
(***************************************************************************)
(* The models of models/*.bpmn as constants of Workflow, and the bounds of *)
(* its runs.                                                               *)
(***************************************************************************)
EXTENDS Workflow, TLC

B == INSTANCE BpmnModel

Edge(a, b) == [src |-> a, dst |-> b, name |-> << >>]
Guarded(a, b, tokens) == [src |-> a, dst |-> b, name |-> tokens]
Condition(v, op, n) == <<[type |-> "VAR", value |-> v],
                         [type |-> "COMP", value |-> op],
                         [type |-> "NUM", value |-> n]>>

\* Graphs of one participant's lane, whose nodes but tasks come from others.
Solo(tasks, others, edges, variables) ==
    [type |-> [n \in {tasks[i] : i \in DOMAIN tasks} |-> "Task"] @@ others
              @@ [Start |-> "StartEvent", End |-> "EndEvent"],
     owner |-> [n \in {tasks[i] : i \in DOMAIN tasks} |-> 1],
     flow |-> edges, key |-> <<"k1">>, variables |-> variables,
     message |-> << >>, messageCount |-> 0, executables |-> tasks]

\* t1: three tasks in a row.
T1 ==
    Solo(<<"A", "B", "C">>, << >>,
         {Edge("Start", "A"), Edge("A", "B"), Edge("B", "C"), Edge("C", "End")},
         << >>)

\* The choices of t2 and t6 one after the other: the join of the exclusive one
\* is in front of the inclusive one, of one branch or both, and its join.
TwoChoices ==
    Solo(<<"A", "B", "C", "D", "E", "F">>,
         [n \in {"Split", "Join"} |-> "ExclusiveGateway"]
           @@ [n \in {"Fork", "Meet"} |-> "InclusiveGateway"],
         {Edge("Start", "A"), Edge("A", "Split"),
          Guarded("Split", "B", Condition("a", "==", 1)), Edge("B", "Join"),
          Guarded("Split", "C", Condition("a", "<", 1)), Edge("C", "Join"),
          Edge("Join", "Fork"),
          Guarded("Fork", "D", Condition("a", "==", 1)), Edge("D", "Meet"),
          Edge("Fork", "E"), Edge("E", "Meet"),
          Edge("Meet", "F"), Edge("F", "End")},
         <<"a">>)

\* t8: parallel splits and joins nested, the outer join in front of the end.
T8 ==
    Solo(<<"A", "D", "B", "C">>,
         [n \in {"Split", "Inner", "InnerJoin", "Join"} |-> "ParallelGateway"],
         {Edge("Start", "A"), Edge("A", "Split"), Edge("Split", "D"),
          Edge("Split", "Inner"), Edge("Inner", "C"), Edge("Inner", "B"),
          Edge("C", "InnerJoin"), Edge("B", "InnerJoin"),
          Edge("InnerJoin", "Join"), Edge("D", "Join"), Edge("Join", "End")},
         << >>)

\* Two lanes with a message as in t5: the first sends it after t3's split and join,
\* the second waits for it. They have one key, for the circuit knows no other.
TwoLanes ==
    [type |-> [n \in {"A", "B", "C", "E"} |-> "Task"]
              @@ [n \in {"Split", "Join"} |-> "ParallelGateway"]
              @@ [n \in {"StartA", "StartB"} |-> "StartEvent"]
              @@ [n \in {"EndA", "EndB"} |-> "EndEvent"]
              @@ [Throw |-> "IntermediateThrowEvent", Catch |-> "IntermediateCatchEvent"],
     owner |-> [n \in {"A", "B", "C", "Throw"} |-> 1] @@ [n \in {"Catch", "E"} |-> 2],
     flow |-> {Edge("StartA", "A"), Edge("A", "Split"), Edge("Split", "B"),
               Edge("Split", "C"), Edge("B", "Join"), Edge("C", "Join"),
               Edge("Join", "Throw"), Edge("Throw", "EndA"),
               Edge("StartB", "Catch"), Edge("Catch", "E"), Edge("E", "EndB")},
     key |-> <<"k1", "k1">>, variables |-> << >>,
     message |-> [n \in {"Throw", "Catch"} |-> 1], messageCount |-> 1,
     executables |-> <<"A", "Catch", "E", "B", "C", "Throw">>]

-----------------------------------------------------------------------------
\* The same as files.  The circuit's tables are what BuildGraph makes of them.

File(participants, messages, processes, ids) ==
    [participant |-> participants, messageFlow |-> messages,
     process |-> processes, ids |-> ids]

Tasks(names) == [i \in DOMAIN names |->
                   [id |-> names[i], type |-> "task", variables |-> << >>]]

\* A process without gateways and events between start and end.
Process(id, start, tasks, end, edges) ==
    [id |-> id, startEvent |-> <<start>>, endEvent |-> <<end>>, task |-> Tasks(tasks),
     catchEvent |-> << >>, throwEvent |-> << >>,
     exclusive |-> << >>, parallel |-> << >>, inclusive |-> << >>, flow |-> edges]

\* One process, of one participant.
SoloFile(process, ids) ==
    File(<<[process |-> process.id, key |-> "k1"]>>, << >>, <<process>>, ids)

T1File ==
    SoloFile(Process("p", "Start", <<"C", "A", "B">>, "End", T1.flow),
             <<"A", "B", "C", "End", "Start">>)

TwoChoicesFile ==
    SoloFile([Process("p", "Start", <<"A", "B", "C", "D", "E", "F">>, "End", TwoChoices.flow)
                EXCEPT !.task[1].variables = <<"a">>,
                       !.exclusive = <<"Split", "Join">>,
                       !.inclusive = <<"Fork", "Meet">>],
             <<"A", "B", "C", "D", "E", "End", "F", "Fork", "Join", "Meet", "Split",
               "Start">>)

T8File ==
    SoloFile([Process("p", "Start", <<"A", "B", "C", "D">>, "End", T8.flow)
                EXCEPT !.parallel = <<"Split", "Inner", "InnerJoin", "Join">>],
             <<"A", "B", "C", "D", "End", "Inner", "InnerJoin", "Join", "Split", "Start">>)

TwoLanesFile ==
    LET FlowOf(nodes) == {f \in TwoLanes.flow : {f.src, f.dst} \subseteq nodes}
        one == Process("p1", "StartA", <<"A", "B", "C">>, "EndA",
                       FlowOf({"StartA", "A", "Split", "B", "C", "Join", "Throw", "EndA"}))
        two == Process("p2", "StartB", <<"E">>, "EndB",
                       FlowOf({"StartB", "Catch", "E", "EndB"}))
    IN File(<<[process |-> "p1", key |-> "k1"], [process |-> "p2", key |-> "k1"]>>,
            <<[src |-> "Throw", dst |-> "Catch"]>>,
            <<[one EXCEPT !.throwEvent = <<"Throw">>, !.parallel = <<"Split", "Join">>],
              [two EXCEPT !.catchEvent = <<"Catch">>]>>,
            <<"A", "B", "C", "Catch", "E", "EndA", "EndB", "Join", "Split",
              "StartA", "StartB", "Throw">>)

BuiltFrom(graph, file) == B!Buildable(file) /\ graph = B!BuildGraph(file)

ASSUME T1Built         == BuiltFrom(T1, T1File)
ASSUME TwoChoicesBuilt == BuiltFrom(TwoChoices, TwoChoicesFile)
ASSUME T8Built         == BuiltFrom(T8, T8File)
ASSUME TwoLanesBuilt   == BuiltFrom(TwoLanes, TwoLanesFile)

-----------------------------------------------------------------------------
\* What fits into four bits, and what has more.
Nibbles    == 0..15
TwoNibbles == 0..255

\* Every pair of codes and of one that is none, for the full life of a task; the
\* first pass over the workflow, onward only, with a wrong move; and the same
\* with tasks that fail or are terminated.
AnyMove   == (0..11) \X (0..11)
FirstPass == {<<INACTIVE, READY>>, <<READY, ACTIVE>>, <<ACTIVE, COMPLETING>>,
              <<COMPLETING, COMPLETED>>, <<READY, COMPLETED>>}
Failing   == FirstPass \cup (InFlight \X {FAILING, TERMINATING})
              \cup {<<FAILING, FAILED>>, <<TERMINATING, FAILED>>,
                    <<TERMINATING, TERMINATED>>}

\* The pairs of the longest gateway-free starts of a graph's lanes.
Lanes ==
    LET Before(t) == IF IncomingNode(t) \in Executable THEN {IncomingNode(t)} ELSE {}
        pairs[k \in 0..Cardinality(Executable)] ==
          IF k = 0 THEN {<<a, b>> \in Executable \X Executable : a \in Before(b)}
          ELSE LET shorter == pairs[k - 1]
               IN shorter \cup UNION {{<<a, u[2]>> : a \in Before(u[1])} : u \in shorter}
        all == pairs[Cardinality(Executable)]
    IN {u \in all : \A s \in Executable : s = u[2] \/ <<s, u[2]>> \in all
                        => IsStartFed(s) \/ IncomingNode(s) \in Executable}
=============================================================================
