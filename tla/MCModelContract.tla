-------------------------- MODULE MCModelContract --------------------------
(***************************************************************************)
(* Small workflows for the runs of ModelContract.                          *)
(***************************************************************************)
EXTENDS ModelContract, TLC

B == INSTANCE BpmnModel

Edge(a, b) == [src |-> a, dst |-> b, name |-> << >>]

\* t9: two tasks in a row.
T9 ==
    [type |-> [A |-> "Task", B |-> "Task", Start |-> "StartEvent", End |-> "EndEvent"],
     owner |-> [A |-> 1, B |-> 1],
     flow |-> {Edge("Start", "A"), Edge("A", "B"), Edge("B", "End")},
     key |-> <<"k1">>, variables |-> << >>, message |-> << >>, messageCount |-> 0,
     executables |-> <<"A", "B">>]

\* t7: the payment task of the first participant is not executable; the second
\* participant has one task, and the same key.
T7 ==
    [type |-> [P |-> "PaymentTask", Start |-> "StartEvent", End |-> "EndEvent",
               A |-> "Task", StartA |-> "StartEvent", EndA |-> "EndEvent"],
     owner |-> [P |-> 1, A |-> 2],
     flow |-> {Edge("Start", "P"), Edge("P", "End"),
               Edge("StartA", "A"), Edge("A", "EndA")},
     key |-> <<"k1", "k1">>, variables |-> << >>, message |-> << >>, messageCount |-> 0,
     executables |-> <<"A">>]

-----------------------------------------------------------------------------
\* The same as files.

\* A process of a start event, tasks of one type and an end event.
Row(id, start, tasks, type, end, edges) ==
    [id |-> id, startEvent |-> <<start>>, endEvent |-> <<end>>,
     task |-> [i \in DOMAIN tasks |-> [id |-> tasks[i], type |-> type, variables |-> << >>]],
     catchEvent |-> << >>, throwEvent |-> << >>,
     exclusive |-> << >>, parallel |-> << >>, inclusive |-> << >>, flow |-> edges]

\* Every process has a participant, all with one key.
File(processes, ids) ==
    [participant |-> [i \in DOMAIN processes |-> [process |-> processes[i].id, key |-> "k1"]],
     messageFlow |-> << >>, process |-> processes, ids |-> ids]

T9File == File(<<Row("p", "Start", <<"A", "B">>, "task", "End", T9.flow)>>,
               <<"A", "B", "End", "Start">>)

T7File ==
    LET FlowOf(nodes) == {f \in T7.flow : {f.src, f.dst} \subseteq nodes}
    IN File(<<Row("p1", "Start", <<"P">>, "paymentTask", "End", FlowOf({"Start", "P", "End"})),
              Row("p2", "StartA", <<"A">>, "task", "EndA", FlowOf({"StartA", "A", "EndA"}))>>,
            <<"A", "End", "EndA", "P", "Start", "StartA">>)

BuiltFrom(graph, file) == B!Buildable(file) /\ graph = B!BuildGraph(file)

ASSUME T7Built == BuiltFrom(T7, T7File)
ASSUME T9Built == BuiltFrom(T9, T9File)

-----------------------------------------------------------------------------
\* What fits into four bits, and the moves with which a task hands over to the
\* next, and the last one alone.
Nibbles  == 0..15
HandOver == {<<0, 1>>, <<3, 10>>}
LastMove == {<<3, 10>>}
T9Lane == {<<"A", "B">>}
Clients == Permutations(Client)
=============================================================================
