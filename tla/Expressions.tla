---------------------------- MODULE Expressions ----------------------------
(***************************************************************************)
(* The conditions on sequence flows, as pkg/circuits/expressions evaluates *)
(* them inside the circuit.  An expression is the token sequence Tokenizer *)
(* makes of the flow's name: records [type, value] with type VAR, NUM, OP  *)
(* or COMP.  Arithmetic is that of the field of FieldPrime elements.       *)
(***************************************************************************)
EXTENDS ProcessGraph, Integers

CONSTANT FieldPrime

Field == 0..(FieldPrime - 1)

Slot == 1..Len(Graph.variables)

\* NewZkWFProgram leaves the map of the compiled circuit nil, and a nil Go map
\* answers 0 for every name: each variable is read from the first slot.
VariableMapping == [name \in {Graph.variables[i] : i \in Slot} |-> 1]

Operand(token, values) ==
    IF token.type = "VAR" THEN values[VariableMapping[token.value]]
                          ELSE token.value % FieldPrime

\* A single token is its own value.  In a longer sequence operands pile up in
\* current, an operator moves them into the result, and what follows the last
\* operator is left behind in current.
CalculateValue(tokens, values) ==
    LET n == Len(tokens)
        sum[i \in 0..n] ==
          IF i = 0 THEN [result |-> 0, current |-> 0]
          ELSE LET s == sum[i - 1]
                   tok == tokens[i]
               IN CASE tok.type = "OP" /\ tok.value = "+" ->
                         [result |-> (s.result + s.current) % FieldPrime, current |-> 0]
                    [] tok.type = "OP" /\ tok.value = "-" ->
                         [result |-> (s.result - s.current) % FieldPrime, current |-> 0]
                    [] OTHER ->
                         [s EXCEPT !.current = (@ + Operand(tok, values)) % FieldPrime]
    IN CASE n = 1 /\ tokens[1].type \in {"VAR", "NUM"} -> Operand(tokens[1], values)
         [] n = 1 /\ tokens[1].type \notin {"VAR", "NUM"} -> 0
         [] OTHER -> sum[n].result

Compare(op, left, right) ==
    CASE op = "==" -> left = right
      [] op = "!=" -> left # right
      [] op = "<"  -> left < right
      [] op = ">"  -> left > right
      [] op = "<=" -> left =< right
      [] op = ">=" -> left >= right

\* The first comparator splits the expression; without one the program exits.
EvaluateExpression(tokens, values) ==
    LET comp == CHOOSE i \in 1..Len(tokens) :
                    /\ tokens[i].type = "COMP"
                    /\ \A j \in 1..(i - 1) : tokens[j].type # "COMP"
    IN Compare(tokens[comp].value,
               CalculateValue(SubSeq(tokens, 1, comp - 1), values),
               CalculateValue(SubSeq(tokens, comp + 1, Len(tokens)), values))
=============================================================================
