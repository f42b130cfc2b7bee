--------------------------- MODULE OperatorStream ---------------------------
(***************************************************************************)
(* What a row source promises whoever calls next() on it (operator.rs, and *)
(* RunReader::next_owned): the rows of its result, each once, in an order  *)
(* that respects Before, and None only when none is left.                  *)
(***************************************************************************)
CONSTANTS
    Row,     \* rows with an identity: two equal rows are two elements
    Before   \* pairs <<r, s>> of rows where r must come before s

VARIABLES
    todo,    \* rows of the result not yet delivered
    out,     \* the row the last call delivered
    done     \* the last call returned None

Init ==
    /\ todo \subseteq Row
    /\ out = {}
    /\ done = FALSE

Deliver(r) ==
    /\ r \in todo
    /\ \A s \in todo : <<s, r>> \notin Before
    /\ ~done
    /\ todo' = todo \ {r}
    /\ out' = {r}
    /\ UNCHANGED done

End ==
    /\ todo = {}
    /\ done' = TRUE
    /\ UNCHANGED <<todo, out>>

Next == End \/ \E r \in todo : Deliver(r)

Spec == Init /\ [][Next]_<<todo, out, done>>
=============================================================================
