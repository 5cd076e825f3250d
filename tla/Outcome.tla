-------------------------------- MODULE Outcome --------------------------------
(***************************************************************************)
(* What a fallible operation of the code returns: Rust's Result and Option *)
(* reduced to what the properties tell apart.                              *)
(***************************************************************************)
EXTENDS Integers, Sequences

CONSTANTS NotFinite      \* a float that is infinite or NaN; the others count some unit

Ok(v)  == [ok |-> TRUE, value |-> v]
Err(e) == [ok |-> FALSE, error |-> e]
Refused == Err("refused")

\* The error an operation reports is that of its first failing check: checks
\* is a sequence of pairs <<condition, error>>.
Checked(checks, v) ==
    LET failing == {i \in DOMAIN checks : ~checks[i][1]}
    IN  IF failing = {} THEN Ok(v)
        ELSE Err(checks[CHOOSE i \in failing : \A j \in failing : i <= j][2])

\* The ? operator.
Then(r, F(_)) == IF r.ok THEN F(r.value) ELSE r

\* An iterator collected into a Result: the first error, or all the values.
Collected(results) ==
    LET failing == {i \in DOMAIN results : ~results[i].ok}
    IN  IF failing = {} THEN Ok([i \in DOMAIN results |-> results[i].value])
        ELSE results[CHOOSE i \in failing : \A j \in failing : i <= j]

CeilDiv(a, b) == (a + b - 1) \div b
================================================================================
