----------------------------- MODULE Lifecycle -----------------------------
(***************************************************************************)
(* What the regression loop promises about an error, without tables,       *)
(* acknowledgements, results or transactions.  An error that recurs after  *)
(* it was fixed is a new case of its key; until then it is one case, that  *)
(* is open, is put to the test, and comes out of the test fixed or open.   *)
(* Nothing else fixes a case, and nothing ever reopens a fixed one.        *)
(***************************************************************************)
EXTENDS Sequences, Naturals

CONSTANT Keys

VARIABLE cases      \* in the order they were opened: [key, state]

States == {"open", "tested", "fixed"}

Init == cases = <<>>

Opened(key) ==
    /\ \A c \in DOMAIN cases : cases[c].key = key => cases[c].state = "fixed"
    /\ cases' = Append(cases, [key |-> key, state |-> "open"])

Tested(c) ==
    /\ cases[c].state = "open"
    /\ cases' = [cases EXCEPT ![c].state = "tested"]

\* One judgement may conclude the tests of several cases.
Concluded(passed, failed) ==
    /\ passed \cap failed = {}
    /\ \A c \in passed \cup failed : cases[c].state = "tested"
    /\ cases' = [c \in DOMAIN cases |->
           IF c \in passed THEN [cases[c] EXCEPT !.state = "fixed"]
           ELSE IF c \in failed THEN [cases[c] EXCEPT !.state = "open"]
           ELSE cases[c]]

Next ==
    \/ \E key \in Keys : Opened(key)
    \/ \E c \in DOMAIN cases : Tested(c)
    \/ \E passed, failed \in SUBSET DOMAIN cases : Concluded(passed, failed)

Spec == Init /\ [][Next]_cases
=============================================================================
