----------------------------- MODULE MCAckPull -----------------------------
\* AckPull with two links and two of everything else.
EXTENDS AckPull

MCLinks == {1, 2}
MCAnswered == {1}
MCWorkers == {1, 2}
=============================================================================
