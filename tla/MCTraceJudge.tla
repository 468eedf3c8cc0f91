---------------------------- MODULE MCTraceJudge ----------------------------
(* Instances of TraceJudge for TLC.                                         *)
EXTENDS TraceJudge

Event(node, status, etype, input) ==
    [node |-> node, status |-> status, etype |-> etype, input |-> input]

MCLLM == {"llm_timeout"}
MCL2 == {"db_error"}

\* A root that failed, one that succeeded, a model call, a tool that failed.
MCEvents ==
    {Event("request", "error", "llm_timeout", TRUE),
     Event("request", "ok", "none", TRUE),
     Event("llm_call", "error", "llm_timeout", FALSE),
     Event("tool", "error", "db_error", FALSE)}

\* The traces fail in one way: with the root, or in a child.
MCFewEvents ==
    {Event("request", "error", "llm_timeout", TRUE),
     Event("llm_call", "error", "llm_timeout", FALSE)}
=============================================================================
