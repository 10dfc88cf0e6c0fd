---------------------------- MODULE MCIssueExec ----------------------------
(* IssueExec with the programs that meet in the pipeline: speculation past *)
(* memory accesses, multiplications among others, ordered operations only; *)
(* and the two that go wrong.                                              *)
EXTENDS IssueExec

Sound == {{"alu", "mem", "branch"}, {"alu", "muldiv", "branch"}, {"mem", "branch", "fence"}}
FenceMix == {{"alu", "fence"}}
MemoryMix == {{"mem", "muldiv"}}
=============================================================================
