------------------------- MODULE MCSandboxReconciler -------------------------
(* Two runs of one submission; the second declares no protocol. *)
EXTENDS SandboxReconciler, TLC

CONSTANTS r1, r2, s1, fix, rest

MCRuns == {r1, r2}
MCSubmissions == {s1}
MCSubmissionOf == [r \in MCRuns |-> s1]
MCProtocols == {fix, rest}
MCDeclares == [r \in MCRuns |-> IF r = r1 THEN MCProtocols ELSE {}]

Symmetry == Permutations(MCProtocols)
=============================================================================
