---------------------------- MODULE MCProbePage ----------------------------
EXTENDS ProbePage

\* Fail for ever and fail twice; with the flag, fail once.
Links == {-1, 2}
=============================================================================
