-------------------------- MODULE MCProcessRunner ---------------------------
(* Small sets of processes for TLC.                                        *)
EXTENDS ProcessRunner

CONSTANTS h1, h2   \* handles

OneFd == {"out"}
BothFds == {"out", "err"}
True == {TRUE}
Both == {TRUE, FALSE}
=============================================================================
