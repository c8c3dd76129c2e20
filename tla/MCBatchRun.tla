----------------------------- MODULE MCBatchRun -----------------------------
(* Two characters, files of up to two, and a limit of six steps.            *)
EXTENDS BatchRun

CONSTANTS a, b

MCInputs == {<<a>>, <<b, a>>}

=============================================================================
