---------------------------- MODULE MCIOSession ----------------------------
(* A small instance of IOSession: two characters, batch texts of up to two  *)
(* characters, five characters accepted and five reads in a session.        *)
EXTENDS IOSession

CONSTANTS a, b

MCBatchTexts == {<<>>, <<a>>, <<a, b>>}

=============================================================================
