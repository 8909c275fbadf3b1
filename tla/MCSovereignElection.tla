------------------------ MODULE MCSovereignElection ------------------------
(* Model-checking instance of SovereignElection.                                    *)
EXTENDS SovereignElection
=============================================================================
