--------------------------- MODULE MCRegistration ---------------------------
(* Two sessions of one operator over a few deployments.                    *)
EXTENDS Registration
=============================================================================
