---------------------------- MODULE MCNrfDriver ----------------------------
(***************************************************************************)
(* Two radios on one Pi, as on a board that runs two nodes, and two        *)
(* threads that may use either of them.                                    *)
(***************************************************************************)
EXTENDS NrfDriver, TLC

CONSTANTS t1, t2

MCThread == {t1, t2}
MCRadio == {0, 1}
=============================================================================
