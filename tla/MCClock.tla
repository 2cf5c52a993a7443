------------------------------ MODULE MCClock ------------------------------
(***************************************************************************)
(* The instances of MCRstp with the clock of RstpClock: that of            *)
(* RstpFrames.cfg times the one bridge it has.                             *)
(***************************************************************************)
EXTENDS RstpClock, MCRstp

=============================================================================
