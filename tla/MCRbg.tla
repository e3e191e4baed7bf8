-------------------------------- MODULE MCRbg --------------------------------
(* The instance of Rbg that TLC checks: its constants are in the cfg.       *)
EXTENDS Rbg

=============================================================================
