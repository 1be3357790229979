----------------------------- MODULE MC_Channel -----------------------------
(***************************************************************************)
(* Instances of Channel for TLC, one per cfg: the scripts the threads run  *)
(* are those of ChannelScenarios.                                          *)
(***************************************************************************)
EXTENDS Channel, ChannelScenarios

=============================================================================
