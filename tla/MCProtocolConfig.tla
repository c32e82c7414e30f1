-------------------------- MODULE MCProtocolConfig --------------------------
(***************************************************************************)
(* Instances of ProtocolConfig for TLC.                                    *)
(***************************************************************************)
EXTENDS ProtocolConfigProperties
=============================================================================
