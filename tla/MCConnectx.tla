----------------------------- MODULE MCConnectx -----------------------------
(***************************************************************************)
(* Instance of Connectx: one local address, two remote ones, a range of    *)
(* three ports of which the last is reserved.                              *)
(***************************************************************************)
EXTENDS Connectx

MCSource == [r \in Remotes |-> CHOOSE ip \in IPs : TRUE]
=============================================================================
