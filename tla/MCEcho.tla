------------------------------- MODULE MCEcho -------------------------------
(***************************************************************************)
(* Instance of EchoServers: the first client's burst is larger than all    *)
(* buffers of a connection together (UP + BUFFER_SIZE + DOWN), so that it  *)
(* meets full buffers on both ways; the second's is small.                 *)
(***************************************************************************)
EXTENDS EchoServers

MCBurstSz == [c \in Conns |-> IF c = 1 THEN UP + BUFFER_SIZE + DOWN + 1 ELSE 1]
=============================================================================
