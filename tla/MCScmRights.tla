---------------------------- MODULE MCScmRights ----------------------------
(***************************************************************************)
(* Instance of ScmRights: two clients, one of which sends "pass" at once,  *)
(* and a go_serv with room for the descriptors of one connection.          *)
(***************************************************************************)
EXTENDS ScmRights

MCPayloads == {[c \in Conns |-> IF c = 1 THEN p ELSE "pass"] : p \in {"pass", "pa|ss", "other"}}
=============================================================================
