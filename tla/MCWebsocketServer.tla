-------------------------- MODULE MCWebsocketServer --------------------------
(* Instances of WebsocketServer for model checking. *)
EXTENDS WebsocketServer

MCSockets == {1, 2}
MCWorlds == {{"http"}, {"overlaps"}, {"pipelines"}, {"leaves"}, {"asks"}, {"abrupt"},
             {"http", "leaves"}, {"shares"}, {"blocks"}, {"texts"}, {"idle"}}

(* A full executor needs three requests of one connection; two handshakes    *)
(* that overlap, or GetSystemState and one who comes or goes, need only one.  *)
MCMaxOpens == [w \in MCWorlds |-> IF "pipelines" \in w THEN 1 ELSE 2]
MCMaxRequests == [w \in MCWorlds |->
  IF "pipelines" \in w THEN 3 ELSE IF w \cap {"asks", "overlaps"} # {} THEN 1 ELSE 2]

(* Sockets are alike: the first connection is on socket 1. *)
FirstSocket == gen[2] > 0 => gen[1] > 0
==============================================================================
