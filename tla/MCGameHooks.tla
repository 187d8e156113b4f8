----------------------------- MODULE MCGameHooks -----------------------------
(* Instances of GameHooks for model checking. *)
EXTENDS GameHooks

MCWorlds == SUBSET {"late", "repeat", "exit", "step"}
              \cup {{"idle"}, {"idle", "exit"}, {"fails"}, {"fails", "exit"}}
==============================================================================
