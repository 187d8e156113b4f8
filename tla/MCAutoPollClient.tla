-------------------------- MODULE MCAutoPollClient --------------------------
(* Instances of AutoPollClient for model checking. *)
EXTENDS AutoPollClient

MCWorlds == {{}, {"drops"}, {"timeouts"}, Faults}
MCHurry == {{"hurry"}}
=============================================================================
