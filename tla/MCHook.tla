------------------------------- MODULE MCHook -------------------------------
(* Instances of Hook for model checking. *)
EXTENDS Hook

MCThreads == {"t1", "t2"}
MCNoSuspend == {"io"}
MCCallbacks == {"a", "b"}
MCMaxCalls == [a |-> 1, b |-> 0]
=============================================================================
