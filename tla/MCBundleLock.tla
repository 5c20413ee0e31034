---------------------------- MODULE MCBundleLock ----------------------------
(* Instances of BundleLock for TLC. *)
EXTENDS BundleLock, TLC

\* One database_manager in each process, as in the HTTP server.
OnePerProcess == [m \in {"a", "b", "c"} |-> m]

\* workspace_service opens the next bundle before it closes the last one: two
\* managers in one process, both of the same bundle when the user opens it again.
TwoInOne == "a1" :> "a" @@ "a2" :> "a" @@ "b" :> "b"
=============================================================================
