----------------------------- MODULE MCApiStartup -----------------------------
(***************************************************************************)
(* ApiStartup with the numbers of main.go and values.yaml.                 *)
(***************************************************************************)
EXTENDS ApiStartup

\* A dependency that refuses connections at once.
RefusedAtOnce == {0}

\* A connect that may take a second before it fails (nats.Timeout allows five).
SlowConnect == {0, 1}
=============================================================================
