---------------------------- MODULE MCHotReload ----------------------------
(* Contents of every kind the start and the watcher tell apart.            *)
EXTENDS HotReload, TLC

File(text) == [readable |-> TRUE, large |-> FALSE, parses |-> TRUE, text |-> text]

\* All fields but the timeouts of the Kubernetes client.
Full == [k \in Fields \ ({"k8s"} \X {"connectTimeout", "requestTimeout"}) |-> DefaultConfig[k]]
Set(section, key, v) == <<section, key>> :> v

MCContent ==
  [full |-> File(Full),
   other |-> File(Set("k8s", "requestTimeout", 9) @@ Full),
   hasty |-> File(Set("k8s", "requestTimeout", 2) @@ Full),
   brief |-> File(Set("server", "port", 9443)),
   wrong |-> File(Set("server", "port", 0) @@ Full),
   large |-> [File(Full) EXCEPT !.large = TRUE],
   garbled |-> [File(<<>>) EXCEPT !.parses = FALSE],
   absent |-> [File(<<>>) EXCEPT !.readable = FALSE]]
MCFiles == DOMAIN MCContent
=============================================================================
