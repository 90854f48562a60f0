---------------------------- MODULE MCHttpCache ----------------------------
(* Answers for HttpCache: revalidate always, keep for a while, do not store. *)
EXTENDS HttpCache

MCPolicies == {[age |-> 0, store |-> TRUE], [age |-> 2, store |-> TRUE], [age |-> 0, store |-> FALSE]}
=============================================================================
