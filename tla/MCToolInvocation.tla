-------------------------- MODULE MCToolInvocation --------------------------
(* Instances of ToolInvocation for TLC. *)
EXTENDS ToolInvocation

\* Success, a retriable code, and a non-zero code the tool declares a success.
SomeEndings == {[zero |-> TRUE, class |-> Success], [zero |-> FALSE, class |-> TemporaryFail],
                [zero |-> FALSE, class |-> Success]}
=============================================================================
