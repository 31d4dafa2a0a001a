-------------------------- MODULE MCContextAssembly --------------------------
(* ContextAssembly for TLC: requests with much, little and no room for     *)
(* what is personal, and what the searches find.                           *)
EXTENDS ContextAssembly

In(system, max, engines, history) ==
  [system |-> system, max |-> max, engines |-> engines, history |-> history]

(* 10 tokens of context, 4 of them for the completion unless max says so. *)
MixedInputs ==
  {In(4, 0, Engines, <<8, 3, 12>>),                           \* little room
   In(4, 1, {"user_profile"}, <<6>>),                         \* much room
   In(16, 7, {"user_profile"}, <<8>>),                        \* no room
   In(0, 12, {"knowledge"}, <<>>),                            \* max too large
   In(4, -2, {"user_profile"}, <<32, 8>>),                    \* max negative
   In(4, Odd, {}, <<6>>)}                                     \* max no number

ProfileInputs ==
  {In(4, 8, {"user_profile"}, <<>>), In(4, 1, {"user_profile"}, <<>>)}

SomeFindings == {<<>>, <<8, 5>>}

(* A failed call finds nothing; here an answer is two texts, or one with a  *)
(* content that is no text.                                                *)
AnyFindings == {<<8, 5>>, Odd}
=============================================================================
