------------------------------ MODULE PureCalls ------------------------------
(***************************************************************************)
(* One call of a pure algorithm: what it is given, and its answer, which is  *)
(* compared with a definition that says what it should be.                   *)
(***************************************************************************)
CONSTANTS
  Calls,     \* the calls: records told apart by "of"
  Pending    \* no call, no answer yet

VARIABLES call, answer

callVars == <<call, answer>>

CallInit == call \in Calls /\ answer = Pending

Called(of) == call # Pending /\ answer = Pending /\ call.of = of

Answered(of) == call # Pending /\ answer # Pending /\ call.of = of

=============================================================================
