------------------------------- MODULE MCAjax -------------------------------
(* Instances of Ajax for TLC. *)
EXTENDS Ajax, TLC

CONSTANTS r1, r2, dom, p1, success, error, always, hook, c1, script

\* One request with every callback and one with none.
With(c) == r1 :> c @@ r2 :> Nothing
SuccessOf == With(success)
ErrorOf == With(error)
CompleteOf == With(always)
BeforeSendOf == With(hook)
=============================================================================
