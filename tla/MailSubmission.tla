--------------------------- MODULE MailSubmission ---------------------------
(***************************************************************************)
(* What one CreateEvent that sends a mail can promise.  The invitation is  *)
(* handed over whole, with its final dot, or not at all, no more than      *)
(* once, and only to a server that has agreed to take it.  A failure means *)
(* that it was not handed over.  Success means that the server had agreed, *)
(* and no more: the invitation may have been accepted, refused, or never   *)
(* have left.  SmtpSession.tla is shown to implement this specification.   *)
(***************************************************************************)

VARIABLES
    status,  \* pending, done or failed
    message  \* kept; awaited, by a server that took the envelope; accepted;
             \* or lost, which is refused or on the way

vars == <<status, message>>

Init ==
    /\ status = "pending"
    /\ message = "kept"

Agree ==
    /\ status = "pending"
    /\ message = "kept"
    /\ message' = "awaited"
    /\ UNCHANGED status

HandOver ==
    /\ status = "pending"
    /\ message = "awaited"
    /\ message' \in {"accepted", "lost"}
    /\ UNCHANGED status

Succeed ==
    /\ status = "pending"
    /\ message # "kept"
    /\ status' = "done"
    /\ UNCHANGED message

Fail ==
    /\ status = "pending"
    /\ message \in {"kept", "awaited"}
    /\ status' = "failed"
    /\ UNCHANGED message

Next == Agree \/ HandOver \/ Succeed \/ Fail

Spec == Init /\ [][Next]_vars
=============================================================================
