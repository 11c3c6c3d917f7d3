------------------------------ MODULE LinkSession ------------------------------
(***************************************************************************)
(* What a PLC client promises about the one session it keeps open:         *)
(* a session is established only when the previous one has been closed, a  *)
(* session that works is never taken down by anything but a failed         *)
(* operation on it, and a failed session is closed before it is replaced.  *)
(***************************************************************************)

VARIABLE session    \* "none": nothing open; "good": in use; "failed": open, not usable

Init == session = "none"

Establish == session = "none" /\ session' = "good"

Fail == session = "good" /\ session' = "failed"

Close == session = "failed" /\ session' = "none"

Next == Establish \/ Fail \/ Close

Spec == Init /\ [][Next]_session
================================================================================
