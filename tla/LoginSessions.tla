--------------------------- MODULE LoginSessions ----------------------------
(***************************************************************************)
(* What the token endpoints promise about a login: it has one accepted     *)
(* refresh token until it ends, every refresh replaces that token by one   *)
(* never handed out before, a login that has ended never comes back, and   *)
(* nothing but a refresh of its own changes the token of a login that goes *)
(* on.  A login is named by the first token it was given.                  *)
(***************************************************************************)

CONSTANT Tokens

VARIABLES
    handed,     \* the tokens that were ever given out
    accepted    \* the tokens of each login that can still be exchanged

vars == <<handed, accepted>>

Init ==
    /\ handed = {}
    /\ accepted = [l \in Tokens |-> {}]

HandOut(l, t) ==
    /\ t \notin handed
    /\ handed' = handed \cup {t}
    /\ accepted' = [accepted EXCEPT ![l] = {t}]

Begin(t) == HandOut(t, t)

Rotate(l, t) == accepted[l] # {} /\ HandOut(l, t)

\* Logouts, revocations, expiry and deleted accounts, of any number of logins.
End(ls) ==
    /\ accepted' = [l \in Tokens |-> IF l \in ls THEN {} ELSE accepted[l]]
    /\ UNCHANGED handed

Next ==
    \/ \E t \in Tokens : Begin(t)
    \/ \E l, t \in Tokens : Rotate(l, t)
    \/ \E ls \in SUBSET Tokens : End(ls)

Spec == Init /\ [][Next]_vars
=============================================================================
