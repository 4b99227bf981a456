--------------------------- MODULE OneTimeTokens ---------------------------
(***************************************************************************)
(* What a table of single-use tokens promises, whatever it is made of: a   *)
(* token can be redeemed once, only while it is live, and a token that was *)
(* redeemed or lost never becomes live again.                              *)
(***************************************************************************)
CONSTANT Tokens

VARIABLES live, spent

vars == <<live, spent>>

Init == live = {} /\ spent = {}

\* Tokens are random: one that was live or spent before is not drawn again.
\* Issuing may make room by dropping other tokens.
Issue(t) ==
    /\ t \notin live \cup spent
    /\ live' \subseteq live \cup {t}
    /\ t \in live'
    /\ UNCHANGED spent

Redeem(t) ==
    /\ t \in live
    /\ live' = live \ {t}
    /\ spent' = spent \cup {t}

\* Expiry, eviction, a refused use, a restart.
Lose ==
    /\ live' \subseteq live
    /\ UNCHANGED spent

Next == Lose \/ \E t \in Tokens : Issue(t) \/ Redeem(t)

Spec == Init /\ [][Next]_vars
=============================================================================
