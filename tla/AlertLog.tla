------------------------------- MODULE AlertLog -------------------------------
(***************************************************************************)
(* What the alert feed promises a browser: alerts form one log, and what   *)
(* each connection has been sent is an unbroken stretch of that log, which *)
(* only ever grows at its end. Nothing is promised about where a stretch   *)
(* begins, nor that a connection is sent everything.                       *)
(***************************************************************************)
EXTENDS Sequences, Naturals

CONSTANTS Alerts, Conns

VARIABLES log, received

\* t is an unbroken stretch of the log s.
IsStretch(t, s) ==
    \E i \in 0 .. Len(s) :
        /\ i + Len(t) <= Len(s)
        /\ \A k \in 1 .. Len(t) : t[k] = s[i + k]

IsPrefixOf(t, s) == Len(t) <= Len(s) /\ \A k \in 1 .. Len(t) : t[k] = s[k]

Init ==
    /\ log = <<>>
    /\ received = [c \in Conns |-> <<>>]

\* An alert enters the log once.
Append1(a) ==
    /\ \A k \in 1 .. Len(log) : log[k] # a
    /\ log' = Append(log, a)
    /\ UNCHANGED received

\* One connection is sent the alerts that follow its stretch.
Extend(c) ==
    /\ Len(received'[c]) > Len(received[c])
    /\ IsPrefixOf(received[c], received'[c])
    /\ IsStretch(received'[c], log)
    /\ \A d \in Conns \ {c} : received'[d] = received[d]
    /\ UNCHANGED log

Next == (\E a \in Alerts : Append1(a)) \/ (\E c \in Conns : Extend(c))

Spec == Init /\ [][Next]_<<log, received>>

=============================================================================
