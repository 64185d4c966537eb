-------------------------- MODULE ContentLifecycle --------------------------
(***************************************************************************)
(* What the artifact store promises, without its files, candidates, scans  *)
(* and locks.  Content is free until it is registered, then live; content  *)
(* that nothing is bound to may be condemned, registered or not, and is    *)
(* then gone for good: its hash is never live again.  The store takes the  *)
(* bytes away of nothing but what it condemned.                            *)
(***************************************************************************)
CONSTANTS Hash

VARIABLES
    life,       \* "FREE", "LIVE", "CONDEMNED" or "GONE"
    bound,      \* content that something is bound to
    present,    \* content whose bytes are whole and readable
    lost        \* content whose bytes something outside got at

lifecycleVars == <<life, bound, present, lost>>

Init ==
    /\ life = [h \in Hash |-> "FREE"]
    /\ bound = {}
    /\ present = {}
    /\ lost = {}

Store(h) ==
    /\ present' = present \cup {h}
    /\ UNCHANGED <<life, bound, lost>>

Register(h) ==
    /\ life[h] = "FREE"
    /\ h \in present \cup lost
    /\ life' = [life EXCEPT ![h] = "LIVE"]
    /\ UNCHANGED <<bound, present, lost>>

Bind(h) ==
    /\ life[h] = "LIVE"
    /\ bound' = bound \cup {h}
    /\ UNCHANGED <<life, present, lost>>

Condemn(h) ==
    /\ life[h] \in {"FREE", "LIVE"}
    /\ h \notin bound
    /\ life' = [life EXCEPT ![h] = "CONDEMNED"]
    /\ UNCHANGED <<bound, present, lost>>

Withdraw(h) ==
    /\ life[h] \in {"CONDEMNED", "GONE"}
    /\ present' = present \ {h}
    /\ UNCHANGED <<life, bound, lost>>

Forget(h) ==
    /\ life[h] = "CONDEMNED"
    /\ life' = [life EXCEPT ![h] = "GONE"]
    /\ UNCHANGED <<bound, present, lost>>

Lose(h) ==
    /\ present' = present \ {h}
    /\ lost' = lost \cup {h}
    /\ UNCHANGED <<life, bound>>

LifecycleNext ==
    \E h \in Hash : \/ Store(h) \/ Register(h) \/ Bind(h) \/ Condemn(h)
                    \/ Withdraw(h) \/ Forget(h) \/ Lose(h)

Spec == Init /\ [][LifecycleNext]_lifecycleVars
=============================================================================
