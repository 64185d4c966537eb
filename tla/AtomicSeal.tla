------------------------------ MODULE AtomicSeal ------------------------------
(***************************************************************************)
(* What the seal of a holdout promises, as if every transaction happened    *)
(* at the moment of its commit: without connections, locks, snapshots,      *)
(* roll-backs or a Calendar, with every guard true when its effect is seen. *)
(***************************************************************************)

CONSTANTS
    Holdout, Commitment, Evaluation,
    Covered,        \* the commitments whose label falls into a window
    Belongs,        \* those of the Run that a reservation holds out
    Apart,          \* pairs of reservations that may stand side by side
    Planned,        \* the Evaluations that an opening allows
    Development     \* those that have to be completed before it

VARIABLES reserved, opened, made, evaluation, seen, settled, trained

sealVars == <<reserved, opened, made, evaluation, seen, settled, trained>>

AtomicInit ==
    /\ reserved = {} /\ opened = {} /\ made = {}
    /\ evaluation = [e \in Evaluation |->
                        [state |-> "NONE", shape |-> "OTHER", members |-> {}]]
    /\ seen = {} /\ settled = {} /\ trained = {}

\* The window is clean: nothing is committed in it, nobody else has a part of it.
Reserve(h) ==
    /\ h \notin reserved
    /\ \A g \in reserved : <<g, h>> \in Apart
    /\ Covered[h] \cap made = {}
    /\ reserved' = reserved \cup {h}
    /\ UNCHANGED <<opened, made, evaluation, seen, settled, trained>>

Open(h) ==
    /\ h \in reserved \ opened
    /\ \A e \in Development[h] : evaluation[e].state = "COMPLETED"
    /\ opened' = opened \cup {h}
    /\ UNCHANGED <<reserved, made, evaluation, seen, settled, trained>>

Commit(c) ==
    /\ c \notin made
    /\ made' = made \cup {c}
    /\ UNCHANGED <<reserved, opened, evaluation, seen, settled, trained>>

\* No window holds the label of c back.
Released(c) ==
    \A h \in reserved : c \in Covered[h] => h \in opened /\ c \in Belongs[h]

Read(c) ==
    /\ c \in made
    /\ Released(c)
    /\ seen' = seen \cup {c}
    /\ UNCHANGED <<reserved, opened, made, evaluation, settled, trained>>

Settle(c) ==
    /\ c \in seen
    /\ Released(c)
    /\ settled' = settled \cup {c}
    /\ UNCHANGED <<reserved, opened, made, evaluation, seen, trained>>

-----------------------------------------------------------------------------
Protected(e) ==
    \E c \in evaluation[e].members, h \in reserved : c \in Covered[h]

Examine(e, shape, members) ==
    /\ evaluation[e].state = "NONE"
    /\ members \subseteq made
    /\ shape = "PLANNED" => \A h \in Holdout : e \in Planned[h] => members \subseteq Belongs[h]
    /\ evaluation' = [evaluation EXCEPT ![e] =
                          [state |-> "OPEN", shape |-> shape, members |-> members]]
    /\ UNCHANGED <<reserved, opened, made, seen, settled, trained>>

\* Every member has an Outcome, and a protected one is for the planned eyes.
Acquire(e) ==
    /\ evaluation[e].state = "OPEN"
    /\ evaluation[e].members \subseteq settled
    /\ \A c \in evaluation[e].members : Released(c)
    /\ Protected(e) => evaluation[e].shape = "PLANNED"
    /\ \A c \in evaluation[e].members, h \in reserved : c \in Covered[h] => e \in Planned[h]
    /\ evaluation' = [evaluation EXCEPT ![e].state = "INPUTS_ACQUIRED"]
    /\ UNCHANGED <<reserved, opened, made, seen, settled, trained>>

Complete(e) ==
    /\ evaluation[e].state = "INPUTS_ACQUIRED"
    /\ evaluation' = [evaluation EXCEPT ![e].state = "COMPLETED"]
    /\ UNCHANGED <<reserved, opened, made, seen, settled, trained>>

Train(e) ==
    /\ evaluation[e].state = "COMPLETED"
    /\ evaluation[e].shape # "PLANNED"
    /\ ~Protected(e)
    /\ trained' = trained \cup {e}
    /\ UNCHANGED <<reserved, opened, made, evaluation, seen, settled>>

AtomicNext ==
    \/ \E h \in Holdout : Reserve(h) \/ Open(h)
    \/ \E c \in Commitment : Commit(c) \/ Read(c) \/ Settle(c)
    \/ \E e \in Evaluation :
          \/ Acquire(e) \/ Complete(e) \/ Train(e)
          \/ \E shape \in {"PLANNED", "OTHER"}, members \in SUBSET Commitment :
                Examine(e, shape, members)

AtomicSpec == AtomicInit /\ [][AtomicNext]_sealVars
=============================================================================
