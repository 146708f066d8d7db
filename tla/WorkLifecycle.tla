--------------------------- MODULE WorkLifecycle ---------------------------
(***************************************************************************)
(* What the production runtime promises about the works of one run,        *)
(* whatever processes, leases, journals and budgets bring it about: how a  *)
(* work moves, when an external request may leave and be forgotten, and    *)
(* what a stop and a published result forbid from then on.                 *)
(***************************************************************************)
EXTENDS Integers, FiniteSets

CONSTANTS
    Works,
    Capacity,       \* works that may be executed at once
    Reopenable      \* works whose failure may be taken up again

VARIABLES
    phase,          \* what became of each work
    pending,        \* a request of the work left and its outcome is unknown
    stopped,        \* the run was cancelled
    sealed          \* the run's result is published

lifecycle == <<phase, pending, stopped, sealed>>

(* A phase is new, open, busy, waiting, or one of these.                   *)
Ended == {"done", "failed", "cancelled"}

Init ==
    /\ phase = [w \in Works |-> "new"] /\ pending = [w \in Works |-> FALSE]
    /\ stopped = FALSE /\ sealed = FALSE

Busy == {w \in Works : phase[w] = "busy"}
Move(S, to) == phase' = [w \in Works |-> IF w \in S THEN to ELSE phase[w]]

(* A late work may be announced to a sealed run; it is never begun.        *)
Open(w) ==
    /\ phase[w] = "new" /\ ~stopped
    /\ Move({w}, "open")
    /\ UNCHANGED <<pending, stopped, sealed>>

(* An attempt starts only when every earlier request is settled.           *)
Begin(w) ==
    /\ phase[w] = "open" /\ ~stopped /\ ~sealed
    /\ ~pending[w] /\ Cardinality(Busy) < Capacity
    /\ Move({w}, "busy")
    /\ UNCHANGED <<pending, stopped, sealed>>

(* One request at a time leaves, and only from the attempt in charge.      *)
Send(w) ==
    /\ phase[w] = "busy" /\ ~pending[w]
    /\ pending' = [pending EXCEPT ![w] = TRUE]
    /\ UNCHANGED <<phase, stopped, sealed>>

(* An answer is taken whenever it comes.                                   *)
Learn(w) ==
    /\ pending[w]
    /\ pending' = [pending EXCEPT ![w] = FALSE]
    /\ UNCHANGED <<phase, stopped, sealed>>

Leave(w, to) ==
    /\ phase[w] = "busy" /\ ~stopped
    /\ Move({w}, to)
    /\ UNCHANGED <<pending, stopped, sealed>>

(* A resume takes up works together, when nothing runs or is unknown.      *)
Reopen(S) ==
    /\ ~stopped /\ ~sealed
    /\ \A w \in Works : phase[w] \notin {"open", "busy"} /\ ~pending[w]
    /\ \A w \in S : phase[w] = "waiting" \/ (phase[w] = "failed" /\ w \in Reopenable)
    /\ Move(S, "open")
    /\ UNCHANGED <<pending, stopped, sealed>>

Stop ==
    /\ stopped' = TRUE
    /\ UNCHANGED <<phase, pending, sealed>>

(* A cancellation closes works whose requests are proved to have stopped.  *)
Cancel(S) ==
    /\ stopped /\ \A w \in S : phase[w] \notin Ended \cup {"new"}
    /\ Move(S, "cancelled")
    /\ pending' = [w \in Works |-> pending[w] /\ w \notin S]
    /\ UNCHANGED <<stopped, sealed>>

Seal ==
    /\ \A w \in Works : phase[w] \in Ended \cup {"new"} /\ ~pending[w]
    /\ sealed' = TRUE
    /\ UNCHANGED <<phase, pending, stopped>>

Next ==
    \/ \E w \in Works : Open(w) \/ Begin(w) \/ Send(w) \/ Learn(w)
    \/ \E w \in Works : \E to \in {"waiting", "done", "failed"} : Leave(w, to)
    \/ \E S \in SUBSET Works : Reopen(S) \/ Cancel(S)
    \/ Stop \/ Seal

Spec == Init /\ [][Next]_lifecycle

=============================================================================
