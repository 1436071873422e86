---------------------------- MODULE WriteContract ----------------------------
(***************************************************************************)
(* What a client may conclude from the answer to a write, and nothing else *)
(* about how the proxy works.  A refused write has no effect, then or      *)
(* later; a completed write wrote the documents it counts and is over; an  *)
(* unknown outcome may have written some documents and may go on writing.  *)
(* No document is written twice by one statement.                          *)
(***************************************************************************)
EXTENDS Naturals, FiniteSets

CONSTANTS Statements, Documents

VARIABLES
    status,    \* new, pending, refused, done or unknown
    written,   \* statement -> the documents it wrote
    reported   \* statement -> the number of documents a completed write claims

vars == <<status, written, reported>>

Init ==
    /\ status = [s \in Statements |-> "new"]
    /\ written = [s \in Statements |-> {}]
    /\ reported = [s \in Statements |-> 0]

Begin(s) ==
    /\ status[s] = "new"
    /\ status' = [status EXCEPT ![s] = "pending"]
    /\ UNCHANGED <<written, reported>>

Refuse(s) ==
    /\ status[s] \in {"new", "pending"}
    /\ written[s] = {}
    /\ status' = [status EXCEPT ![s] = "refused"]
    /\ UNCHANGED <<written, reported>>

Write(s, d) ==
    /\ status[s] \in {"pending", "unknown"}
    /\ d \notin written[s]
    /\ written' = [written EXCEPT ![s] = @ \cup {d}]
    /\ UNCHANGED <<status, reported>>

Complete(s) ==
    /\ status[s] = "pending"
    /\ status' = [status EXCEPT ![s] = "done"]
    /\ reported' = [reported EXCEPT ![s] = Cardinality(written[s])]
    /\ UNCHANGED written

\* One statement loses its answer, or a crash takes several.
GiveUp(lost) ==
    /\ \A s \in lost : status[s] = "pending"
    /\ status' = [s \in Statements |-> IF s \in lost THEN "unknown" ELSE status[s]]
    /\ UNCHANGED <<written, reported>>

Next ==
    \/ \E s \in Statements :
          Begin(s) \/ Refuse(s) \/ Complete(s) \/ \E d \in Documents : Write(s, d)
    \/ \E lost \in SUBSET Statements : GiveUp(lost)

Spec == Init /\ [][Next]_vars

=============================================================================
