------------------------ MODULE SubmissionLifecycle ------------------------
(***************************************************************************)
(* What a submission promises, without saying how it is graded: its row is *)
(* created pending, the grader writes at most one verdict into it, and the *)
(* administrator may edit or delete it at any time. A deleted row is back  *)
(* only by the report of a failed check or by an administrator who read it *)
(* before it was deleted.                                                  *)
(*                                                                         *)
(* SubmissionCheck is the detailed specification that implements this one. *)
(***************************************************************************)

CONSTANT Subs

VARIABLES
    status,     \* status[s]: the status column of the row, or "absent"
    edited,     \* edited[s]: the last write to the row was the administrator's
    held,       \* the rows an administrator has read to save them as a whole
    phase       \* phase[s]: what the grader may still do to the row

vars == <<status, edited, held, phase>>

Verdicts == {"accepted", "rejected", "error"}
Statuses == {"pending"} \union Verdicts

(* "open" is the only phase in which the grader may write, and every write *)
(* of the grader leaves it.                                                *)
Phases == {"unborn", "open", "closed"}

Init ==
    /\ status = [s \in Subs |-> "absent"]
    /\ edited = [s \in Subs |-> FALSE]
    /\ held = {}
    /\ phase = [s \in Subs |-> "unborn"]

(* A submission whose request fails after the insert is never graded.      *)
Submit(s) ==
    /\ phase[s] = "unborn"
    /\ status' = [status EXCEPT ![s] = "pending"]
    /\ \E next \in {"open", "closed"} : phase' = [phase EXCEPT ![s] = next]
    /\ UNCHANGED <<edited, held>>

Write(s, v) ==
    /\ phase[s] = "open"
    /\ status' = [status EXCEPT ![s] = v]
    /\ edited' = [edited EXCEPT ![s] = FALSE]
    /\ phase' = [phase EXCEPT ![s] = "closed"]
    /\ UNCHANGED held

Decide(s) == status[s] # "absent" /\ \E v \in Verdicts : Write(s, v)

(* The report of a failed check is a full save, which inserts the row      *)
(* again when somebody deleted it in the meantime.                         *)
Revive(s) == status[s] = "absent" /\ Write(s, "error")

Abandon(s) ==
    /\ phase[s] = "open"
    /\ phase' = [phase EXCEPT ![s] = "closed"]
    /\ UNCHANGED <<status, edited, held>>

Edit(S) ==
    /\ \A s \in S : status[s] # "absent"
    /\ \E st \in [S -> Statuses] :
          status' = [s \in Subs |-> IF s \in S THEN st[s] ELSE status[s]]
    /\ edited' = [s \in Subs |-> s \in S \/ edited[s]]
    /\ UNCHANGED <<held, phase>>

(* An administrator who saves a row as a whole read it first. What was     *)
(* deleted in between may be back after the save, or the save is refused.  *)
Hold(s) ==
    /\ status[s] # "absent"
    /\ held' = held \union {s}
    /\ UNCHANGED <<status, edited, phase>>

PutBack(s) ==
    /\ s \in held
    /\ held' = held \ {s}
    /\ \/ /\ \E st \in Statuses : status' = [status EXCEPT ![s] = st]
          /\ edited' = [edited EXCEPT ![s] = TRUE]
       \/ UNCHANGED <<status, edited>>
    /\ UNCHANGED phase

Remove(S) ==
    /\ status' = [s \in Subs |-> IF s \in S THEN "absent" ELSE status[s]]
    /\ edited' = [s \in Subs |-> s \notin S /\ edited[s]]
    /\ UNCHANGED <<held, phase>>

Next ==
    \/ \E s \in Subs : Submit(s) \/ Decide(s) \/ Revive(s) \/ Abandon(s)
                      \/ Hold(s) \/ PutBack(s)
    \/ \E S \in SUBSET Subs : Edit(S) \/ Remove(S)

Spec == Init /\ [][Next]_vars

=============================================================================
