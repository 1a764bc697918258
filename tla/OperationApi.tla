---------------------------- MODULE OperationApi ----------------------------
(***************************************************************************)
(* What the operations API promises one consumer about one operation, as   *)
(* README and getting-started describe it: after the 202 the consumer      *)
(* polls until the operation is completed or failed, and that verdict is   *)
(* reached once.  Nobody else learns a status; GET tells others that the   *)
(* operation is not theirs.                                                *)
(*                                                                         *)
(* "expired" and "missing" promise nothing: they are also what is answered *)
(* for an id that was never handed out.                                    *)
(***************************************************************************)
CONSTANTS Operations, Consumers, None

VARIABLES
    owner,     \* the consumer that started the operation, or None
    verdict,   \* "open", then "completed" or "failed"
    told       \* statuses reported for an operation, per consumer

apiVars == <<owner, verdict, told>>

Tells(o, c, status) ==
    told' = [told EXCEPT ![o][c] = @ \cup {status}]

\* What a consumer may be told while the verdict is v.
Sayable(v) == {"expired"} \cup (IF v = "open" THEN {"pending"} ELSE {v})

ApiInit ==
    /\ owner = [o \in Operations |-> None]
    /\ verdict = [o \in Operations |-> "open"]
    /\ told = [o \in Operations |-> [c \in Consumers |-> {}]]

Submit(o, c) ==
    /\ owner[o] = None
    /\ owner' = [owner EXCEPT ![o] = c]
    /\ Tells(o, c, "pending")
    /\ UNCHANGED verdict

\* The verdict falls, and the response that carries it arrives or is lost.
Settle(o, v) ==
    /\ owner[o] # None
    /\ verdict[o] = "open"
    /\ verdict' = [verdict EXCEPT ![o] = v]
    /\ Tells(o, owner[o], v) \/ UNCHANGED told
    /\ UNCHANGED owner

\* The owner asks and is told the truth, or "expired".
Inform(o, c) ==
    /\ owner[o] = c
    /\ \E status \in Sayable(verdict[o]) : Tells(o, c, status)
    /\ UNCHANGED <<owner, verdict>>

\* Anybody may ask and be told "expired" or "missing".
Refuse(o, c) ==
    /\ Tells(o, c, "expired") \/ Tells(o, c, "missing")
    /\ UNCHANGED <<owner, verdict>>

\* Anybody else may ask and be told that the operation is not theirs.
Forbid(o, c) ==
    /\ owner[o] \notin {None, c}
    /\ Tells(o, c, "forbidden")
    /\ UNCHANGED <<owner, verdict>>

ApiNext ==
    \E o \in Operations :
        \/ \E c \in Consumers : Submit(o, c) \/ Inform(o, c) \/ Refuse(o, c)
                                 \/ Forbid(o, c)
        \/ \E v \in {"completed", "failed"} : Settle(o, v)

ApiSpec == ApiInit /\ [][ApiNext]_apiVars

-----------------------------------------------------------------------------
(* Consequences of the promise.                                            *)

\* The owner is never told both that the operation completed and that it
\* failed; the verdict told is the verdict reached.
OneVerdict ==
    \A o \in Operations, c \in Consumers :
        told[o][c] \cap {"completed", "failed"} \subseteq {verdict[o]}

\* Everyone but the owner hears a refusal at most, and whoever hears that an
\* operation is not theirs hears the truth.
OwnerOnly ==
    \A o \in Operations, c \in Consumers :
        /\ owner[o] # c => told[o][c] \subseteq {"expired", "missing", "forbidden"}
        /\ "forbidden" \in told[o][c] => owner[o] \notin {None, c}
=============================================================================
