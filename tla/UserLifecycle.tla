--------------------------- MODULE UserLifecycle ---------------------------
(***************************************************************************)
(* What gw-admin promises about an API consumer, as apps/gateway_admin/    *)
(* README tabulates the users commands: every command takes effect at      *)
(* once, a key is good for one user and one stretch of time, and deletion  *)
(* is for ever.                                                            *)
(***************************************************************************)
EXTENDS Naturals

CONSTANTS Users, Keys

VARIABLES
    status,   \* per user: "none" before its creation
    key,      \* per user: the key whose hash is stored, 0 for none
    spent     \* every key that was ever stored

lifeVars == <<status, key, spent>>

LifeInit ==
    /\ status = [u \in Users |-> "none"]
    /\ key = [u \in Users |-> 0]
    /\ spent = {}

\* The user enters a status with a key nobody had before.
Issue(u, k, from, to) ==
    /\ status[u] \in from
    /\ k \notin spent \cup {0}
    /\ status' = [status EXCEPT ![u] = to]
    /\ key' = [key EXCEPT ![u] = k]
    /\ spent' = spent \cup {k}

Register(u, k) == Issue(u, k, {"none"}, "active")
Reactivate(u, k) == Issue(u, k, {"disabled"}, "active")
Rotate(u, k) == status[u] # "none" /\ Issue(u, k, {"active", "disabled"}, status[u])

Disable(u) ==
    /\ status[u] = "active"
    /\ status' = [status EXCEPT ![u] = "disabled"]
    /\ UNCHANGED <<key, spent>>

Delete(u) ==
    /\ status[u] \in {"active", "disabled"}
    /\ status' = [status EXCEPT ![u] = "deleted"]
    /\ key' = [key EXCEPT ![u] = 0]
    /\ UNCHANGED spent

LifeNext ==
    \E u \in Users :
        \/ Disable(u)
        \/ Delete(u)
        \/ \E k \in Keys : Register(u, k) \/ Reactivate(u, k) \/ Rotate(u, k)

LifeSpec == LifeInit /\ [][LifeNext]_lifeVars

-----------------------------------------------------------------------------
(* Consequences of the promise.                                            *)

\* A deleted user stays deleted and has no key.
DeletionIsFinal ==
    [][\A u \in Users :
        status[u] = "deleted" => status'[u] = "deleted" /\ key'[u] = key[u]]_lifeVars

\* A key opens the account of one user.
KeysAreOwn == \A u, v \in Users : key[u] = key[v] /\ key[u] # 0 => u = v

\* A key that was replaced or removed never comes back, to any user.
KeysNeverReturn ==
    [][\A u \in Users : key'[u] # key[u] => key'[u] \notin spent]_lifeVars
=============================================================================
