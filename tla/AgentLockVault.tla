--------------------------- MODULE AgentLockVault ---------------------------
(***************************************************************************)
(* AgentLock implements Vault. An account is open while State::needs_unlock *)
(* is false for it; it is stray while the request that unlocked it will    *)
(* never restart the timer; a lock is due while the timer task, the tick   *)
(* channel or the loop has one on its way, or a request owes one.          *)
(***************************************************************************)
EXTENDS AgentLock

Nobody == "nobody"

open  == {a \in Accounts : Unlocked(a)}
stray == {a \in open : owed[a] \in {BySsh, Dropped}}
due   == LockPending \/ \E a \in Accounts : owed[a] \in Requests
shown == [r \in Requests |->
            IF At(r, "reply", {"decrypt", "ssh"}) THEN acct[r] ELSE Nobody]

Promise == INSTANCE Vault WITH Clients <- Requests

\* Every step of the agent is a step the promise allows, or none: keys come
\* into memory one account at a time and with a lock due, a lock of everything
\* takes them all, and secrets come out of open accounts only.
ImplementsVault == Promise!Spec
=============================================================================
