------------------------------- MODULE Vault -------------------------------
(***************************************************************************)
(* What rbw-agent promises to its clients about the keys it keeps, without *)
(* the requests, the timer task and the mutex by which it keeps it: a set  *)
(* of open accounts, an automatic lock that is due as long as one of them  *)
(* is open, and secrets that are only taken out of open accounts.          *)
(***************************************************************************)
CONSTANTS
  Accounts,
  Clients,
  Nobody       \* in place of an account: the client has been shown nothing

VARIABLES
  open,    \* accounts whose keys are in memory
  stray,   \* open accounts the automatic lock is not promised for
  due,     \* an automatic lock is on its way
  shown    \* shown[c]: the account whose secret client c is being handed

vaultVars == <<open, stray, due, shown>>

\* The promise of the automatic lock, kept by every step below.
Guarded == open \ stray # {} => due

Init ==
  /\ open = {} /\ stray = {}
  /\ due = FALSE
  /\ shown = [c \in Clients |-> Nobody]

\* A request that is served opens an account and owes it a lock.
Open(a) ==
  /\ open' = open \union {a}
  /\ stray' = stray \ {a}
  /\ due' = TRUE
  /\ UNCHANGED shown

\* A side door opens it without.
OpenStray(a) ==
  /\ open' = open \union {a}
  /\ stray' = stray \union {a}
  /\ Guarded'
  /\ UNCHANGED shown

\* Any use of the vault puts the lock off, for every account alike.
Renew ==
  /\ stray' = {}
  /\ due' = TRUE
  /\ UNCHANGED <<open, shown>>

Close(a) ==
  /\ open' = open \ {a}
  /\ stray' = stray \ {a}
  /\ Guarded'
  /\ UNCHANGED shown

\* The automatic lock, a lock of everything, a logout, the end of the agent.
CloseAll ==
  /\ open' = {} /\ stray' = {}
  /\ due' \in BOOLEAN
  /\ shown' \in {shown, [c \in Clients |-> Nobody]}

\* Only an open account has secrets to show.
Reveal(c, a) ==
  /\ a \in open
  /\ shown' = [shown EXCEPT ![c] = a]
  /\ UNCHANGED <<open, stray, due>>

\* The client takes its answer, or leaves and with it what it still owed.
Leave(c) ==
  /\ shown' = [shown EXCEPT ![c] = Nobody]
  /\ \E s \in SUBSET open : stray' = stray \union s
  /\ Guarded'
  /\ UNCHANGED open

\* The lock that was due has nothing left to lock, or a new one is set.
Reschedule ==
  /\ Guarded'
  /\ UNCHANGED <<open, stray, shown>>

Next ==
  \/ \E a \in Accounts : Open(a) \/ OpenStray(a) \/ Close(a)
  \/ \E c \in Clients : Leave(c) \/ \E a \in Accounts : Reveal(c, a)
  \/ Renew \/ CloseAll \/ Reschedule

Spec == Init /\ [][Next]_vaultVars
=============================================================================
