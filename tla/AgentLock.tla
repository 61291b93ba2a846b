----------------------------- MODULE AgentLock -----------------------------
(***************************************************************************)
(* The key cache of rbw-agent and its automatic lock: the per-account key  *)
(* slots of State (state.rs), the Timeout task with its request channel    *)
(* and tick channel (timeout.rs), the event loop of Agent::run, and the    *)
(* request tasks it spawns (agent.rs, actions.rs) together with the two    *)
(* other doors to the same state, the ssh agent and the remote API.        *)
(*                                                                         *)
(* One step is what runs between two points where the code gives up        *)
(* control: an acquisition of the state mutex, an answer of the network,   *)
(* of pinentry or of the client, a channel operation.                      *)
(***************************************************************************)
EXTENDS Integers, Sequences, FiniteSets

CONSTANTS
  Accounts,       \* configured accounts
  Primary,        \* the primary account, the only one the ssh agent serves
  Requests,       \* task slots: requests that can be in flight at once
  Kinds,          \* the kinds of request the clients send
  PromptsExpire,  \* pinentry.timeout > 0: an unanswered prompt is dismissed
  Budget          \* bound: requests, server logouts and exits of a behaviour

SocketKinds == {"unlock", "login", "check", "lock", "lock_all", "sync",
                "decrypt", "other", "org", "rekey"}
AllKinds    == SocketKinds \union {"remote", "ssh"}

\* Marks of the history variable owed, next to the request that owes.
Settled == "settled"
BySsh   == "ssh"
Dropped == "dropped"
Free    == "free"

\* A name with an underscore is a slip in the operator that follows it, which
\* the runs must notice; no other definition uses it.

ASSUME AccountsAssumption == Primary \in Accounts
ASSUME RequestsAssumption == Requests \intersect {Settled, BySsh, Dropped, Free} = {}
ASSUME KindsAssumption    == Kinds \subseteq AllKinds
ASSUME BudgetAssumption   == Budget \in Nat
ASSUME PromptsAssumption  == PromptsExpire \in BOOLEAN

VARIABLES
  keys,       \* keys[a]: which parts of the key material of a are in memory
  timerReqs,  \* requests to the timer task, not yet read by it
  timer,      \* "set": the timer task has a sleep running; "clear": none
  ticks,      \* expiries sent to the agent and not yet read by its loop
  loop,       \* the event the agent's loop has taken and not yet applied
  mutex,      \* the request that keeps State locked across a prompt
  kind, acct, pc, attempt,  \* per request: what it is and where it stands
  owed,       \* history: who still owes the timer for the unlock of a
  budget

timerVars == <<timerReqs, timer, ticks>>
reqVars   == <<kind, acct, pc, attempt>>
vars == <<keys, timerReqs, timer, ticks, loop, mutex, kind, acct, pc,
          attempt, owed, budget>>

\* priv_key, org_keys and rsa_private_key of State.
KeyParts == {"priv", "org", "rsa"}

PCs == {"idle", "check", "prompt", "fetch", "refresh", "install", "use",
        "reprompt", "lock", "rekey", "reply", "finish", "touch", "arm"}

TypeOK ==
  /\ keys \in [Accounts -> SUBSET KeyParts]
  /\ timerReqs \in Seq({"set", "clear"})
  /\ timer \in {"set", "clear"}
  /\ ticks \in Nat
  /\ loop \in {"select", "timeout", "logout"}
  /\ mutex \in Requests \union {Free}
  /\ kind \in [Requests -> AllKinds]
  /\ acct \in [Requests -> Accounts]
  /\ pc \in [Requests -> PCs]
  /\ attempt \in [Requests -> 0..3]
  /\ owed \in [Accounts -> Requests \union {Settled, BySsh, Dropped}]
  /\ budget \in 0..Budget

----------------------------------------------------------------------------
(* State (state.rs). All of these run with the mutex held.                 *)

NeedsUnlock(a) == ~({"priv", "org"} \subseteq keys[a])
Unlocked(a)    == ~NeedsUnlock(a)

\* State::set_unlocked
SetUnlocked(a) == keys' = [keys EXCEPT ![a] = KeyParts]

RefreshOrgKeys_AnyTime(a) ==
  \/ keys' = [keys EXCEPT ![a] = @ \union {"org"}]
  \/ UNCHANGED keys

\* State::refresh_org_keys; the new org keys may not decrypt.
RefreshOrgKeys(a) ==
  \/ "rsa" \in keys[a] /\ keys' = [keys EXCEPT ![a] = @ \union {"org"}]
  \/ UNCHANGED keys

\* State::set_timeout. It restarts the one timer of all accounts, so nobody
\* owes it any more.
SetTimeout ==
  /\ timerReqs' = Append(timerReqs, "set")
  /\ owed' = [a \in Accounts |-> Settled]

\* State::clear
Clear ==
  /\ keys' = [a \in Accounts |-> {}]
  /\ timerReqs' = Append(timerReqs, "clear")
  /\ owed' = [a \in Accounts |-> Settled]

ClearAccount_StopsTimer(a) ==
  /\ keys' = [keys EXCEPT ![a] = {}]
  /\ owed' = [owed EXCEPT ![a] = Settled]
  /\ timerReqs' = Append(timerReqs, "clear")

\* State::clear_account: the timer is left running for the others.
ClearAccount(a) ==
  /\ keys' = [keys EXCEPT ![a] = {}]
  /\ owed' = [owed EXCEPT ![a] = Settled]
  /\ UNCHANGED timerReqs

----------------------------------------------------------------------------
Init ==
  /\ keys = [a \in Accounts |-> {}]
  /\ timerReqs = <<>>
  /\ timer = "clear"
  /\ ticks = 0
  /\ loop = "select"
  /\ mutex = Free
  /\ kind = [r \in Requests |-> "check"]
  /\ acct = [r \in Requests |-> Primary]
  /\ pc = [r \in Requests |-> "idle"]
  /\ attempt = [r \in Requests |-> 0]
  /\ owed = [a \in Accounts |-> Settled]
  /\ budget = Budget

Goto(r, step) == pc' = [pc EXCEPT ![r] = step]

\* The handler ends; what it still owed nobody will pay.
Abandon(r) ==
  /\ Goto(r, "idle")
  /\ owed' = [a \in Accounts |-> IF owed[a] = r THEN Dropped ELSE owed[a]]

----------------------------------------------------------------------------
(* The timer task (timeout.rs).                                            *)

TimerRequest ==
  /\ timerReqs # <<>>
  /\ timer' = Head(timerReqs)
  /\ timerReqs' = Tail(timerReqs)
  /\ UNCHANGED <<keys, ticks, loop, mutex, kind, acct, pc, attempt, owed, budget>>

\* The sleep has elapsed. StreamMap polls its streams in random order, so a
\* request that is already queued may be read after the expiry.
TimerFire ==
  /\ timer = "set"
  /\ timer' = "clear"
  /\ ticks' = ticks + 1
  /\ UNCHANGED <<keys, timerReqs, loop, mutex, kind, acct, pc, attempt, owed, budget>>

----------------------------------------------------------------------------
(* The loop of Agent::run. It applies an event before it takes another, and *)
(* waits for the mutex inline: meanwhile it accepts no connection.         *)

TakeTimeout ==
  /\ loop = "select"
  /\ ticks > 0
  /\ ticks' = ticks - 1
  /\ loop' = "timeout"
  /\ UNCHANGED <<keys, timerReqs, timer, mutex, kind, acct, pc, attempt, owed, budget>>

\* The server pushed a logout notification.
TakeLogout ==
  /\ loop = "select"
  /\ budget > 0
  /\ budget' = budget - 1
  /\ loop' = "logout"
  /\ UNCHANGED <<keys, timerReqs, timer, ticks, mutex, kind, acct, pc, attempt, owed>>

ApplyClear_TryLock ==
  /\ loop # "select"
  /\ IF mutex = Free THEN Clear ELSE UNCHANGED <<keys, timerReqs, owed>>
  /\ loop' = "select"
  /\ UNCHANGED <<timer, ticks, mutex, kind, acct, pc, attempt, budget>>

ApplyClear ==
  /\ loop # "select"
  /\ mutex = Free
  /\ Clear
  /\ loop' = "select"
  /\ UNCHANGED <<timer, ticks, mutex, kind, acct, pc, attempt, budget>>

FirstStep(k) ==
  CASE k \in {"unlock", "check", "login", "remote"} -> "check"
    [] k \in {"lock", "lock_all"} -> "lock"
    [] k \in {"sync", "org"} -> "fetch"
    [] k = "decrypt" -> "use"
    [] k = "rekey"   -> "rekey"
    [] k = "ssh"     -> "touch"
    [] OTHER         -> "reply"

\* A connection is accepted and its request read. The ssh agent and the
\* remote API have listeners of their own.
Accept(r, k, a) ==
  /\ pc[r] = "idle"
  /\ budget > 0
  /\ k \in SocketKinds => loop = "select"
  /\ k = "ssh" => a = Primary
  /\ budget' = budget - 1
  /\ kind' = [kind EXCEPT ![r] = k]
  /\ acct' = [acct EXCEPT ![r] = a]
  /\ attempt' = [attempt EXCEPT ![r] = 0]
  /\ Goto(r, FirstStep(k))
  /\ UNCHANGED <<keys, timerReqs, timer, ticks, loop, mutex, owed>>

\* Action::Quit or a signal: the process ends, the next command starts
\* another agent, with nothing in memory.
Exit ==
  /\ budget > 0
  /\ budget' = budget - 1
  /\ keys' = [a \in Accounts |-> {}]
  /\ timerReqs' = <<>>
  /\ timer' = "clear"
  /\ ticks' = 0
  /\ loop' = "select"
  /\ mutex' = Free
  /\ pc' = [r \in Requests |-> "idle"]
  /\ owed' = [a \in Accounts |-> Settled]
  /\ UNCHANGED <<kind, acct, attempt>>

----------------------------------------------------------------------------
(* Request tasks (handle_request, dispatch and the handlers of actions.rs). *)

At(r, step, kinds) == pc[r] = step /\ kind[r] \in kinds

\* dispatch: the kinds after which handle_request restarts the timer. "org"
\* are the requests that end with a sync (purge_vault, create_org, delete_org),
\* "other" those that leave the keys alone.
SetsTimeout_NotLogin == {"unlock", "decrypt", "other", "org", "rekey"}
SetsTimeout == {"unlock", "login", "decrypt", "other", "org", "rekey"}

\* What follows once the account is unlocked. The ssh agent has restarted the
\* timer before; the remote API restarts it itself.
AfterUnlock(k) ==
  CASE k = "remote" -> "arm"
    [] k = "ssh"    -> "use"
    [] OTHER        -> "reply"

CheckLock(r) ==
  /\ At(r, "check", {"check"})
  /\ mutex = Free
  /\ Goto(r, IF NeedsUnlock(acct[r]) THEN "idle" ELSE "reply")
  /\ UNCHANGED <<keys, timerVars, loop, mutex, kind, acct, attempt, owed, budget>>

\* The lock is dropped between this look at the keys and Install.
StartUnlock(r) ==
  /\ At(r, "check", {"unlock", "remote", "ssh"})
  /\ mutex = Free
  /\ IF NeedsUnlock(acct[r])
       THEN Goto(r, "prompt") /\ attempt' = [attempt EXCEPT ![r] = 1]
       ELSE Goto(r, AfterUnlock(kind[r])) /\ UNCHANGED attempt
  /\ UNCHANGED <<keys, timerVars, loop, mutex, kind, acct, owed, budget>>

\* Whether the local db still holds tokens is not state of this module.
StartLogin(r) ==
  /\ At(r, "check", {"login"})
  /\ \/ Goto(r, "prompt") /\ attempt' = [attempt EXCEPT ![r] = 1]
     \/ Goto(r, "reply") /\ UNCHANGED attempt
  /\ UNCHANGED <<keys, timerVars, loop, mutex, kind, acct, owed, budget>>

PasswordAccepted(r) ==
  /\ pc[r] = "prompt"
  /\ Goto(r, IF kind[r] = "login" THEN "fetch" ELSE "install")
  /\ UNCHANGED <<keys, timerVars, loop, mutex, kind, acct, attempt, owed, budget>>

PasswordRejected_AlwaysAgain(r) ==
  /\ \/ At(r, "prompt", {"unlock", "login", "ssh"})
     \/ pc[r] = "reprompt"
  /\ attempt' = [attempt EXCEPT ![r] = @ + 1]
  /\ UNCHANGED <<keys, timerVars, loop, mutex, kind, acct, pc, owed, budget>>

\* Asked again, up to three times; the remote API sends one password.
PasswordRejected(r) ==
  /\ \/ At(r, "prompt", {"unlock", "login", "ssh"})
     \/ pc[r] = "reprompt"
  /\ attempt[r] < 3
  /\ attempt' = [attempt EXCEPT ![r] = @ + 1]
  /\ UNCHANGED <<keys, timerVars, loop, mutex, kind, acct, pc, owed, budget>>

PromptFailed_KeepsMutex(r) ==
  /\ pc[r] \in {"prompt", "reprompt"}
  /\ Goto(r, "idle")
  /\ UNCHANGED <<keys, timerVars, loop, mutex, kind, acct, attempt, owed, budget>>

\* The prompt is dismissed, times out, or was answered wrongly once too often.
PromptFailed(r) ==
  /\ pc[r] \in {"prompt", "reprompt"}
  /\ Goto(r, "idle")
  /\ mutex' = IF pc[r] = "reprompt" THEN Free ELSE mutex
  /\ UNCHANGED <<keys, timerVars, loop, kind, acct, attempt, owed, budget>>

\* set_unlocked, then cascade_unlock, whose requests arrive as any other does.
Install(r) ==
  /\ pc[r] = "install"
  /\ mutex = Free
  /\ SetUnlocked(acct[r])
  /\ owed' = [owed EXCEPT ![acct[r]] = IF kind[r] = "ssh" THEN BySsh ELSE r]
  /\ Goto(r, AfterUnlock(kind[r]))
  /\ UNCHANGED <<timerVars, loop, mutex, kind, acct, attempt, budget>>

\* An error on the way: no db, no server, no key, a remote client that left.
GiveUp(r) ==
  /\ \/ pc[r] \in {"check", "rekey", "use"}
     \/ At(r, "fetch", {"login", "sync", "org"})
     \/ At(r, "install", {"login", "remote"})
  /\ Goto(r, "idle")
  /\ UNCHANGED <<keys, timerVars, loop, mutex, kind, acct, attempt, owed, budget>>

\* The network half of sync. After a change of the master key its failure is
\* logged and the request goes on.
Fetch(r) ==
  /\ pc[r] = "fetch"
  /\ \/ Goto(r, "refresh")
     \/ kind[r] = "rekey" /\ Goto(r, "reply")
  /\ UNCHANGED <<keys, timerVars, loop, mutex, kind, acct, attempt, owed, budget>>

Refresh(r) ==
  /\ pc[r] = "refresh"
  /\ mutex = Free
  /\ RefreshOrgKeys(acct[r])
  /\ Goto(r, IF kind[r] = "login" THEN "install" ELSE "reply")
  /\ UNCHANGED <<timerVars, loop, mutex, kind, acct, attempt, owed, budget>>

Lock(r) ==
  /\ pc[r] = "lock"
  /\ mutex = Free
  /\ IF kind[r] = "lock" THEN ClearAccount(acct[r]) ELSE Clear
  /\ Goto(r, "reply")
  /\ UNCHANGED <<timer, ticks, loop, mutex, kind, acct, attempt, budget>>

\* change_master_key: only with key rotation are the old keys dropped.
Rekey(r) ==
  /\ pc[r] = "rekey"
  /\ \/ mutex = Free /\ ClearAccount(acct[r])
     \/ UNCHANGED <<keys, timerReqs, owed>>
  /\ Goto(r, "fetch")
  /\ UNCHANGED <<timer, ticks, loop, mutex, kind, acct, attempt, budget>>

Use_DropsMutex(r) ==
  /\ pc[r] = "use"
  /\ mutex = Free
  /\ keys[acct[r]] \intersect {"priv", "org"} # {}
  /\ \/ Goto(r, "reply") /\ UNCHANGED attempt
     \/ Goto(r, "reprompt") /\ attempt' = [attempt EXCEPT ![r] = 1]
  /\ UNCHANGED <<keys, timerVars, loop, mutex, kind, acct, owed, budget>>

\* decrypt_cipher. For an entry with master password reprompt the mutex is
\* kept while the user is asked.
Use(r) ==
  /\ pc[r] = "use"
  /\ mutex = Free
  /\ keys[acct[r]] \intersect {"priv", "org"} # {}
  /\ \/ Goto(r, "reply") /\ UNCHANGED <<mutex, attempt>>
     \/ /\ Goto(r, "reprompt")
        /\ mutex' = r
        /\ attempt' = [attempt EXCEPT ![r] = 1]
  /\ UNCHANGED <<keys, timerVars, loop, kind, acct, owed, budget>>

RepromptAccepted(r) ==
  /\ pc[r] = "reprompt"
  /\ mutex' = Free
  /\ Goto(r, "reply")
  /\ UNCHANGED <<keys, timerVars, loop, kind, acct, attempt, owed, budget>>

\* The answer is written to the socket.
Reply(r) ==
  /\ pc[r] = "reply"
  /\ Goto(r, IF kind[r] = "ssh" THEN "idle" ELSE "finish")
  /\ UNCHANGED <<keys, timerVars, loop, mutex, kind, acct, attempt, owed, budget>>

\* The client is gone: dispatch fails, handle_request returns early. A remote
\* handler is dropped while it waits for the mutex.
HangUp(r) ==
  /\ pc[r] = "reply" \/ pc[r] = "arm"
  /\ Abandon(r)
  /\ UNCHANGED <<keys, timerVars, loop, mutex, kind, acct, attempt, budget>>

Finish(r) ==
  /\ pc[r] = "finish"
  /\ mutex = Free
  /\ IF kind[r] \in SetsTimeout THEN SetTimeout ELSE UNCHANGED <<timerReqs, owed>>
  /\ Goto(r, "idle")
  /\ UNCHANGED <<keys, timer, ticks, loop, mutex, kind, acct, attempt, budget>>

\* unlock_remote_account restarts the timer after it has unlocked.
Arm(r) ==
  /\ pc[r] = "arm"
  /\ mutex = Free
  /\ SetTimeout
  /\ Goto(r, "idle")
  /\ UNCHANGED <<keys, timer, ticks, loop, mutex, kind, acct, attempt, budget>>

\* The ssh agent restarts it first, and not again.
Touch(r) ==
  /\ pc[r] = "touch"
  /\ mutex = Free
  /\ SetTimeout
  /\ Goto(r, "check")
  /\ UNCHANGED <<keys, timer, ticks, loop, mutex, kind, acct, attempt, budget>>

----------------------------------------------------------------------------
\* Steps a task takes without waiting for a person.
TaskStep(r) ==
  \/ CheckLock(r) \/ StartUnlock(r) \/ StartLogin(r) \/ Install(r)
  \/ Fetch(r) \/ Refresh(r) \/ Lock(r) \/ Rekey(r) \/ Use(r)
  \/ Reply(r) \/ Finish(r) \/ Arm(r) \/ Touch(r) \/ GiveUp(r)

UserStep(r) ==
  \/ PasswordAccepted(r) \/ PasswordRejected(r) \/ RepromptAccepted(r)
  \/ PromptFailed(r) \/ HangUp(r)

AgentStep == TimerRequest \/ TimerFire \/ TakeTimeout \/ ApplyClear

Next ==
  \/ AgentStep
  \/ TakeLogout
  \/ Exit
  \/ \E r \in Requests :
       \/ TaskStep(r)
       \/ UserStep(r)
       \/ \E k \in Kinds, a \in Accounts : Accept(r, k, a)

Spec == Init /\ [][Next]_vars

\* The runtime polls every ready task, the timer task reads its channel, the
\* mutex is handed out in FIFO order; what the user does is not fair, but an
\* open prompt ends by itself when pinentry has a timeout.
Fairness ==
  /\ WF_vars(TimerRequest) /\ WF_vars(TimerFire)
  /\ WF_vars(TakeTimeout) /\ WF_vars(ApplyClear)
  /\ \A r \in Requests : WF_vars(TaskStep(r))
  /\ PromptsExpire => \A r \in Requests : WF_vars(PromptFailed(r))

FairSpec == Spec /\ Fairness

----------------------------------------------------------------------------
(* Properties.                                                             *)

\* The request channel, once drained, leaves a sleep running.
Scheduled ==
  IF timerReqs = <<>> THEN timer = "set" ELSE timerReqs[Len(timerReqs)] = "set"

\* Some step that locks everything is on its way.
LockPending == Scheduled \/ ticks > 0 \/ loop = "timeout"

\* The keys of an account that was unlocked and whose request was served are
\* never in memory without an automatic lock on its way: whatever the order in
\* which expiries, restarts and clears of the shared timer meet (timeout.rs,
\* State::set_timeout, State::clear, Agent::run).
ServedUnlockExpires ==
  \A a \in Accounts : Unlocked(a) /\ owed[a] = Settled => LockPending

\* A request that unlocked an account is still on its way to the step that
\* restarts the timer; only the ssh agent and a request whose client left
\* never get there (handle_request, unlock_remote_account).
DebtIsPayable ==
  \A a \in Accounts : owed[a] \in Requests =>
    LET r == owed[a] IN
    \/ At(r, "reply", SetsTimeout) \/ At(r, "finish", SetsTimeout)
    \/ At(r, "arm", {"remote"})

\* The three parts of an account's key material come and go together, whichever
\* of unlock, login, sync and lock interleave (State::refresh_org_keys).
KeysTogether == \A a \in Accounts : keys[a] \in {{}, KeyParts}

\* While the user is asked for the master password of a protected entry, the
\* keys that entry needs stay where they are: no lock, expiry or logout is
\* applied under the prompt (decrypt_cipher holds the mutex).
PromptPinsKeys ==
  \A r \in Requests : pc[r] = "reprompt" => mutex = r /\ Unlocked(acct[r])

\* Nothing is decrypted from an account that is locked at that moment, however
\* long ago the request started.
NoPlaintextWhileLocked ==
  [][\A r \in Requests :
       pc[r] \in {"use", "reprompt"} /\ pc'[r] = "reply" => Unlocked(acct[r])]_vars

\* Once the requests stop, every account whose unlock was served gets locked.
\* docs/configuration.md:14, "lockTimeout controls how long unlocked keys remain
\* in memory", for the unlocks that do start the timer.
ServedUnlockIsLocked ==
  \A a \in Accounts :
    (Unlocked(a) /\ owed[a] \in {Settled} \union Requests)
       ~> (~Unlocked(a) \/ owed[a] \in {BySsh, Dropped})

\* Every request that was accepted ends: no task waits for ever for the mutex
\* or for a prompt.
RequestsEnd == \A r \in Requests : (pc[r] # "idle") ~> (pc[r] = "idle")

\* docs/configuration.md:14, "lockTimeout controls how long unlocked keys remain
\* in memory": whoever unlocked the account, the keys do not stay for ever.
KeysLeaveMemory == \A a \in Accounts : Unlocked(a) ~> ~Unlocked(a)
=============================================================================
