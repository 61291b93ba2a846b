----------------------------- MODULE CliUnlock -----------------------------
(***************************************************************************)
(* The client side of an unlock. Every command of rbw, of whatever version *)
(* it is, makes sure that an agent runs which serves it (process_cmds.rs,  *)
(* actions.rs, the agent's daemon.rs), and unlocks its account under a     *)
(* lock file (session.rs). An account may take its master password from an *)
(* entry of another one, its source: unlocking it unlocks the source       *)
(* first, and the agent, once it has unlocked an account, starts a command *)
(* for each that follows it.                                               *)
(*                                                                         *)
(* The agent is one process at a time: its pid file is locked (flock), and *)
(* so is the lock file of an account. A lock ends with the process.        *)
(***************************************************************************)
EXTENDS Integers, Sequences, FiniteSets

CONSTANTS
  Accounts,
  NoSource,    \* an account without a source
  Source,      \* the account whose vault holds the password of another
  Procs,       \* bound: commands at once
  Own,         \* the version of each command
  Nobody,      \* a lock is free
  Kinds,       \* what the user starts: "unlock", "force" or "login"
  FirstAgents, \* versions of the agent that may run at first, or NoVersion
  FirstLogins, \* bound: the accounts that may be logged in at first
  Budget       \* bound: what the user does

\* What credential_source_chain accepts: no account leads back to itself.
Chains == {s \in UNION {[1..n -> Accounts] : n \in 1..Cardinality(Accounts)} :
             \A i \in 1..(Len(s) - 1) : s[i + 1] = Source[s[i]]}

ASSUME SourceAssumption ==
  /\ NoSource \notin Accounts
  /\ Source \in [Accounts -> Accounts \union {NoSource}]
\* No accounts are each other's source (credential_source_chain).
ASSUME ChainAssumption ==
  \A S \in SUBSET Accounts : S # {} => \E a \in S : Source[a] \notin S
ASSUME ProcAssumption == Nobody \notin Procs
ASSUME KindAssumption == Kinds \subseteq {"unlock", "force", "login"}
ASSUME BoundAssumption == Budget \in Nat

\* A version is ten times its major one and its minor one.
NoVersion == 0
Versions == 10..99
Major(v) == v \div 10

\* The agent of version v serves a command of version own.
Compatible(v, own) == Major(v) = Major(own) /\ v >= own

ASSUME VersionAssumption ==
  /\ Own \in [Procs -> Versions]
  /\ FirstAgents \subseteq Versions \union {NoVersion}

VARIABLES
  stage, version, \* of the agent; NoVersion if it is down
  unlocked,       \* accounts whose keys the agent holds
  loggedIn,       \* accounts with tokens
  pending,        \* accounts whose unlock the agent is starting
  unheard,        \* accounts with a request whose command was stopped
  lock,           \* per account: who has locked its lock file
  stamp,          \* per account: the process its lock file names
  budget,
  pc, kind,       \* per command: its step, what it is
  chain,          \* per command: the account it unlocks, its source, ...
  auto            \* per command: its password and code come from a source

agentVars == <<stage, version, unlocked, loggedIn, pending, unheard>>
lockVars  == <<lock, stamp>>
procVars  == <<pc, kind, chain, auto>>
vars == <<agentVars, lockVars, budget, procVars>>

AllKinds == {"unlock", "force", "login", "follow"}
PCs == {"idle", "version", "quit", "run", "await", "recheck", "requit",
        "force", "lock", "stamp", "look", "resolve", "found", "prompt",
        "send", "login", "unlock", "failed", "busy"}

Top(p) == chain[p][Len(chain[p])]
Pop(p) == SubSeq(chain[p], 1, Len(chain[p]) - 1)
Held(p) == {a \in Accounts : lock[a] = p}
Followers(a) == {f \in Accounts : Source[f] = a}
\* The steps between taking the lock of the account on top and its unlock.
Unlocking == {"stamp", "look", "resolve", "prompt", "send", "login", "unlock"}

TypeOK ==
  /\ stage \in {"down", "starting", "up"} /\ version \in Versions \union {NoVersion}
  /\ unlocked \subseteq Accounts /\ loggedIn \subseteq Accounts
  /\ pending \subseteq Accounts /\ unheard \subseteq Accounts
  /\ lock \in [Accounts -> Procs \union {Nobody}]
  /\ stamp \in [Accounts -> Procs \union {Nobody}]
  /\ budget \in 0..Budget
  /\ pc \in [Procs -> PCs]
  /\ kind \in [Procs -> AllKinds]
  /\ auto \in [Procs -> BOOLEAN]
  /\ \A p \in Procs : IF pc[p] = "idle" THEN chain[p] = <<>>
                                        ELSE chain[p] \in Chains

Init ==
  /\ version \in FirstAgents
  /\ stage = IF version = NoVersion THEN "down" ELSE "up"
  /\ unlocked = {} /\ loggedIn \in FirstLogins
  /\ pending = {} /\ unheard = {}
  /\ lock = [a \in Accounts |-> Nobody]
  /\ stamp = [a \in Accounts |-> Nobody]
  /\ budget = Budget
  /\ pc = [p \in Procs |-> "idle"]
  /\ kind = [p \in Procs |-> "unlock"]
  /\ chain = [p \in Procs |-> <<>>]
  /\ auto = [p \in Procs |-> FALSE]

Spend == budget > 0 /\ budget' = budget - 1
Goto(p, s) == pc' = [pc EXCEPT ![p] = s]
-----------------------------------------------------------------------------
(* How a command ends.                                                     *)

\* The process is gone: its locks are free, and its pid names nobody.
Leave(p, free) ==
  /\ lock' = [a \in Accounts |-> IF a \in free THEN Nobody ELSE lock[a]]
  /\ stamp' = [a \in Accounts |-> IF stamp[a] = p THEN Nobody ELSE stamp[a]]

End(p) ==
  /\ Goto(p, "idle")
  /\ chain' = [chain EXCEPT ![p] = <<>>]
  /\ auto' = [auto EXCEPT ![p] = FALSE]
  /\ Leave(p, Held(p))
  /\ UNCHANGED kind

\* The account on top is unlocked. The source gives the word to the account
\* it was unlocked for; a command of the user goes on without the lock, a
\* login or a follower is done.
Done_KeepsLock(p) ==
  IF Len(chain[p]) > 1
  THEN /\ chain' = [chain EXCEPT ![p] = Pop(p)]
       /\ Goto(p, "found")
       /\ UNCHANGED <<lockVars, kind, auto>>
  ELSE IF kind[p] \in {"unlock", "force"}
  THEN /\ Goto(p, "busy")
       /\ UNCHANGED <<lockVars, kind, chain, auto>>
  ELSE End(p)

Done(p) ==
  IF Len(chain[p]) > 1
  THEN /\ chain' = [chain EXCEPT ![p] = Pop(p)]
       /\ Goto(p, "found")
       /\ lock' = [lock EXCEPT ![Top(p)] = Nobody]
       /\ UNCHANGED <<stamp, kind, auto>>
  ELSE IF kind[p] \in {"unlock", "force"}
  THEN /\ Goto(p, "busy")
       /\ lock' = [lock EXCEPT ![Top(p)] = Nobody]
       /\ UNCHANGED <<stamp, kind, chain, auto>>
  ELSE End(p)

\* A request failed. Without its source an account is unlocked by hand, and
\* a follower not at all.
Failed_GoesOn(p) ==
  /\ pc[p] = "failed"
  /\ IF Len(chain[p]) = 2 /\ kind[p] = "follow"
     THEN End(p)
     ELSE /\ chain' = [chain EXCEPT ![p] = Pop(p)]
          /\ Goto(p, "prompt")
          /\ lock' = [lock EXCEPT ![Top(p)] =
                        IF @ = p THEN Nobody ELSE @]
          /\ UNCHANGED <<stamp, kind, auto>>
  /\ UNCHANGED <<agentVars, budget>>

Failed(p) ==
  /\ pc[p] = "failed"
  /\ IF Len(chain[p]) = 1 \/ (Len(chain[p]) = 2 /\ kind[p] = "follow")
     THEN End(p)
     ELSE /\ chain' = [chain EXCEPT ![p] = Pop(p)]
          /\ Goto(p, "prompt")
          /\ lock' = [lock EXCEPT ![Top(p)] =
                        IF @ = p THEN Nobody ELSE @]
          /\ UNCHANGED <<stamp, kind, auto>>
  /\ UNCHANGED <<agentVars, budget>>

Finish(p) ==
  /\ pc[p] = "busy"
  /\ End(p)
  /\ UNCHANGED <<agentVars, budget>>
-----------------------------------------------------------------------------
(* The agent.                                                              *)

\* The agent exits: nothing is unlocked, and the logins it was at fail.
AgentExits ==
  /\ stage' = "down" /\ version' = NoVersion
  /\ unlocked' = {} /\ unheard' = {}
  /\ UNCHANGED <<loggedIn, pending>>

Waiting == {p \in Procs : pc[p] = "login"}

\* It listens, and its parent is told.
Listen ==
  /\ stage = "starting"
  /\ stage' = "up"
  /\ UNCHANGED <<version, unlocked, loggedIn, pending, unheard, lockVars,
                 budget, procVars>>

\* The user stops the agent, or a signal does.
Stop ==
  /\ stage = "up"
  /\ Spend
  /\ AgentExits
  /\ pc' = [p \in Procs |-> IF p \in Waiting THEN "failed" ELSE pc[p]]
  /\ UNCHANGED <<lockVars, kind, chain, auto>>

\* The user locks, or the lock timer does.
Lock ==
  /\ unlocked # {}
  /\ Spend
  /\ unlocked' = {}
  /\ UNCHANGED <<stage, version, loggedIn, pending, unheard, lockVars,
                 procVars>>

\* `set_unlocked` and `cascade_unlock`.
Unlocks(a) ==
  /\ unlocked' = unlocked \union {a}
  /\ pending' = pending \union Followers(a)

\* A login or an unlock goes on although its command was stopped, and there
\* may be more than one for an account.
Unheard ==
  /\ \E a \in unheard :
       /\ unheard' \in {unheard, unheard \ {a}}
       /\ \/ /\ loggedIn' = loggedIn \union {a}
             /\ Unlocks(a)
          \/ UNCHANGED <<loggedIn, unlocked, pending>>
  /\ UNCHANGED <<stage, version, lockVars, budget, procVars>>
-----------------------------------------------------------------------------
(* `ensure_agent`.                                                         *)

\* What a command does when an agent that serves it answers.
Ensured(p) == Goto(p, CASE kind[p] = "force" -> "force"
                        [] kind[p] = "login" /\ Len(chain[p]) = 1 -> "resolve"
                        [] OTHER -> "lock")

Served(p) == stage = "up" /\ Compatible(version, Own[p])

\* `check_agent_version`. An agent that does not answer is told to quit, and
\* so is one that is older; a newer one is left alone.
CheckVersion_Retries(p) ==
  /\ pc[p] \in {"version", "recheck"}
  /\ IF Served(p) THEN Ensured(p)
     ELSE IF stage = "up" /\ version > Own[p] THEN Goto(p, "run")
     ELSE Goto(p, IF pc[p] = "version" THEN "quit" ELSE "requit")
  /\ UNCHANGED <<agentVars, lockVars, budget, kind, chain, auto>>

CheckVersion(p) ==
  /\ pc[p] \in {"version", "recheck"}
  /\ IF Served(p) THEN Ensured(p)
     ELSE IF stage = "up" /\ version > Own[p]
     THEN Goto(p, IF pc[p] = "version" THEN "run" ELSE "failed")
     ELSE Goto(p, IF pc[p] = "version" THEN "quit" ELSE "requit")
  /\ UNCHANGED <<agentVars, lockVars, budget, kind, chain, auto>>

\* `quit` connects anew: whoever listens now gets the request, and exits.
Quit(p) ==
  /\ pc[p] \in {"quit", "requit"}
  /\ LET next == IF pc[p] = "quit" THEN "run" ELSE "failed"
     IN IF stage = "up"
        THEN /\ AgentExits
             /\ pc' = [q \in Procs |-> IF q = p THEN next
                                       ELSE IF q \in Waiting THEN "failed"
                                       ELSE pc[q]]
        ELSE UNCHANGED agentVars /\ Goto(p, next)
  /\ UNCHANGED <<lockVars, budget, kind, chain, auto>>

\* `run_agent`: the agent of the command's own version locks its pid file and
\* is waited for, or finds it locked and exits with 23, which is as good.
RunAgent(p) ==
  /\ pc[p] = "run"
  /\ IF stage = "down"
     THEN stage' = "starting" /\ version' = Own[p] /\ Goto(p, "await")
     ELSE UNCHANGED <<stage, version>> /\ Goto(p, "recheck")
  /\ UNCHANGED <<unlocked, loggedIn, pending, unheard, lockVars, budget, kind,
                 chain, auto>>

Started(p) ==
  /\ pc[p] = "await"
  /\ stage # "starting"
  /\ Goto(p, "recheck")
  /\ UNCHANGED <<agentVars, lockVars, budget, kind, chain, auto>>
-----------------------------------------------------------------------------
(* `unlock_impl`, `unlock_from_credential_source` and `login`.             *)

Start(p) ==
  /\ pc[p] = "idle"
  /\ Spend
  /\ \E k \in Kinds, a \in Accounts :
       /\ kind' = [kind EXCEPT ![p] = k]
       /\ chain' = [chain EXCEPT ![p] = <<a>>]
  /\ Goto(p, "version")
  /\ UNCHANGED <<agentVars, lockVars, auto>>

\* A command the agent has started for an account that follows another.
StartFollower(p) ==
  /\ pc[p] = "idle"
  /\ \E f \in pending :
       /\ pending' = pending \ {f}
       /\ chain' = [chain EXCEPT ![p] = <<f>>]
  /\ kind' = [kind EXCEPT ![p] = "follow"]
  /\ Goto(p, "version")
  /\ UNCHANGED <<stage, version, unlocked, loggedIn, unheard, lockVars, budget,
                 auto>>

\* `stop_running_unlock`: the process the lock file names is terminated, if
\* there is one. What the agent does for it goes on, unheard.
Kill(p, victim) ==
  /\ unheard' = IF pc[victim] \in {"login", "unlock"}
                THEN unheard \union {Top(victim)} ELSE unheard
  /\ pc' = [pc EXCEPT ![p] = "lock", ![victim] = "idle"]
  /\ chain' = [chain EXCEPT ![victim] = <<>>]
  /\ auto' = [auto EXCEPT ![victim] = FALSE]
  /\ Leave(victim, Held(victim))
  /\ UNCHANGED kind

StopRunning(p) ==
  /\ pc[p] = "force"
  /\ LET victim == stamp[Top(p)]
     IN IF victim \in Procs \ {p} THEN Kill(p, victim)
        ELSE Goto(p, "lock") /\ UNCHANGED <<unheard, lockVars, kind, chain, auto>>
  /\ UNCHANGED <<stage, version, unlocked, loggedIn, pending, budget>>

TakeLock_Shared(p) ==
  /\ pc[p] = "lock"
  /\ lock' = [lock EXCEPT ![Top(p)] = p]
  /\ Goto(p, "stamp")
  /\ UNCHANGED <<agentVars, stamp, budget, kind, chain, auto>>

TakeLock(p) ==
  /\ pc[p] = "lock"
  /\ lock[Top(p)] = Nobody
  /\ lock' = [lock EXCEPT ![Top(p)] = p]
  /\ Goto(p, "stamp")
  /\ UNCHANGED <<agentVars, stamp, budget, kind, chain, auto>>

Stamp(p) ==
  /\ pc[p] = "stamp"
  /\ stamp' = [stamp EXCEPT ![Top(p)] = p]
  /\ Goto(p, "look")
  /\ UNCHANGED <<agentVars, lock, budget, kind, chain, auto>>

\* Whoever comes second has nothing left to do.
Look(p) ==
  /\ pc[p] = "look"
  /\ IF kind[p] # "force" /\ stage = "up" /\ Top(p) \in unlocked
     THEN Done(p)
     ELSE Goto(p, "resolve") /\ UNCHANGED <<lockVars, kind, chain, auto>>
  /\ UNCHANGED <<agentVars, budget>>

\* The password comes from the source, once that is unlocked, or from the
\* user.
Resolve(p) ==
  /\ pc[p] = "resolve"
  /\ LET s == Source[Top(p)]
     IN IF s = NoSource
        THEN Goto(p, "prompt") /\ UNCHANGED <<chain, auto>>
        ELSE IF stage = "up" /\ s \in unlocked
        THEN /\ Goto(p, "send")
             /\ auto' = [auto EXCEPT ![p] = TRUE]
             /\ UNCHANGED chain
        ELSE /\ chain' = [chain EXCEPT ![p] = Append(@, s)]
             /\ Goto(p, "version")
             /\ UNCHANGED auto
  /\ UNCHANGED <<agentVars, lockVars, budget, kind>>

\* The source was unlocked for this account, and has an entry for it or not.
Found(p) ==
  /\ pc[p] = "found"
  /\ \/ /\ stage = "up" /\ Source[Top(p)] \in unlocked
        /\ Goto(p, "send")
        /\ auto' = [auto EXCEPT ![p] = TRUE]
        /\ UNCHANGED <<lockVars, kind, chain>>
     \/ IF kind[p] = "follow" /\ Len(chain[p]) = 1 THEN End(p)
        ELSE Goto(p, "prompt") /\ UNCHANGED <<lockVars, kind, chain, auto>>
  /\ UNCHANGED <<agentVars, budget>>

\* The user types the password, or lets the prompt go.
Prompt(p) ==
  /\ pc[p] = "prompt"
  /\ auto' = [auto EXCEPT ![p] = FALSE]
  /\ Goto(p, "send") \/ Goto(p, "failed")
  /\ UNCHANGED <<agentVars, lockVars, budget, kind, chain>>

\* The Login request: the agent logs in, unless it has tokens already.
Send(p) ==
  /\ pc[p] = "send"
  /\ Goto(p, IF stage # "up" THEN "failed"
             ELSE IF Top(p) \in loggedIn THEN "unlock" ELSE "login")
  /\ UNCHANGED <<agentVars, lockVars, budget, kind, chain, auto>>

LoggedIn(p) ==
  /\ pc[p] = "login"
  /\ \/ /\ loggedIn' = loggedIn \union {Top(p)}
        /\ Unlocks(Top(p))
        /\ Goto(p, "unlock")
     \/ UNCHANGED <<loggedIn, unlocked, pending>> /\ Goto(p, "failed")
  /\ UNCHANGED <<stage, version, unheard, lockVars, budget, kind, chain, auto>>

\* The Unlock request, with which `rbw login` does not bother.
Unlock(p) ==
  /\ pc[p] = "unlock"
  /\ IF kind[p] = "login" /\ Len(chain[p]) = 1
     THEN UNCHANGED <<unlocked, pending>> /\ End(p)
     ELSE \/ /\ stage = "up"
             /\ IF Top(p) \in unlocked THEN UNCHANGED <<unlocked, pending>>
                                       ELSE Unlocks(Top(p))
             /\ Done(p)
          \/ /\ UNCHANGED <<unlocked, pending>>
             /\ Goto(p, "failed")
             /\ UNCHANGED <<lockVars, kind, chain, auto>>
  /\ UNCHANGED <<stage, version, loggedIn, unheard, budget>>
-----------------------------------------------------------------------------
Ensure(p) == CheckVersion(p) \/ Quit(p) \/ RunAgent(p) \/ Started(p)
Step(p) == \/ Ensure(p) \/ StopRunning(p) \/ Stamp(p) \/ Look(p) \/ Resolve(p)
           \/ Found(p) \/ Prompt(p) \/ Send(p) \/ LoggedIn(p) \/ Unlock(p)
           \/ Failed(p)

Next == \/ Listen \/ Stop \/ Lock \/ Unheard
        \/ \E p \in Procs : \/ Start(p) \/ StartFollower(p) \/ Finish(p)
                            \/ TakeLock(p) \/ Step(p)

Spec == Init /\ [][Next]_vars

\* Commands run, a prompt is answered or times out, the server answers, and
\* an agent that was started listens. The kernel gives a lock to those who
\* wait for it in turn.
FairSpec == /\ Spec /\ WF_vars(Listen)
            /\ \A p \in Procs : WF_vars(Step(p)) /\ SF_vars(TakeLock(p))
-----------------------------------------------------------------------------
(* Properties.                                                             *)

\* A process waits only for the lock of an account further up the chain of
\* sources than those whose locks it holds, and it never holds one it has
\* nothing to do with. As credential_source_chain rejects cycles, no two
\* unlocks ever wait for each other.
LocksFollowSources ==
  \A p \in Procs :
    /\ \A a \in Held(p) : \E i \in 1..Len(chain[p]) : chain[p][i] = a
    /\ pc[p] \in {"idle", "busy"} => Held(p) = {}
    /\ pc[p] = "lock" => Top(p) \notin Held(p)

\* Of the commands that unlock an account one at a time gets past the lock:
\* they never prompt twice, and never log in twice with the same code, for
\* one account, however many followers and recursions lead to it. The agent
\* may still be at the login of one that `--force` has stopped.
OneUnlockAtATime ==
  \A p, q \in Procs :
    /\ p # q
    /\ pc[p] \in Unlocking /\ (kind[p] = "login" => Len(chain[p]) > 1)
    /\ pc[q] \in Unlocking /\ (kind[q] = "login" => Len(chain[q]) > 1)
    => Top(p) # Top(q)

\* What check_agent_version says of its check: an agent of a newer major
\* version is never stopped by an older rbw. It is: the check is one
\* connection and the request to quit the next, and between them a newer rbw
\* may have replaced the agent.
NewerAgentStays ==
  [][\A p \in Procs :
       /\ stage = "up" /\ Major(version) > Major(Own[p])
       /\ pc[p] \in {"quit", "requit"} /\ pc'[p] \in {"run", "failed"}
       => stage' = "up"]_vars

\* Every command gets past its unlock or fails, also when agents come and go
\* under it and when unlocks of followers and of sources meet.
CommandsEnd ==
  \A p \in Procs : pc[p] \notin {"idle", "busy"} ~> pc[p] \in {"idle", "busy"}

\* What docs/usage.md says of the command the agent starts for a follower:
\* it never prompts. It does, for the source, if that is locked again.
FollowersNeverPrompt ==
  \A p \in Procs : kind[p] = "follow" => pc[p] # "prompt"

\* An agent that serves every rbw in use is not stopped by any. It is: a
\* command that found none, or an older one, tells whoever listens by then to
\* quit.
ServingAgentStays ==
  [][(\A p \in Procs : Served(p)) /\ stage' # "up" => budget' # budget]_vars

\* `rbw unlock --force` stops the command that holds the lock. It stops the
\* one that held it last, which may have gone on with something else.
OnlyHoldersAreStopped ==
  [][\A p \in Procs : pc[p] = "busy" /\ pc'[p] = "idle"
       => \A q \in Procs : pc[q] = "force" => pc'[q] = "force"]_vars
=============================================================================
