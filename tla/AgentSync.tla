----------------------------- MODULE AgentSync -----------------------------
(***************************************************************************)
(* Background synchronization of rbw-agent: the sync timer and its event   *)
(* in the loop of Agent::run (agent.rs), the notifications handler with    *)
(* its websocket and its list of channels (notifications.rs), and the sync *)
(* tasks, of which any number runs at once: sync_all for the timer and for *)
(* a pushed notification, sync for a client (actions.rs).                  *)
(*                                                                         *)
(* The content of a vault is its revision: a number that grows whenever    *)
(* the vault changes on the server. Every account stays logged in.         *)
(***************************************************************************)
EXTENDS Integers, Sequences

CONSTANTS
  Accounts,
  AccountList,   \* the accounts in the order of the configuration
  Tasks,         \* bound: sync tasks that can run at once
  PeriodicSync,  \* syncInterval > 0
  MaxRev,        \* bound: the last revision of every account
  None           \* in place of an account or a revision: there is none

Free == "free"
Dialing == "dialing"

\* A name with an underscore is a slip in the operator that follows it, which
\* the runs must notice; no other definition uses it.

ASSUME ListAssumption  == AccountList \in Seq(Accounts) /\ AccountList # <<>>
ASSUME NoneAssumption  == None \notin Accounts /\ Dialing \notin Accounts
ASSUME FreeAssumption  == Free \notin Tasks
ASSUME RevAssumption   == MaxRev \in Nat
ASSUME PeriodAssumption == PeriodicSync \in BOOLEAN

VARIABLES
  server,     \* server[a]: revision of the vault of a on the server
  db,         \* db[a]: revision in the local db of a
  known,      \* known[a]: revision the reprompt set of a was built from
  conn,       \* the account whose hub the one websocket listens to
  channels,   \* sending_channels of the notifications handler
  wire,       \* notifications on their way through the websocket
  inbox,      \* Sync messages the loop has not read yet
  timerReqs,  \* requests to the sync timer, all of them Set
  timer,      \* "set": its sleep is running; "clear": it is not
  ticks,      \* expiries the loop has not read yet
  loop,       \* "sync": a Sync event is being handled
  mutex,      \* the task that keeps State locked while it dials
  pc, todo, snap, \* per task: its step, its accounts, what it fetched
  met         \* history: where two syncs met, see Meet

timerVars == <<timerReqs, timer, ticks>>
pushVars  == <<conn, channels, wire, inbox>>
taskVars  == <<pc, todo, snap, met>>
vars == <<server, db, known, pushVars, timerVars, loop, mutex, taskVars>>

Revs == 0..MaxRev
PCs  == {"idle", "fetch", "save", "reprompt", "check", "dial", "dialing"}

TypeOK ==
  /\ server \in [Accounts -> Revs]
  /\ db \in [Accounts -> Revs]
  /\ known \in [Accounts -> Revs \union {None}]
  /\ conn \in Accounts \union {None}
  /\ channels \subseteq {"agent"}
  /\ wire \in Nat
  /\ inbox \in Nat
  /\ timerReqs \in Nat
  /\ timer \in {"set", "clear"}
  /\ ticks \in Nat
  /\ loop \in {"select", "sync"}
  /\ mutex \in Tasks \union {Free}
  /\ pc \in [Tasks -> PCs]
  /\ todo \in [Tasks -> Seq(Accounts)]
  /\ snap \in [Tasks -> Revs]
  /\ met \subseteq Accounts \union {Dialing}

\* main.rs arms the timer only for a positive interval; Agent::run registers
\* its channel once.
Init ==
  /\ server = [a \in Accounts |-> 0]
  /\ db = server
  /\ known = [a \in Accounts |-> None]
  /\ conn = None
  /\ channels = {"agent"}
  /\ wire = 0
  /\ inbox = 0
  /\ timerReqs = IF PeriodicSync THEN 1 ELSE 0
  /\ timer = "clear"
  /\ ticks = 0
  /\ loop = "select"
  /\ mutex = Free
  /\ pc = [t \in Tasks |-> "idle"]
  /\ todo = [t \in Tasks |-> <<>>]
  /\ snap = [t \in Tasks |-> 0]
  /\ met = {}

----------------------------------------------------------------------------
(* The server and the websocket (notifications.rs).                        *)

\* Another device changes the vault; the hub notifies who listens to it.
Change(a) ==
  /\ server[a] < MaxRev
  /\ server' = [server EXCEPT ![a] = @ + 1]
  /\ wire' = IF conn = a THEN wire + 1 ELSE wire
  /\ UNCHANGED <<db, known, conn, channels, inbox, timerVars, loop, mutex, taskVars>>

Deliver_Unread ==
  /\ wire' = wire - 1
  /\ inbox' = IF "agent" \in channels THEN inbox + 1 ELSE inbox
  /\ UNCHANGED <<server, db, known, conn, channels, timerVars, loop, mutex, taskVars>>

\* The read task forwards a message to every channel.
Deliver ==
  /\ wire > 0
  /\ wire' = wire - 1
  /\ inbox' = IF "agent" \in channels THEN inbox + 1 ELSE inbox
  /\ UNCHANGED <<server, db, known, conn, channels, timerVars, loop, mutex, taskVars>>

\* The connection breaks: the read task ends, is_connected is false from now on.
ConnectionLost ==
  /\ conn # None
  /\ conn' = None
  /\ wire' = 0
  /\ UNCHANGED <<server, db, known, channels, inbox, timerVars, loop, mutex, taskVars>>

----------------------------------------------------------------------------
(* The sync timer, the same task as the lock timer (timeout.rs).           *)

TimerRequest ==
  /\ timerReqs > 0
  /\ timerReqs' = timerReqs - 1
  /\ timer' = "set"
  /\ UNCHANGED <<server, db, known, pushVars, ticks, loop, mutex, taskVars>>

TimerFire ==
  /\ timer = "set"
  /\ timer' = "clear"
  /\ ticks' = ticks + 1
  /\ UNCHANGED <<server, db, known, pushVars, timerReqs, loop, mutex, taskVars>>

----------------------------------------------------------------------------
(* The loop of Agent::run: a Sync event spawns sync_all and then sets the  *)
(* timer again, for which it waits for the mutex.                          *)

Spawn(t, accounts) ==
  /\ pc[t] = "idle"
  /\ pc' = [pc EXCEPT ![t] = "fetch"]
  /\ todo' = [todo EXCEPT ![t] = accounts]
  /\ UNCHANGED <<snap, met>>

TakeTick(t) ==
  /\ loop = "select"
  /\ ticks > 0
  /\ ticks' = ticks - 1
  /\ loop' = "sync"
  /\ Spawn(t, AccountList)
  /\ UNCHANGED <<server, db, known, pushVars, timerReqs, timer, mutex>>

TakeNotification(t) ==
  /\ loop = "select"
  /\ inbox > 0
  /\ inbox' = inbox - 1
  /\ loop' = "sync"
  /\ Spawn(t, AccountList)
  /\ UNCHANGED <<server, db, known, conn, channels, wire, timerVars, mutex>>

SetSyncTimeout_Skipped ==
  /\ loop = "sync"
  /\ mutex = Free
  /\ loop' = "select"
  /\ UNCHANGED <<server, db, known, pushVars, timerVars, mutex, taskVars>>

\* set_sync_timeout, whatever the interval.
SetSyncTimeout ==
  /\ loop = "sync"
  /\ mutex = Free
  /\ timerReqs' = timerReqs + 1
  /\ loop' = "select"
  /\ UNCHANGED <<server, db, known, pushVars, timer, ticks, mutex, taskVars>>

\* A client asks for a sync of one account, or logs in to it.
ClientSync(t, a) ==
  /\ loop = "select"
  /\ Spawn(t, <<a>>)
  /\ UNCHANGED <<server, db, known, pushVars, timerVars, loop, mutex>>

----------------------------------------------------------------------------
(* State.                                                                  *)

\* State::clear or clear_account: the reprompt set goes with the keys.
Lock(a) ==
  /\ mutex = Free
  /\ known' = [known EXCEPT ![a] = None]
  /\ UNCHANGED <<server, db, pushVars, timerVars, loop, mutex, taskVars>>

\* decrypt_cipher builds a missing reprompt set from the local db.
Consult(a) ==
  /\ mutex = Free
  /\ known[a] = None
  /\ known' = [known EXCEPT ![a] = db[a]]
  /\ UNCHANGED <<server, db, pushVars, timerVars, loop, mutex, taskVars>>

----------------------------------------------------------------------------
(* A sync task (sync, sync_all, subscribe_to_notifications).               *)

Current(t) == Head(todo[t])

Goto(t, step) == pc' = [pc EXCEPT ![t] = step] /\ UNCHANGED todo

\* Where the mutex is free between two steps of a task, another task may be
\* between the same two steps; met keeps that it happened, and in which place:
\* the account of two that saved, or Dialing.
Meet(others, place) == met' = IF others = {} THEN met ELSE met \union {place}

Between(t) == {u \in Tasks \ {t} : pc[u] = "reprompt" /\ Current(u) = Current(t)}
Dialers(t) == {u \in Tasks \ {t} : pc[u] \in {"dial", "dialing"}}

\* sync_all goes on with the next account, whether or not this one failed.
NextAccount(t) ==
  /\ todo' = [todo EXCEPT ![t] = Tail(@)]
  /\ pc' = [pc EXCEPT ![t] = IF Len(todo[t]) = 1 THEN "idle" ELSE "fetch"]

Fetch(t) ==
  /\ pc[t] = "fetch"
  /\ snap' = [snap EXCEPT ![t] = server[Current(t)]]
  /\ Goto(t, "save")
  /\ UNCHANGED <<server, db, known, pushVars, timerVars, loop, mutex, met>>

FetchFails(t) ==
  /\ pc[t] = "fetch"
  /\ NextAccount(t)
  /\ UNCHANGED <<server, db, known, pushVars, timerVars, loop, mutex, snap, met>>

Save(t) ==
  /\ pc[t] = "save"
  /\ db' = [db EXCEPT ![Current(t)] = snap[t]]
  /\ Goto(t, "reprompt")
  /\ Meet(Between(t), Current(t))
  /\ UNCHANGED <<server, known, pushVars, timerVars, loop, mutex, snap>>

SetReprompt_Forgotten(t) ==
  /\ pc[t] = "reprompt"
  /\ Goto(t, "check")
  /\ UNCHANGED <<server, db, known, pushVars, timerVars, loop, mutex, snap, met>>

\* set_master_password_reprompt. refresh_org_keys, under a second lock of the
\* mutex, changes nothing that is state here.
SetReprompt(t) ==
  /\ pc[t] = "reprompt"
  /\ mutex = Free
  /\ known' = [known EXCEPT ![Current(t)] = snap[t]]
  /\ Goto(t, "check")
  /\ UNCHANGED <<server, db, pushVars, timerVars, loop, mutex, snap, met>>

CheckConnected_Never(t) ==
  /\ pc[t] = "check"
  /\ mutex = Free
  /\ Goto(t, "dial")
  /\ Meet(Dialers(t), Dialing)
  /\ UNCHANGED <<server, db, known, pushVars, timerVars, loop, mutex, snap>>

\* The mutex is released between this check and the connection.
CheckConnected(t) ==
  /\ pc[t] = "check"
  /\ mutex = Free
  /\ IF conn # None
       THEN NextAccount(t) /\ UNCHANGED met
       ELSE Goto(t, "dial") /\ Meet(Dialers(t), Dialing)
  /\ UNCHANGED <<server, db, known, pushVars, timerVars, loop, mutex, snap>>

\* Handler::connect, up to the network: a connection that is there by now is
\* closed first, and with it goes every registered channel.
Dial(t) ==
  /\ pc[t] = "dial"
  /\ mutex = Free
  /\ mutex' = t
  /\ IF conn # None
       THEN conn' = None /\ channels' = {} /\ wire' = 0
       ELSE UNCHANGED <<conn, channels, wire>>
  /\ Goto(t, "dialing")
  /\ UNCHANGED <<server, db, known, inbox, timerVars, loop, snap, met>>

Dialed_KeepsMutexOnError(t) ==
  /\ pc[t] = "dialing"
  /\ conn' \in {Current(t), None}
  /\ mutex' = IF conn' = None THEN mutex ELSE Free
  /\ NextAccount(t)
  /\ UNCHANGED <<server, db, known, channels, wire, inbox, timerVars, loop, snap, met>>

\* The connection is made, or it fails and the failure is logged.
Dialed(t) ==
  /\ pc[t] = "dialing"
  /\ mutex' = Free
  /\ conn' \in {Current(t), None}
  /\ NextAccount(t)
  /\ UNCHANGED <<server, db, known, channels, wire, inbox, timerVars, loop, snap, met>>

----------------------------------------------------------------------------
TaskStep(t) ==
  \/ Fetch(t) \/ FetchFails(t) \/ Save(t) \/ SetReprompt(t)
  \/ CheckConnected(t) \/ Dial(t) \/ Dialed(t)

TakeEvent(t) == TakeTick(t) \/ TakeNotification(t)

Next ==
  \/ Deliver \/ ConnectionLost \/ TimerRequest \/ TimerFire \/ SetSyncTimeout
  \/ \E a \in Accounts : Change(a) \/ Lock(a) \/ Consult(a)
  \/ \E t \in Tasks : TaskStep(t) \/ TakeEvent(t) \/ \E a \in Accounts : ClientSync(t, a)

Spec == Init /\ [][Next]_vars

\* select_all polls its streams in turn and the tokio mutex is FIFO, so neither
\* the loop nor a task waits for ever while others come and go. A server that
\* is asked for an account again and again answers at some time.
Fairness ==
  /\ WF_vars(TimerRequest) /\ WF_vars(TimerFire) /\ WF_vars(Deliver)
  /\ SF_vars(SetSyncTimeout)
  /\ SF_vars(\E t \in Tasks : TakeEvent(t))
  /\ \A t \in Tasks : SF_vars(TaskStep(t))
  /\ \A a \in Accounts : SF_vars(\E t \in Tasks : Fetch(t) /\ Current(t) = a)

FairSpec == Spec /\ Fairness

----------------------------------------------------------------------------
(* Properties.                                                             *)

SyncPending == timerReqs > 0 \/ timer = "set" \/ ticks > 0 \/ loop = "sync"

\* With a positive interval the next background sync is always on its way: the
\* chain from set_sync_timeout over the timer and the tick to the event that
\* sets the timer again never breaks.
SyncStaysScheduled == PeriodicSync => SyncPending

\* While the websocket is connected, the loop of the agent is among those its
\* messages go to (Handler::get_channel is called once, by Agent::run), unless
\* two syncs had both found it closed before one of them dialed.
\* CHANGELOG.md:2131, "Background syncing now additionally happens when the
\* server notifies the agent".
AgentListens == Dialing \notin met /\ conn # None => "agent" \in channels

\* The reprompt set in memory is that of the vault which was saved last,
\* whenever no sync is between the two, unless two syncs of the account had both
\* saved before one of them set it. state.rs:157, "marked as master password
\* reprompt during the most recent sync".
RepromptMatchesDb ==
  \A a \in Accounts \ met :
    (\A t \in Tasks : pc[t] = "reprompt" => Current(t) # a) => known[a] \in {None, db[a]}

\* CHANGELOG.md:2131-2132, "Background syncing now additionally happens when the
\* server notifies the agent": the same without that exception
\* (subscribe_to_notifications, Handler::connect).
HearsItsServer == conn # None => "agent" \in channels

\* state.rs:156-157, "if the agent gets a request for any of those cipherstrings
\* that it saw marked as master password reprompt during the most recent sync, it
\* forces a reprompt": the same without that exception (sync in actions.rs).
RepromptIsOfLastSync ==
  \A a \in Accounts :
    (\A t \in Tasks : pc[t] = "reprompt" => Current(t) # a) => known[a] \in {None, db[a]}

\* nix/hm-module.nix:403, "`0` disables this behavior": without an interval
\* the timer never starts a sync.
TimerStaysOff == ~PeriodicSync => ticks = 0

\* Once the vaults stop changing, the local copies and the reprompt sets are
\* those of the server for good, whatever notifications were lost and in
\* whatever order concurrent syncs have saved what they fetched.
Converges ==
  <>[](\A a \in Accounts : db[a] = server[a] /\ known[a] \in {None, server[a]})

\* The loop comes back from a Sync event: nobody keeps the mutex for ever.
LoopReturns == (loop = "sync") ~> (loop = "select")
=============================================================================
