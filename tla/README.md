# Verification of rbw

`rbw` is a command line client for Bitwarden. A long-lived process,
`rbw-agent`, keeps the decrypted account keys in memory, locks them after a
while, keeps a local copy of each vault current, and answers requests of the
command line, of an ssh client and of remote clients. Around it are processes
that come and go: commands that start and replace the agent and change files
they share with it and with each other, a terminal interface that holds a
decrypted copy of the vaults, a root service that keeps a credential for a
finger, a browser host, and clients of an HTTPS interface. What makes this hard
is not the cryptography. It is that every request is a task of its own, that
prompts, network calls and timers lie between what a task reads and what it
does about it, and that most files are read, changed and written as a whole.

This directory holds TLA+ models of that concurrent core, the TLC instances
that check them, and TLAPS proofs of their main safety properties.

    tlc -workers 2 -config AgentLock.cfg AgentLockMC.tla
    tlapm AgentLockProofs.tla

`PROJECT.json` lists the runs, the theorems, the lines of the source each
definition stands for, and, under `hazards`, the places of the code that are
hard to test, with the properties that are about them.

Paths below are relative to `src/`; `agent/` stands for `src/bin/rbw-agent/`,
`commands/` for `src/bin/rbw/commands/`, `tui/` for `src/bin/rbw/tui/`.

## 1. The system

| Part | State it keeps | Operations | Talks to |
|---|---|---|---|
| Key cache (`agent/state.rs`) | per account: private keys, org keys, RSA key, reprompt set; the senders of two timers | `set_unlocked`, `refresh_org_keys`, `clear`, `clear_account`, `set_timeout`, `set_sync_timeout`, `set_master_password_reprompt` | everything in the agent, behind one mutex |
| Timers (`agent/timeout.rs`) | request queue, one sleep, tick queue | `set`, `clear`, expiry | the loop of the agent |
| Event loop (`agent/agent.rs`) | the event being handled | accept a connection, lock timeout, sync tick, pushed message, signal | spawns one task per request |
| Request handlers (`agent/actions.rs`, `agent/ssh_agent.rs`) | step of each task | login, unlock, lock, sync, decrypt, encrypt, purge, change of the master key, organizations, ssh list and sign | key cache, local db, server, pinentry |
| Notifications (`agent/notifications.rs`) | websocket, read task, list of channels | connect, disconnect, forward | the loop; sync tasks connect it |
| Pinentry (`src/pinentry.rs`) | child process | ask, time out, dismiss | handlers wait for it |
| Local database (`src/db.rs`) | one file per account: tokens, protected keys, entries | load, save by rename, remove | agent and every `rbw` command |
| Server calls (`src/actions.rs`, `src/api.rs`) | access and refresh token | call, refresh on 401, call again | local database |
| Client side unlock (`commands/session.rs`, `commands/process_cmds.rs`, `agent/daemon.rs`) | pid file of the agent, one lock file per account | start, check the version, replace, unlock with the sources of an account, follow, stop | agent; starts itself again for followers |
| Configuration (`src/config.rs`, `commands/account_cmds.rs`, `commands/config_cmds.rs`) | one file with all accounts | load, change a copy, save | every process |
| Native unlock (`commands/native_unlock_cmds.rs`, `src/desktop.rs`, `src/termux.rs`) | a credential per enrolment in a keyring, a TPM or an Android key store | enrol, remove, prune | configuration, agent, unlock daemon |
| Unlock daemon (`src/bin/rbw-unlockd/server.rs`, `src/unlockd.rs`, `src/creds.rs`) | credentials of each user in two stores, failure counters | enrol, unlock, remove, status | fingerprint reader, TPM |
| Remote API, policy (`src/remote_api.rs`, `commands/remote_api_cmds.rs`) | policy store, certificate and key of each client | create and revoke a client, grant, revoke | read by the agent for each request |
| Remote API, listener (`agent/api.rs`, `src/remote_api.rs`) | listener, server certificate and key, status file | supervise, renew, enable, disable, serve a field, unlock | key cache, handlers, configuration |
| Move, copy, mirror, import (`commands/collection_cmds.rs`, `commands/import_cmds.rs`) | none of its own; the entries on two servers | export, bulk create, create one by one, check, remove the original | two accounts of the agent and server |
| Terminal interface (`tui/app.rs`, `commands/tui_bridge.rs`) | decrypted accounts, cursor, cache of details, one mode | reload, select, edit, delete, lock screen, worker | agent, local databases, server |
| Passkeys and edits (`src/bin/rbw/passkey.rs`, `src/bin/rbw/browser/passkeys.rs`, `commands/set_cmds.rs`, `commands/write_cmds.rs`) | counter and revision of an entry, a lock file per passkey | sign in three ways, set the counter, edit, restore | server, browser |
| Audit log (`src/audit.rs`) | one file per day | append, prune, read | agent, commands, API |
| Browser extension (`browser/extension/`, `browser/browser-daemon/`), browser host (`src/bin/rbw/browser.rs`) | pending requests, cached search, offers to save | fill, save, passkey requests | host over a native port, host runs the commands |
| Home Assistant (`homeassistant/`) | last answer of the remote API | poll, unlock, report | remote API |
| Command line, MCP server, importers, cryptography | none that is shared | parsing, layout, computations on bytes | protocol of the agent |

How the parts meet:

* *Shared state.* All handlers, the loop, the ssh agent and the remote API lock
  the same `tokio::sync::Mutex<State>`. Most release it before they wait;
  `decrypt_cipher` keeps it while pinentry asks for the master password of a
  protected entry, and `subscribe_to_notifications` keeps it while it dials.
* *Channels.* `State` sends `Set` and `Clear` to a timer task; the task sends
  ticks to the loop; the read task of the websocket sends messages to the loop.
  None of them is bounded and none is drained when something is cancelled.
* *Files.* The local database is read and written whole, by the agent and by
  commands, with no lock around read, network call and write; so is the
  configuration, which is not even replaced by a rename. The policy store and
  the server's certificate have interprocess locks for their writers; readers
  take none. The credentials of the unlock daemon have no lock at all.
* *The server.* Entries have a revision, and an update says which one it was
  made from; a deletion, a bulk creation or an attachment does not.

## 2. What would make each part correct

* *Key cache and automatic lock.* Keys in memory always have their lock on the
  way; a slot is whole or empty; nothing is decrypted from a locked account;
  a prompt never leaves the agent stuck.
* *Background sync.* The next sync is always scheduled; the agent hears its
  server while it is connected; the local copy becomes the server's; the
  reprompt set is that of the copy.
* *Local database.* No writer undoes what another has written; a refreshed
  token is never lost; keys in memory belong to the vault in the file.
* *Client side unlock.* Of several commands that find no agent one starts it
  and all are served; one unlock at a time per account; unlocks of sources and
  of followers never wait for each other.
* *Configuration and native unlock.* Sources make no circle; what the
  configuration says is enrolled opens its account; no account disappears that
  nobody removed.
* *Unlock daemon.* After an acknowledged enrolment a credential is there and it
  is the one that was enrolled; nothing is released without a scan; the lockout
  bounds the attempts, also of connections that race.
* *Remote API.* An answer is covered by the policy in force at some moment of
  the request; grants and revocations do not undo each other; the certificate
  served fits its key and its name; the listener follows the configuration.
* *Moves.* No entry is lost between two vaults, and a copy is whole before its
  original goes.
* *Terminal interface.* What is deleted or overwritten is what the user was
  shown; what was decrypted leaves the memory with the lock.
* *Passkeys.* A counter is never signed twice and a relying party sees them
  grow; an edit does not take a counter back.
* *Audit log.* Records are whole and ordered; pruning removes expired days only.

## 3. Plan

| Order | Modules | Composes | Abstract specification | State |
|---|---|---|---|---|
| 1 | `AgentLock`, `AgentLockMC`, `AgentLockProofs` | key cache, lock timer, loop, request tasks, ssh agent, remote unlock | `Vault`, through `AgentLockVault` | done |
| 2 | `AgentSync`, `AgentSyncMC`, `AgentSyncProofs` | sync timer, loop, websocket, sync tasks | eventual equality with the server (`Converges`) | done |
| 3 | `AccountDb`, `AccountDbMC`, `AccountDbProofs` | agent handlers and commands that load, call and save one file; token rotation; key rotation against unlock | eventual equality with the server (`Converges`) | done, but for the removal of the file |
| 4 | `Unlockd`, `UnlockdMC`, `UnlockdProofs` | concurrent connections, two stores, crash, lockout | the last acknowledged credential (`acked`) | done |
| 5 | `ApiPolicy`, `ApiPolicyMC`, `ApiProofs` | command line writers, readers of the API | the operator's grants as a set (`granted`) | done, but for `/v1/unlock` |
| 6 | `ApiListener`, `ApiListenerMC`, `ApiProofs` | supervisor, commands, certificate renewal under a crash | the configuration (`FollowsConfiguration`) | done |
| 7 | `CliUnlock`, `CliUnlockMC`, `CliUnlockProofs` | commands that start, replace and unlock one agent, followers | one unlock at a time per account | done, but for systemd |
| 8 | `ConfigFile`, `ConfigFileMC`, `ConfigFileProofs` | commands on the configuration with native unlock; the change of the master password | | done |
| 9 | `VaultMove`, `VaultMoveMC`, `EntryProofs` | moves, copies and mirrors between two vaults, another device | the contents users gave up (`gone`) | done, but for overwriting mirrors |
| 10 | `Tui`, `TuiMC`, `EntryProofs` | the interface, its worker, the agent, other clients | | done, but for settings and pickers |
| 11 | `Passkey`, `PasskeyMC`, `EntryProofs` | sign-ins and edits on several devices | counters given out once | done |

What would come next: the browser extension (its native port, its queue of
requests and what a navigation or a lock does to a request under way); and the
audit log, whose writers are serialized by a file lock.

Names of definitions follow the source. A definition with an underscore, such
as `ClearAccount_StopsTimer`, is a slip of the operator it precedes: it is used
by nothing, and states one plausible mistake that some property must catch when
it takes the operator's place.

History variables record what a property is about and the code does not keep
(who has to restart a timer, what an operator granted). They never guard a step.
Where the code breaks a property in one known way, a history variable marks the
cases that fell under it, the property excepts them, and section 16 says what
happens there: the rest of the property is still worth having. Where the whole
property is what a document or a comment says, section 16 shows it fail.

## 4. AgentLock: the key cache and its automatic lock

**State.** `keys[a]` is the slot of account `a` in `State`: the set of the parts
(`priv_key`, `org_keys`, `rsa_private_key`) that are present. `timerReqs`,
`timer` and `ticks` are the timer task: its request queue, whether its sleep
runs, and the expiries the loop has not read. `loop` is the event the loop of
`Agent::run` has taken and not applied yet, `mutex` the request that keeps
`State` locked across a prompt. Each request slot has a `kind`, an account, a
step `pc` and the number of its password attempt. `owed` is a history variable:
who still has to restart the timer for the unlock of an account.

**Actions.** One step is the code between two points where a task gives up
control. `Accept` is the select arm that spawns a request (for the ssh agent and
the remote API, their own listeners); `StartUnlock`, `PasswordAccepted`,
`PasswordRejected`, `PromptFailed`, `Install` are `unlock_state`,
`login_with_resolved_password`, pinentry and `set_unlocked`; `Fetch` and
`Refresh` the two halves of `sync` with `refresh_org_keys`; `Lock`, `Rekey`,
`Use`, `RepromptAccepted` the handlers of the same names; `Reply`, `HangUp`,
`Finish` the end of `handle_request`, where `set_timeout` runs only after the
answer was written; `Touch` and `Arm` the places where the ssh agent and the
remote unlock restart the timer themselves; `TakeTimeout`, `TakeLogout`,
`ApplyClear` the loop; `Exit` a quit or a signal.

**Abstractions.** One `Use` stands for every decryption of a batch or of a key
search. Key contents are not modelled: whether a key still fits the vault is
`AccountDb`'s question. Whether the local file holds tokens, and what the server
says, is a choice. Cascaded unlocks of follower accounts arrive like any other
request. `"other"` stands for the requests that touch neither the keys nor
anything else that is modelled, but restart the timer.

**Runs.**

| Run | Instance | What it shows |
|---|---|---|
| `lock` | 2 accounts, 2 slots, every kind, budget 2, fair | `ServedUnlockExpires`, `KeysTogether`, `NoPlaintextWhileLocked`, `ServedUnlockIsLocked`, `RequestsEnd`; `AgentLock` implements `Vault` |

`ServedUnlockIsLocked` needs `PromptsExpire`: with `pinentry.timeout` = 0 an
unattended prompt of `decrypt_cipher` keeps the mutex, and the lock behind it,
for ever. `PromptPinsKeys` and `DebtIsPayable` are proved (section 15).

**Bounds.** `Budget` is the number of requests, server logouts and exits of a
behaviour. Two of them, each with all the steps of its request, and the timer,
which is free, put a lock, logout, expiry or exit between any two steps of an
unlock; two slots are enough for every race here because each hazard is between
one request and one other party (a second request, the timer, or the loop). The
safety properties hold with a budget of three too, for which symmetry of the
slots and no fairness is needed to keep the instance small. When the budget is
spent and all requests have ended the system rests with nothing to do, so the
run sets `CHECK_DEADLOCK FALSE`; that no request is stuck is `RequestsEnd`.

**Fairness.** The tokio runtime polls every ready task, the timer task reads its
channel and its sleep elapses, and the tokio mutex is handed out in FIFO order,
so each of these steps is weakly fair: while the mutex is kept across a prompt
its waiters are disabled, and when it is released it is free until one of them
takes it. Nothing a user does is fair. Only a prompt ends by itself, and only
when `pinentry.timeout` is positive (`PromptsExpire`), which is its default.

`Vault` is the promise in the terms of a user: the set of unlocked accounts, the
automatic lock pending or not, and decryptions from unlocked accounts only.
`AgentLockVault` instantiates it with the mapping from the agent's variables.
The run checks the refinement on the instance and `AgentKeepsPromise` proves it.

## 5. AgentSync: background synchronization

**State.** Vault contents are revisions: `server[a]`, `db[a]` in the local file,
`known[a]` in the reprompt set. `conn` is the account whose hub the one
websocket listens to, `channels` is `sending_channels`, `wire` and `inbox` are
the notifications under way. The sync timer is as in `AgentLock`, but only `Set`
is ever sent to it. `mutex` is the task that keeps `State` locked while it
dials. Every sync task has a step, the accounts it still has to sync and what it
fetched last. `met` is a history variable: where two syncs stood between the
same two steps, at the websocket (`Dialing`) or at the reprompt set of an
account.

**Actions.** `TakeTick` and `TakeNotification` are the select arms that spawn
`sync_all`, `SetSyncTimeout` what the arm does next; `ClientSync` a sync that a
client asked for; `Fetch`, `FetchFails`, `Save`, `SetReprompt`,
`CheckConnected`, `Dial`, `Dialed` the steps of `sync` and
`subscribe_to_notifications`; `Deliver` the read task; `ConnectionLost` its end;
`Change` another device. `Lock` and `Consult` are what other requests do to the
reprompt set.

**Abstractions.** Accounts stay logged in; a logout notification is in
`AgentLock`; a message of the hub is a sync message. `refresh_org_keys`, the
second critical section of `sync`, changes nothing that is state here.

**Runs.**

| Run | Instance | What it shows |
|---|---|---|
| `sync` | 1 account, 2 tasks, 1 change, fair | `SyncStaysScheduled`, `AgentListens`, `RepromptMatchesDb`, `Converges` |

`AgentListens` says that the agent is among those the messages of the websocket
go to, unless two syncs had both found it closed; `RepromptMatchesDb` that the
reprompt set is that of the saved vault, unless two syncs of the account were
between saving and setting it. Both exceptions are needed: without
them `HearsItsServer` and `RepromptIsOfLastSync` fail (section 16). The same instance satisfies `LoopReturns`: nobody keeps the mutex for ever.

**Bounds.** `Tasks` bounds the syncs at once and `MaxRev` the changes on the
server. Two tasks are the least that show a lost order. Two accounts with two
tasks are beyond TLC; the theorems cover any number of accounts, tasks and
revisions. Since a sync finds a free slot when there is one, the bound delays a
spawn, which the code does not; the fairness below makes sure that it is not
delayed for ever.

**Fairness.** Timer and read task are weakly fair. The loop and the tasks
compete for the mutex and for a free slot, which the FIFO mutex and the polling
order of `select_all` and `StreamMap` hand out in turn, so their steps are
strongly fair. A server that is asked for an account again and again answers at
some time; without that nothing can converge.

## 6. AccountDb: the file of an account and its tokens

**State.** `db` is the file: the refresh token, the KDF settings, the wrapped
user key, the private key and the entries, each as the number of the generation
it belongs to. `server` is the same account on the server; `minted`, `dead` and
`used` say which refresh tokens were issued, which belong to ended sessions and
which were exchanged. `mem` is the user key the agent holds. Every task has a
step, a kind, its copy of the file (`local`), whether a call refreshed its
tokens, and the user key it will install. History: `spared`, the generations of
the KDF settings and of the user key that came without an end of the sessions.

**Actions.** Everything is load, call, save. `StartSync`, `StartWrite`,
`StartChange`, `StartLogin`, `StartUnlock` load the file with the checks of the
handler; `Exchange` is the refresh after a 401, `SessionExpired` the
`invalid_grant` answer; `ReadVault`, `SendWrite`, `ChangeMasterKey`, `LogIn`,
`Fetch` are calls that succeed, `Fail` one that does not; `Save`, `Store` and
`Expire` write the whole copy back; `ClearAccount` is what a rotation does to
the memory of the agent before `Resync`, the sync a request ends with. `Reload`,
`EnterPassword` and `Install` are the ways to an unlocked account. `OtherDevice`
changes the master key from elsewhere. Each change, here or elsewhere, ends all
sessions or none: it "may end the current session", in the words of
`change_master_key` (`agent/actions.rs:1180`).

**Abstractions.** An access token may have expired at every call, as long as the
bound on tokens leaves one to exchange it for. The three reads of a key rotation
are one step. `write` stands for every request or command that changes something
on the server and then syncs: `purge_vault`, the organization requests, and the
commands through `after_server_write`. The password is always the right one.
How many entries there are does not matter, only which user key encrypts them:
order and loss of entries are `AgentSync`'s question. The server is external; it
is modelled by what the client sees of it, with one switch: whether a refresh
token is good for one exchange only (as with the identity providers
CHANGELOG.md:1626 mentions).

**Runs.**

| Run | Instance | What it shows |
|---|---|---|
| `db_tasks` | 2 tasks, 2 generations, 2 tokens, budget 2, fair | `KdfFitsKey`, `VaultReadable`, `LiveSessionIsCurrent`, `Converges` |

What a file may be behind the server is bounded by what its session outlived.
The KDF settings may be older than the wrapped key only if every change between
them spared the sessions: `sync` saves a new wrapped key and never new settings
(`KdfFitsKey`). The wrapped key on the server may be older than the vault only
if every rotation between them did: `change_master_key` wraps the user key of a
file it does not sync first (`VaultReadable`). And a file whose session goes on
has missed no change that ended sessions, whichever of two tasks saved it with
whose tokens (`LiveSessionIsCurrent`). `Converges` has the same exception: what
a sync does not repair are settings that changed under a session that goes on.
`OnlyRewraps` is what the exception costs (section 16).

**Bounds.** Two generations are an old one and one that spared the sessions or
ended them; two tokens an exchange or a second session; a budget of two a change
of the master key and a login, with any number of syncs among them. Without
fairness three of each pass too: a change that spares the sessions followed by
one that ends them, an exchange and a login. Two tasks are the least that
interleave; the theorems cover any number of tasks and generations. With the
budget spent and the account logged out, nothing happens any more: hence
`CHECK_DEADLOCK FALSE`.

**Fairness.** Calls and prompts end, a step that follows happens, the sync timer
comes again (that it does is `SyncStaysScheduled`), and a server that is asked
again and again answers at some time. Starting any other request is the user's.

## 7. Unlockd: the credential behind a finger

**State.** `tpm2` and `file` are the two files an enrolment may lie in, one
sealed and one for a machine without a TPM. `count` and `wait` are the failures
of the user and what is left of the lockout, in units of 30 seconds. `reader` is
the connection that has claimed the fingerprint reader. Each connection has a
step, its operation, the store and the password it is about, the number of its
scan and whether it matched. History: `acked`, the credential the last
acknowledged change promised, or that nothing is promised while one is under
way; `alone`, that no other change met this one; `overrun`, failures counted
while the lockout lasts.

**Actions.** One step is the code between two waits of a connection's task.
`CheckLockout` and `RecordScan` are the two ends of `scan`, with `Claim`,
`Match`, `NoMatch` (three fingers), `Interrupt` and `Cleanup` of `desktop.rs`
between them; `Write`, `RemoveOther`, `Read`, `RemoveSealed`, `RemoveFile` the
accesses to the two stores, each of which may fail; `Elapse` the clock,
`Restart` a service that is killed and started again.

**Abstractions.** One user and one enrolment; files and failures of others are
apart. The wire format, polkit and the encryption are left out. An enrolment
while a file of the other store is there removes that file after it has written
its own, as the code does.

**Runs.**

| Run | Instance | What it shows |
|---|---|---|
| `unlockd` | 2 connections, 2 passwords, 1 free failure, lockout of at most 2 units, 3 failures counted, budget 3, fair | `AckedIsServed`, `OverrunBounded`, `OnlyRemovalForgets`, `RequestsEnd` |

**Bounds.** `Budget` counts requests and restarts: an enrolment in one store,
one in the other and an unlock or a restart between them, or three scans at the
edge of the lockout. With one free failure the lockout starts at the second and
reaches its maximum at the third, so growth and cap both happen.

**Fairness.** The runtime polls every connection; a scan has a deadline of 60
seconds and the calls of `systemd-creds` have theirs; time passes.

## 8. CliUnlock: starting, replacing and unlocking an agent

**State.** The agent is a stage (down, starting, up), a version, the accounts
with keys and with tokens, those whose unlock it is starting, and those of
requests whose command was stopped (`unheard`). A version is a major and a minor
number; every command has its own (`Own`). An agent serves a command of the same
major and the same or an older minor version (`Compatible`). Per account
`lock` and `stamp` are the lock of its lock file and the process the file names.
Each command has a step, a kind (unlock, unlock by force, login, follower), the
chain of accounts it is unlocking, top last, and whether the password comes from
a source.

**Actions.** `CheckVersion`, `Quit`, `RunAgent`, `Started` are
`ensure_agent` with the agent's own daemonizing; `TakeLock`, `Stamp`, `Look`
the lock file and the second look once it is held; `Resolve` and `Found` the
recursion into the source of an account; `Prompt`, `Send`, `LoggedIn`, `Unlock`,
`Failed` the outcomes; `StartFollower` the commands an agent starts after an
unlock for the accounts whose source it was; `StopRunning` what `--force` does
to the process the lock file names. `RunAgent` starts an agent of the command's
own version. What the agent was doing for a stopped command goes on: its prompt
may be answered, and unlock the account, at any time until the agent exits
(`Unheard`).

**Abstractions.** Which dialog asks for the password is a choice, as is whether
the password is right. Stopping the agent through systemd is left out. A chain
has no circle: the configuration is checked for that (`ChainAssumption`,
`ConfigFile`).

**Runs.**

| Run | Instance | What it shows |
|---|---|---|
| `cli` | 2 accounts, one the source of the other, 2 commands of two minor versions, a first agent older than one of them or of a newer major, budget 2, fair | `LocksFollowSources`, `OneUnlockAtATime`, `CommandsEnd` |

**Bounds.** The safety properties pass with a budget of three as well. Two commands, of which one may be a follower started by the agent,
meet at every step. A chain of two has everything a longer one has, a lock that
is held while the next is awaited; the theorems cover any chain.

**Fairness.** Commands run, prompts are answered or time out, a started agent
listens (weak); the kernel gives a file lock to those who wait for it in turn
(strong).

## 9. ConfigFile: configuration and native unlock

**State.** `file` is the configuration (accounts, primary, source of each, what
each is enrolled with), `torn` that the file is empty while it is rewritten.
`store[i]` is the credential under the random id `i` of a desktop enrolment;
`key[a]` and `bundle[a]` the key and the bundle of a Termux enrolment;
`unlocked` the accounts whose keys the agent holds. Passwords are numbers:
`master[a]` is the one that opens the account's database here, a new password is
one more, and `Mistyped` opens nothing. Each command has a step, what it does,
and its copy of the file. History: `edited`, somebody saved by hand; `clean`,
commands ran one by one, got to their cleaning up, and nobody moved accounts or
enrolments by hand; `outdated`, ids of credentials that are known to be old, as
the password changed elsewhere or the command that changed it said that it could
not replace them.

**Actions.** A command begins with a load (`Add`, `Remove`, `Primary`,
`SetAccount`, `Set`, `Edit`, `Enroll`, `TermuxEnroll`, `Unenroll`,
`TermuxRemove`), goes through the prompts, checks and stores of an enrolment one
step at a time, and ends with `Truncate` and `Write` of the whole copy. Every
store may fail, every command may be killed. An edit by hand leaves any text the
file may have (`Typed`): accounts, sources, enrolments (`EditDone`), or one that
does not parse (`EditDropped`). `ChangePassword`, `Change` and `Update` are `rbw
security change-password`: the account as the file has it, the change on the
server, the credential replaced by the new password. `ChangedElsewhere` is
another device.

**Abstractions.** A partial write is an empty file. An id is drawn at random, so
nobody types one by chance that was never drawn. `Reach` bounds the accounts an
edit by hand changes the settings of. Other settings do not matter here, so a command that changes one of
them saves its copy as it was loaded.

**Runs.**

| Run | Instance | What it shows |
|---|---|---|
| `config` | 2 accounts, 2 ids, 2 commands, 1 failure or crash, edits by hand of 1 account, symmetric | `SourcesNeverCycle`, `DesktopCredentialsWork`, `CredentialsMatchConfig`, `OnlyRemovalForgets` |

`DesktopCredentialsWork` says that a configured credential is the master
password of today after any commands, a change of the password among them. It
and the two after it are for commands that do not overlap, all but the part
about mistyped passwords. Overlapping ones lose updates: the later save
undoes the earlier one, and a command that loads while another has truncated the
file finds no account at all and saves that.

**Bounds.** Two commands are an enrolment and a change of the password, a removal
or an edit that follows or meets it; two accounts are a circle's least. Three
commands pass without edits by hand (`Budget` = 3, `Reach` = 0: three minutes),
and one by one with them (`p2 = p1`); the theorems cover any number.
`ConfigFileMC` also
checks, for every configuration of that size, that `ChainEnds` is what the loop
of `credential_source_chain` computes (`WalkIsChainEnds`). At rest nothing
happens: `CHECK_DEADLOCK FALSE`. No liveness is claimed.

## 10. ApiPolicy: who may read what

**State.** `store` is `clients.json`, a policy per client; `lock` who holds
`clients.lock`; `keypair` which of a client's two files there are; `enabled` the
switch in the configuration. Each command has a step, its arguments and the
store it has loaded; each request a step, what it asks, the switch as it was
read, and the answer. History: `granted`, what the operator granted and did not
revoke; `since` and `wasOn`, what was granted and whether the API was on at some
moment since a request came.

**Actions.** `Command`, `Issue`, `TakeLock`, `Load`, `Save`, `Unissue` with
their failures and `Crash` are the commands of `remote_api_cmds.rs` over
`with_store_lock`; `Arrive`, `ReadConfig`, `ReadPolicy`, `Serve` the handlers of
`agent/api.rs`, which read the store without the lock.

**Abstractions.** One item per client, with its fields. `Permits` is the meaning
of a policy, among others of one that an older version wrote. Authentication by
certificate is the TLS library's. `/v1/unlock` is not modelled: the right to
unlock follows the client's account and outlives its last grant on an item as
long as it may read the status of some account.

**Runs.**

| Run | Instance | What it shows |
|---|---|---|
| `api_policy` | 2 commands, 1 request, 1 client, 2 accounts, 2 fields, budget 4, symmetric | `PolicyIsWhatWasGranted`, `ServedWasGranted`, `ClientsHaveKeys` |

**Bounds.** A budget of four is two commands and two requests in any order, or a
client that is created, granted, revoked and asked for. The theorems cover any
number of all of them.

## 11. ApiListener: the listener and its certificate

**State.** `on` and `host` are the configuration's switch and name; `cert`,
`by`, `fits`, `name` the certificate, its key and the file that records the name
they are for; `pkiLock` is `pki.lock`; `tls` and `listener` what the agent has
loaded and serves; `status` and `last` the status file and what the agent last
wrote to it. The agent's task and every command have a step and the name they
work for. History: `broken`, a renewal was broken off; `stale`, the status file
does not follow the agent.

**Actions.** `Tick`, `LoadTls`, `Bind`, `StartFails` are a turn of `supervise`;
`Enter`, `WriteCert`, `WriteKey`, `WriteName` the renewal, whoever makes it;
`Begin`, `Ensured`, `SaveConfig`, `EnsureAgent`, `WaitOver`, `StoppedOver`, `Disable`
the commands; `ListenerDies`, `AgentDies`, `Dies` what may end.

**Abstractions.** The listen address is followed as the name is and stays the
same. The authority never changes. Connections that are open are `ApiPolicy`'s.

**Runs.**

| Run | Instance | What it shows |
|---|---|---|
| `api_listener` | 2 processes that run 2 commands between them, 2 names, 1 failure, fair | `ServedKeyFits`, `NamesItsHostUnlessBroken`, `StatusIsTrue`, `FollowsConfiguration` |

**Bounds.** Two commands and the agent are three that may renew at once; two
names are an old and a new one; one failure breaks off one renewal, and a second
would repeat it. `CommandsEnd` holds in the same instance.

**Fairness.** The interval of the supervisor ticks and its steps are taken;
whoever waits for `pki.lock` gets it in the end (strong); commands go on.

## 12. VaultMove: entries between two vaults

**State.** `cipher[i]` is entry `i` on its server: its account, user name,
content, whether it is whole (fields, history, attachments), in an organization,
in the bin. `copies[a]` is the local copy. Each command has a step and its job:
the original, what is to be created, the ids that were there before, what the
bulk request and the single requests are still to do, the entries it has still
to fill, each with what it is filled from (`open`), those it has made, and
whether an entry has failed. An
entry is filled as far as the one that was read had been: who copies an entry
that another command is still making gets no more than there is of it. History:
`gone`, contents a user gave up; `mistaken`, an entry was taken for the
command's copy that was not; `overtaken`, an original was removed that had been
changed since it was read, on another device or by the command that was still
making it; `partial`, an upload of attachments failed and was counted. A command
that is killed counts nothing, and is not excused: what it has begun stays beside an
original that is whole.

**Actions.** `Move`, `Personal`, `Mirror` begin with the export; `Snapshot`,
`Purge`, `Index` read and clear the destination; `BulkOne` is one entry of a
bulk request taken by the server, `BulkDone` and `BulkFails` its answer and the
loss of it; `AddOne`, `Fill` the retry one by one and the second pass with
attachments and history. An entry that cannot be made or filled fails
(`AddFails`, `FillFails`): the import goes on with the others and is an error in
the end, which stops a move before its check (`Imported`). Attachments that
cannot be uploaded are counted and fail nothing (`AttachFails`). A mirror finds
attachments by the name of an entry, and of several with one name the first
takes those of all: `Fill` may leave an entry of a mirror without them. `Check`
and `Remove` are what becomes of the original; `Create`, `Edit` another device.

**Abstractions.** All entries bear the same name, since that is what a move
looks for. Entries bound for the personal vault and for an organization are one
bulk batch.

**Runs.**

| Run | Instance | What it shows |
|---|---|---|
| `move` | 2 commands, 2 accounts, 2 user names, 4 entries, 2 changes, 2 failures, symmetric | `NothingLost`, `CopiesAreWhole` |

**Bounds.** Four entries are two originals with a copy each; two failures a lost
answer and the failure of its retry.

## 13. Tui: the terminal interface

**State.** `vault[a]` is the loaded copy of an account, its database and its
index of what decrypts; `cursor` the row under the cursor; `cache` the decrypted
details; `mode` the open form, question, panel or gate, with what it belongs to;
`editor` an entry open in `$EDITOR`; `todo` and `inbox` the worker and its
channel. `unlocked`, `remote`, `db` are the agent, the server and the local
databases, which others change too (`Elsewhere`). History: `replaced`, accounts
whose loaded copy a late message of the worker replaced; `opened`, accounts that
others unlocked while a prompt for them was up.

**Actions.** One per key that does something to this state, one for each poll of
the event loop (`PollAgentLock`, `TakeMessage`), one for the worker. Every
action that writes includes the sync and the reload after it.

**Abstractions.** Normal and search mode are one list with one filter: the
cursor stays on its row if that row remains, and otherwise goes to any or none.
A deleted entry stays in the database, in the bin.

**Runs.**

| Run | Instance | What it shows |
|---|---|---|
| `tui` | 2 accounts with an entry each, one of which is there at first, 2 steps of others, 3 revisions, fair | `DeletesWhatWasConfirmed`, `SavesReplaceWhatWasSeen`, `SecretsLeave` |
| `tui_slots` | 3 entries, one of which does not decrypt, no step of others | finding: the row and the entry are not the same |

**Bounds.** Two accounts are the one the interface was opened on and one the
worker loads. Three revisions are what the user saw, a change by others and one
by the user.

**Fairness.** `run_loop` calls `poll_agent_lock` in every turn; nothing else is
fair, least of all the user. `SecretsLeave` says what that poll achieves, and
names the gates behind which it does not.

## 14. Passkey: counters and edits

**State.** `server` is the entry, its revision and counter; `local[d]` the copy
of a device; `lock[d]` the lock file of the passkey. Each process has a step, a
kind, the entry it selected, the revision its editor showed, the counter it
reserves and, for an injection, the counter of the browser's authenticator.
An entry may also lose its counter (`Missing`), and then nobody signs with it.
History: `sigs`, how often each counter was signed; `loose`, counters a page
asserted that nobody had reserved, or that were reserved when the user took the
counter back; `last`, the last counter of each device.

**Actions.** `Select`, `TryLock`, `Reselect`, `Reserve`, `Write`, `Confirm`,
`Sign` are `assertion_value`, the browser host's sign-in and the beginning of
`inject`; `PageAsserts`, `Freeze`, `Close` the virtual authenticator and the
final counter; `Open`, `Leave`, `Reopen` the edits; `Write` and `AnswerLost` the
update of the entry with its revision check. A structured edit (`--yaml`,
`--json`, `--patch`) writes any counter or none, as its text has it
(`NewCounters`); the other edits carry over what they had read. With a reset or
with a smaller counter in such an edit the user takes the counter back
(`TakesBack`), and the history begins anew, since from then on counters are
given out again by intent; `Sync` the sync after it. Whatever
fails, the browser host syncs once with what the server has by then, and tries
again (`Retry`).

**Abstractions.** A sync is one step; overlapping syncs are `AgentSync`'s. The
browser may sign 0 for a counter that was 0 in its copy. `counter --set` and
`--reset` take no lock of the entry. Signatures, password history and copies of
a passkey in two entries are left out.

**Runs.**

| Run | Instance | What it shows |
|---|---|---|
| `passkey` | 2 devices, 3 processes, counters up to 3, budget 3, symmetric in the processes of one device | `CountersAreReserved`, `SignedInOrder` |

**Bounds.** Two processes on one device meet at the lock file, the third on
another device at the server's revision check. Three counters are one signed,
one reserved and one more.

## 15. Proofs

The proof modules extend the component's module and hold for every value of the
constants that satisfies its assumptions.

`AgentLockProofs`:

* `TypeCorrect`. The request queue is a sequence whose last element decides
  `Scheduled`; lemmas `AppendSchedules`, `LastOfTail` and `ReadKeepsSchedule`
  say what appending and reading do to it.
* `KeysStayTogether`. `KeysTogether` is inductive with the type invariant:
  `refresh_org_keys` adds org keys only where the RSA key still is, and that is
  where everything is.
* `ServedUnlocksExpire`. `ServedUnlockExpires` is inductive only together with
  `KeysTogether`: without it a refresh could complete a slot that had kept some
  parts, and unlock an account nobody had scheduled.
* `PromptsPinKeys`, and from it `LockedGivesNothing`: whoever changes a slot
  needs the free mutex, and a request at a prompt keeps it.
* `DebtsArePayable`, from the strengthening that only requests which unlock
  reach the steps of an unlock (`Unlockers`) and that a debtor stands where it
  can pay (`WhoOwesPays`).
* `AgentKeepsPromise`: every step is a step of `Vault` or leaves its state
  alone. `VaultTaskStep`, `VaultUserStep` and `VaultNext` go through the actions;
  `VaultOpens`, `VaultCloses`, `VaultClosesAll`, `VaultRenews`, `VaultReveals`
  and `VaultIsLeft` are what they come down to. It uses the invariants above,
  since a vault opens only with its lock due (`ServedUnlockExpires`) and one
  account at a time (`KeysTogether`), and `Silent`: whoever is answered without
  a prompt or a key gets no secret.

`AgentSyncProofs`:

* `TypeCorrect`, with `Busy`: a task that is not idle has an account to work on,
  without which `Head` of its list would mean nothing.
* `SyncChain`: `SyncStaysScheduled` for every number of tasks and accounts.
* `SyncsKeepListening` and `SyncsKeepReprompt`: `AgentListens` and
  `RepromptMatchesDb` for every number of tasks, accounts and revisions. The
  strengthenings (`NobodyElseDials`, `NobodyElseSaves`) say that a task between
  the check and the act, or between saving and setting, is the only one there
  unless `met` says otherwise; `MetGrows` that what `met` excuses stays excused.

`AccountDbProofs`:

* `TypeCorrect`, with the kinds of task that reach a step (`StepsOfKinds`).
* `SoundAlways`: `KdfFitsKey`, `VaultReadable` and `LiveSessionIsCurrent` are
  three faces of one invariant about every copy of the file, the file's own and
  those of all tasks. In a copy the settings are not newer than the wrapped key,
  and the changes between them spared the sessions; and as long as its session
  goes on, so did all changes between the copy and the server. A sync keeps the
  first because it only succeeds with a live session, which makes what it puts
  together from an old copy and a new answer a difference the session outlived.
  A change of the master key either ends every session, so that all other copies
  are exempt from the second, or adds its generation to `spared`. The lemmas
  about `Spared` (it holds of equal generations, adds up along a way, and does
  not shrink as `spared` grows) are all the arithmetic. From the invariant
  follow `SettingsFit`, `ServerReadable` and `LiveIsCurrent`, for any number of
  tasks and whatever the server does about sessions.

`UnlockdProofs`: `AcknowledgedIsServed` and `RemovalForgets`, from `FilesInv`. A
change that has touched a file and is not done keeps `acked` unknown
(`Unpromised`); one that is still alone knows what the other store holds
(`Alone`); only a removal stands at the removal (`Removing`). What other
connections do to the scan and the lockout leaves all that (`AsidePreserves`),
and a second change takes the first one's promise (`DisturbPreserves`).
`OverrunsAreFew` counts: the failures recorded during a lockout and the scans
still under way (`Scans`), which all began before it, are together no more than
the other connections. That is inductive with the types (`LockoutInv`): the
record that begins a lockout leaves the others' scans, a later one takes one
from the scans and adds at most one to the overrun (`LockoutRecords`), and no
scan starts during a lockout (`LockoutBegins`).

`CliUnlockProofs`: `SingleUnlock` and `LocksAreOrdered`, from `LockInv`: a
command's chain follows the sources, the locks it holds are those of the
accounts on the chain from the first up to the one it works on, and two
commands never hold the same. That an account is never twice on a chain
(`FollowingDiffers`) is where `ChainAssumption` is needed; a command would wait
for its own lock otherwise. Versions play no part in it: the invariant holds
however agents come and go.

`ConfigFileProofs`: `DesktopVerified`, `NoCircles`, `NeverTwoProviders`, each
from an invariant about the file and the copies of all commands at the steps
where they will be saved (`WorkInv`, `CycleInv`, `ProviderInv`). A lost update
does not matter to them: whatever copy is saved last was checked as a whole. An
edit by hand is not, and `NoCircles` and `NeverTwoProviders` end with it. That a
credential is the password of today is the part of `DesktopVerified` about
commands that run one by one: it needs `CleanInv` below and what a change of the
password leaves at each of its steps (`CurrentInv`).
`NoCircles` uses `CheckedSource`: giving an account a source whose chain ends
closes no circle. `NothingIsLeftBehind` and `OnlyRemovalDrops` are about commands
that run one by one, and from `CleanInv`: it says of each step of each kind of
command how far the stores are from the file and the copy from both (`Doing`),
that no two accounts share a credential (`Owned`), and that a credential in the
file is never drawn again. `WriteIsSound` is its core: the copy a command writes
makes the file match what is stored.

`ApiProofs`, about `ApiPolicy`: `PolicyFollowsOperator`, from `StoreInv`: who
holds the lock has the store as its copy, so that a save changes the grants by
what the command means, and each update of a policy does to its permissions what
the command says (`GrantedPermits`, `RevokedPermits`, `StatusGrantedPermits`,
`StatusRevokedPermits`, for older policies too). `AnswersWereGranted` from that
and `RequestInv`; `PoliciesHaveKeys` from `KeyInv`, which says that an identity
is in the hands of one creation, and that a policy goes before its files;
`TypeCorrect`. About `ApiListener`: `KeyFits` and `NameFits`, from `PkiInv`: only
the holder of `pki.lock` works on the files (`Locked`), at each step of a renewal
the three files are as far as that step says (`Renewal`), and what was loaded was
loaded when they fitted (`Loaded`). `StatusTrue` from `Reported`, about the steps
of a turn of the supervisor.

`EntryProofs`, about `VaultMove`: `MoveTypeCorrect`, from `MoveInv`: what a
command is still to create comes from what it read (`JobInv`), all but mirrors
work on one entry, and all that a command makes has a later id than its original.
`NothingIsLost` and `CopiesStayWhole` are one argument, `Keeps(w)`, about entries
of any shape and about whole ones. That every content is somewhere is not
inductive: the original a command removes could be the only entry, when the copy
it made has been moved on and removed by another command. The strengthening
(`Backed`) is that as long as a content has not been given up, there is an entry with its content *later than the original*, for each command that has made
something (for whole ones: and filled it). A removal takes the original, which is
not later than itself; and if the entry removed is the one that backs another
command's copy, then the command that removes it had itself made a still later
one. Ids are finite, but the proof needs no such count. A mirror removes nothing
one by one, and a purge gives up what it removes.

About `Passkey`: `PasskeyTypeCorrect`, `NoCounterTwice`, `SignaturesInOrder`, from
`KeyInv`. A counter the server has taken and nobody has signed is *claimed*
(`Claims`): it is not above the vault's, has no signature, is above whatever the
device has signed, and no two processes claim the same (`Claimed`). A write makes
a claim, and its revision check is where that holds: whoever writes had read the
entry that is there (`ReadFrom`), so its counter is new to the vault. The lock of
the item (`Holds`) is needed for the order on one device alone, since that of the
devices is the revision check's. When the user takes the counter back, all
claims go (`ResetStep`).

About `Tui`: `ConfirmedDeletions` and `SavesAreOfWhatWasSeen`, from `TuiInv`. In an
account whose entries all decrypt (`Clean`) a row stands for the entry it shows
(`RowIsEntry`, from `PositionsDiffer`: in a finite set of numbers the position
tells which one it is). With that, what a form, the cache and an editor hold is
what the loaded copy has (`Shown`) unless the worker has replaced the copy, and a
question about a deletion is about the row the cursor is on. The server's
check of the revision does the rest: it accepts what was made from the loaded
copy only if that is current. Nothing is assumed of the other accounts.
`DeletionsAsConfirmed` and `SavesReplaceTheSeen` are the properties of the run
for a vault in which everything decrypts, and `TuiTypeCorrect` needs that too;
without it the first is false (section 16, `tui_slots`).

The invariants these proofs use (`MoveInv` and `Keeps`, `KeyInv`, `TuiInv`) were
model-checked on the instances of the runs before they were proved.

Seven type invariants are proved and not run (those of `AgentLock`, `AgentSync`,
`AccountDb`, `ApiPolicy`, `VaultMove`, `Passkey` and `Tui`), as are
`PromptPinsKeys`, `DebtIsPayable` and `OneProvider`. Every other property of a
passing run that does not say that something happens in the end is proved.

Only model-checked: liveness (`ServedUnlockIsLocked`, `RequestsEnd` twice,
`Converges` twice, `CommandsEnd`, `FollowsConfiguration`, `SecretsLeave`), which
needs `ENABLED`.

## 16. Findings

One run is expected to fail. `tui_slots`: the index the list is made of leaves
out entries that do not decrypt, but a row's position in it is used as a
position in the database, so a row after such an entry stands for another one
(`findings` in `PROJECT.json` has the lines). Deleting it moves the wrong entry
to the bin.

Other behaviours that a document or a comment of the repository excludes were
found in the same models. Each is a property of its module that TLC finds
violated when it is added to the named configuration, or by the configuration
of its own that the row names:

| Module | Property | How to see it | What happens |
|---|---|---|---|
| `AgentLock` | `KeysLeaveMemory` | one account, `Kinds <- MCSshOnly` | The ssh agent restarts the lock timer before its prompt (`agent/actions.rs:2587`): when it expires under the prompt, the keys stay, against docs/configuration.md:14. With `Kinds` = {"unlock"} it is a client that hangs up before it is answered. |
| `AgentSync` | `HearsItsServer` | `AgentSync_hears.cfg` | CHANGELOG.md:2131 says that background syncing happens when the server notifies the agent. The second of two syncs that found the websocket closed reconnects it and clears the list of channels (`agent/notifications.rs:61`). The agent is not told and listens to a channel nobody sends to, and since it is connected no later sync connects again. |
| `AgentSync` | `RepromptIsOfLastSync` | `AgentSync_reprompt.cfg` | `agent/state.rs:156` says that the set is from "the most recent sync". Two syncs save in one order and set in the other (`agent/actions.rs:1531`). |
| `AgentSync` | `TimerStaysOff` | `PeriodicSync` = FALSE, one task | A pushed notification starts the timer although the interval is 0 (`agent/agent.rs:256`), against nix/hm-module.nix:404. |
| `AccountDb` | `OnlyRewraps` | `AccountDb_rewraps.cfg` | docs/usage.md:87 says that `change-password` and `kdf` "only re-wrap the account key". `change_master_key` wraps the key it finds in the local file, without a sync before (`agent/actions.rs:1018-1050`). If another device has rotated that key and the session outlived it ("may end the current session", 1180), the server takes the change and holds a wrapped key that its vault is no longer encrypted with. |
| `AccountDb` | `LoggedOutOnlyWhenDead` | `MaxToken` = 2, `Budget` = 0 | A sync whose token another one has exchanged clears the good ones (`agent/actions.rs:1509`). |
| `AccountDb` | `RefreshTokenKept` | the same with one task | Refreshed tokens are dropped when the repeated call fails (`src/actions.rs:1223`), against CHANGELOG.md:1627. |
| `AccountDb` | `InstallsCurrentKey` | `RotatingTokens` = FALSE, `Budget` = 3 | An unlock that waited through a rotation installs the replaced key (`agent/actions.rs:792`). |
| `CliUnlock` | `NewerAgentStays` | `CliUnlock_newer.cfg` | `commands/process_cmds.rs:173` says "A newer major is never stopped". A newer rbw replaces the agent between the moment an older one has read its version and the moment it tells whoever listens to quit (185, on a new connection). The newer agent quits. |
| `CliUnlock` | `OnlyHoldersAreStopped` | as `cli` | `--force` stops the process the lock file names, which may have finished its unlock and gone on (`commands/session.rs:139`). |
| `CliUnlock` | `FollowersNeverPrompt` | as `cli` | A follower prompts for its source, if that has been locked again (`commands/session.rs:170`), against docs/usage.md:30. |
| `CliUnlock` | `ServingAgentStays` | as `cli` | A command that found an old agent tells whoever listens by then to quit, also one that would serve it (`commands/process_cmds.rs:171`). |
| `ConfigFile` | `TermuxBundlesWork` | as `config` with `Budget` = 1, `Reach` = 0 | `termux_enroll` verifies a password by an unlock, which an unlocked agent grants (`commands/native_unlock_cmds.rs:450`, comment at 458). |
| `ApiListener` | `NamesItsHost` | `ApiListener_name.cfg` | docs/remote-api.md:17 says that the configured name is placed in the certificate. A renewal for another name ends after the certificate and its key (`src/remote_api.rs:603`). The old name is configured again, the file `hostname` still says it, nothing is renewed (552), and the certificate of the other name is served. |
| `VaultMove` | `MovesBringAttachments` | `VaultMove_attachments.cfg` | docs/usage.md:251-257 says of `rbw move` "attachments included" and "Nothing is trashed or deleted unless the copy was verifiably created". An upload that fails is counted (`commands/import_cmds.rs:114`); the move finds its copy and disposes of the original, attachments and all. |
| `VaultMove` | `SkippedCopyCostsNothing` | as run | The check that the copy arrived counts an entry that another command made (`commands/collection_cmds.rs:358`, comment at 227). |
| `Passkey` | `EditsKeepCounters` | `Passkey_edits.cfg` | docs/passkeys.md:7-8 says that `rbw edit` and `rbw set` "never expose the raw credential fields for editing". The text of `--yaml` and `--json` holds every field, the counter included (`commands/data_types.rs:218`), and is written back unchecked (`commands/convert.rs:285`), below counters that were signed. |
| `Passkey` | `EditsRejectChanges` | `Passkey_field.cfg` | docs/usage.md:301 says that "revision checks still reject changes made while an editor or confirmation prompt is open". `edit --field` reads the entry anew after its editor has closed (`commands/write_cmds.rs:548`), so a change made meanwhile is overwritten. |
| `Passkey` | `CountersNeverRepeat` | as run | A page asserts again between the last look at its authenticator and its removal, so the next sign-in signs that counter again (docs/passkeys.md:27 says so of an interrupted login only, and 34 warns of concurrent ones). |

Smaller ones, seen while modelling: two enrolments of the unlock daemon that
overlap in different stores may delete each other's files, and cancelled scans
count as failures although `src/bin/rbw-unlockd/server.rs:15` says "Failed scans
(no match, timeout)"; a status file left by an agent that died lets `api enable`
claim a success, and a status that could not be saved is not saved again; a
rerun of a move after a lost bulk answer makes duplicates; commands that overlap
on the configuration lose updates, and one that loads while another writes may
save a file without accounts (`config` excuses it, section 9); the screen lock of the interface is passed
without a password when another process has unlocked the account
(`tui/app.rs:2045`); a message of the worker that comes late replaces a loaded
account and leaves its cached details; an add form whose sync failed stays open
and a second Enter adds the entry again.

## 17. Not modelled

* Of the modelled parts: which accounts `/v1/unlock` admits; removal of the
  local file by `rbw purge`, and registration; stopping an agent through
  systemd; key aliases; mirrors that overwrite or are of one collection, export
  to files and foreign formats; the interface's settings, pickers, new accounts
  and sessions over export files.
* Organizations and collections: each command is one request and a sync.
* The audit log: writers append under a file lock, readers skip what they
  cannot parse; what could interleave is within one locked section.
* WebAuthn as a second factor: one sequential ceremony during a login.
* The browser extension, its host and its daemon are a program of their own over
  the commands modelled here; `Passkey` has what the host does to a vault.
* The Home Assistant integration is a client of the remote API that polls.
* The dialogs of an unlock (`src/unlock_ui.rs`): that a prompt is answered,
  refused or left alone is a choice of the models.
* Cryptography and identities are computations on bytes; the API client is input
  and output, of which the models keep the outcomes; the command line and the
  MCP server are parsing and layout over the agent's protocol.
