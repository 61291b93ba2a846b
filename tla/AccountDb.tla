----------------------------- MODULE AccountDb -----------------------------
(***************************************************************************)
(* The local database of one account (db.rs): a single file that holds the *)
(* session's tokens, the KDF settings, the wrapped keys and the entries.   *)
(* Requests of rbw-agent and commands of rbw read it whole, talk to the    *)
(* server, and write it whole, with nothing to keep others out in between  *)
(* (actions.rs of both programs). The agent also keeps the user key of an  *)
(* unlocked account in memory.                                             *)
(*                                                                         *)
(* A key, a KDF setting, a vault is the number of its generation; a        *)
(* refresh token is its number in the order of issue. The access token is  *)
(* not modelled: it may have expired at every call, as long as there are   *)
(* tokens left to refresh it with.                                         *)
(***************************************************************************)
EXTENDS Integers

CONSTANTS
  Tasks,              \* bound: requests and commands at once
  MaxGen,             \* bound: generations of a key and of the KDF settings
  MaxToken,           \* bound: refresh tokens the server issues
  Budget,             \* bound: requests other than syncs, exits, and changes
                      \* made on another device
  RotatingTokens      \* a refresh token is good for one exchange only

ASSUME BoundAssumption ==
  /\ MaxGen \in Nat \ {0}
  /\ MaxToken \in Nat \ {0}
  /\ Budget \in Nat
ASSUME ServerAssumption == RotatingTokens \in BOOLEAN

VARIABLES
  server,   \* the account on the server: KDF settings, the user key wrapped
            \* under a master key, and the user key its vault is encrypted with
  minted,   \* the last refresh token issued
  dead,     \* tokens up to this one belong to sessions that were ended
  used,     \* tokens that were exchanged for another
  spared,   \* history: generations of the KDF settings and of the user key
            \* that came without an end of the sessions
  db,       \* the file
  mem,      \* user key in the memory of the agent, or Locked
  budget,
  pc, kind, \* per task: its step, what it is
  local,    \* per task: its copy of the file
  fresh,    \* per task: whether a call refreshed the tokens
  cred      \* per task: the user key it is going to install

serverVars == <<server, minted, dead, used, spared>>
taskVars   == <<pc, kind, local, fresh, cred>>
vars == <<serverVars, db, mem, budget, taskVars>>

NoToken == 0
Locked  == 0

Gens   == 1..MaxGen
Tokens == NoToken..MaxToken
\* A user key wrapped under the master key of some KDF settings.
WrappedKeys == [kdf : Gens, user : Gens]
Files == [token : Tokens, kdf : Gens, key : WrappedKeys,
          private : Gens, entries : Gens]

ChangeKinds == {"password", "kdf", "rotate"}
Kinds == {"sync", "write", "login", "unlock"} \union ChangeKinds
\* The steps at which a call of the server is made for the first time, and
\* after a refresh of the tokens.
FirstCalls == {"read", "call", "fetch"}
Again(p) == CASE p = "read" -> "reread"
              [] p = "call" -> "recall"
              [] p = "fetch" -> "refetch"
Calls == FirstCalls \union {"reread", "recall", "refetch"}
PCs == Calls \union {"idle", "login", "prompt", "save", "clear", "sync",
                     "store", "expire", "reload", "install"}

FirstKey  == [kdf |-> 1, user |-> 1]
FirstFile == [token |-> 1, kdf |-> 1, key |-> FirstKey,
              private |-> 1, entries |-> 1]
Blank     == [FirstFile EXCEPT !.token = NoToken]

TypeOK ==
  /\ server \in [kdf : Gens, key : WrappedKeys, vault : Gens]
  /\ minted \in 1..MaxToken
  /\ dead \in 0..minted
  /\ used \subseteq 1..minted
  /\ spared \in [kdf : SUBSET Gens, user : SUBSET Gens]
  /\ db \in Files
  /\ mem \in Gens \union {Locked}
  /\ budget \in 0..Budget
  /\ pc \in [Tasks -> PCs]
  /\ kind \in [Tasks -> Kinds]
  /\ local \in [Tasks -> Files]
  /\ fresh \in [Tasks -> BOOLEAN]
  /\ cred \in [Tasks -> Gens]
  /\ \A t \in Tasks :
       /\ pc[t] = "login" => kind[t] = "login"
       /\ pc[t] = "prompt" => kind[t] = "unlock"
       /\ pc[t] \in {"read", "reread", "clear"} => kind[t] = "rotate"
       /\ pc[t] \in {"call", "recall"} => kind[t] \in {"write"} \union ChangeKinds

Init ==
  /\ server = [kdf |-> 1, key |-> FirstKey, vault |-> 1]
  /\ minted = 1
  /\ dead = 0
  /\ used = {}
  /\ spared = [kdf |-> {}, user |-> {}]
  /\ db = FirstFile
  /\ mem = Locked
  /\ budget = Budget
  /\ pc = [t \in Tasks |-> "idle"]
  /\ kind = [t \in Tasks |-> "sync"]
  /\ local = [t \in Tasks |-> Blank]
  /\ fresh = [t \in Tasks |-> FALSE]
  /\ cred = [t \in Tasks |-> 1]
-----------------------------------------------------------------------------
(* The server.                                                             *)

\* The session of token n goes on.
Alive(n) == dead < n

\* The refresh tokens the server would still exchange.
LiveTokens == {n \in (dead + 1)..minted : n \notin used}

\* A change of the master key ends every session, or it spares them all.
EndSessions(ends) ==
  IF ends
  THEN dead' = minted /\ UNCHANGED spared
  ELSE /\ spared' = [kdf |-> spared.kdf \union ({server'.kdf} \ {server.kdf}),
                     user |-> spared.user
                                \union ({server'.vault} \ {server.vault})]
       /\ UNCHANGED dead

Spend == budget > 0 /\ budget' = budget - 1

\* The user changes the master password, the KDF settings or the user key on
\* another device.
OtherDevice ==
  \E k \in ChangeKinds, ends \in BOOLEAN :
    LET kdf   == IF k = "kdf" THEN server.kdf + 1 ELSE server.kdf
        vault == IF k = "rotate" THEN server.vault + 1 ELSE server.vault
    IN /\ kdf <= MaxGen /\ vault <= MaxGen
       /\ Spend
       /\ server' = [kdf |-> kdf, key |-> [kdf |-> kdf, user |-> vault],
                     vault |-> vault]
       /\ EndSessions(ends)
       /\ UNCHANGED <<minted, used, db, mem, taskVars>>
-----------------------------------------------------------------------------
(* Tasks: how they begin and end.                                          *)

Goto(t, p) == pc' = [pc EXCEPT ![t] = p]

Begin(t, k, p) ==
  /\ pc[t] = "idle"
  /\ Goto(t, p)
  /\ kind' = [kind EXCEPT ![t] = k]
  /\ local' = [local EXCEPT ![t] = db]
  /\ UNCHANGED <<serverVars, db, mem, fresh, cred>>

\* The copies of the tasks in S are dropped.
End(S) ==
  /\ pc' = [t \in Tasks |-> IF t \in S THEN "idle" ELSE pc[t]]
  /\ kind' = [t \in Tasks |-> IF t \in S THEN "sync" ELSE kind[t]]
  /\ local' = [t \in Tasks |-> IF t \in S THEN Blank ELSE local[t]]
  /\ fresh' = [t \in Tasks |-> IF t \in S THEN FALSE ELSE fresh[t]]
  /\ cred' = [t \in Tasks |-> IF t \in S THEN 1 ELSE cred[t]]

\* A sync, of the timer, of a pushed notification or of a client.
StartSync(t) ==
  /\ db.token # NoToken
  /\ Begin(t, "sync", "fetch")
  /\ UNCHANGED budget

\* A command that changes something on the server and then syncs.
StartWrite(t) == db.token # NoToken /\ Spend /\ Begin(t, "write", "call")

\* A change of the master key: the current password must open the user key
\* in the file.
StartChange(t, k) ==
  /\ db.key.kdf = db.kdf
  /\ db.token # NoToken
  /\ Spend
  /\ Begin(t, k, IF k = "rotate" THEN "read" ELSE "call")

StartLogin(t) == db.token = NoToken /\ Spend /\ Begin(t, "login", "login")

StartUnlock(t) == mem = Locked /\ Spend /\ Begin(t, "unlock", "prompt")

\* A call or a prompt fails, or a change is refused.
Fail(t) ==
  /\ pc[t] \in Calls \union {"login", "prompt"}
  /\ End({t})
  /\ UNCHANGED <<serverVars, db, mem, budget>>

\* The agent exits, whatever it was doing. A command of the user goes on
\* with its own part.
Exit ==
  /\ Spend
  /\ mem' = Locked
  /\ End({t \in Tasks : ~(kind[t] = "write" /\ pc[t] \in {"call", "recall", "save"})})
  /\ UNCHANGED <<serverVars, db>>

\* A lock of any cause.
Lock ==
  /\ mem # Locked
  /\ mem' = Locked
  /\ UNCHANGED <<serverVars, db, budget, taskVars>>
-----------------------------------------------------------------------------
(* Calls of the server. Every call is made with the tokens of the copy; if *)
(* the access token is refused they are exchanged and the call is repeated *)
(* once.                                                                   *)

Answered(t, p) ==
  /\ pc[t] \in {p, Again(p)}
  /\ Alive(local[t].token)

Exchange(t) ==
  /\ pc[t] \in FirstCalls
  /\ local[t].token \in LiveTokens
  /\ IF RotatingTokens
     THEN /\ minted < MaxToken
          /\ minted' = minted + 1
          /\ used' = used \union {local[t].token}
          /\ local' = [local EXCEPT ![t].token = minted + 1]
     ELSE UNCHANGED <<minted, used, local>>
  /\ fresh' = [fresh EXCEPT ![t] = TRUE]
  /\ Goto(t, Again(pc[t]))
  /\ UNCHANGED <<server, dead, spared, db, mem, budget, kind, cred>>

\* The refresh token is rejected: a sync takes note, the others just fail.
SessionExpired(t) ==
  /\ pc[t] \in FirstCalls
  /\ local[t].token \notin LiveTokens
  /\ IF pc[t] = "fetch"
     THEN /\ local' = [local EXCEPT ![t].token = NoToken]
          /\ Goto(t, "expire")
          /\ UNCHANGED <<kind, fresh, cred>>
     ELSE End({t})
  /\ UNCHANGED <<serverVars, db, mem, budget>>

SendWrite(t) ==
  /\ kind[t] = "write"
  /\ Answered(t, "call")
  /\ Goto(t, IF fresh[t] THEN "save" ELSE "sync")
  /\ UNCHANGED <<serverVars, db, mem, budget, kind, local, fresh, cred>>

\* A rotation fetches the vault, which the old user key must decrypt. Stands
\* for its three calls.
ReadVault(t) ==
  /\ Answered(t, "read")
  /\ local[t].key.user = server.vault
  /\ Goto(t, "call")
  /\ UNCHANGED <<serverVars, db, mem, budget, kind, local, fresh, cred>>

NewKdf(t)  == IF kind[t] = "kdf" THEN local[t].kdf + 1 ELSE local[t].kdf
NewUser(t) == IF kind[t] = "rotate" THEN server.vault + 1
              ELSE local[t].key.user

\* A rotation wraps the user key it found instead of the new one.
WrappedKey_Old(t) == [kdf |-> NewKdf(t), user |-> local[t].key.user]
\* The user key wrapped under the new master key.
WrappedKey(t) == [kdf |-> NewKdf(t), user |-> NewUser(t)]

NewPrivate(t) ==
  IF kind[t] = "rotate" THEN NewUser(t) ELSE local[t].private

\* change_master_key forgets to save the KDF settings.
Changed_KeepsKdf(t) ==
  [token |-> local[t].token, kdf |-> local[t].kdf, key |-> WrappedKey(t),
   private |-> NewPrivate(t), entries |-> local[t].entries]
\* What change_master_key is going to save.
Changed(t) ==
  [token |-> local[t].token, kdf |-> NewKdf(t), key |-> WrappedKey(t),
   private |-> NewPrivate(t), entries |-> local[t].entries]

\* The server takes the new master key if the hash of the current password,
\* which depends on the KDF settings, is right. The answer may be lost.
ChangeMasterKey(t) ==
  /\ kind[t] \in ChangeKinds
  /\ Answered(t, "call")
  /\ local[t].kdf = server.kdf
  /\ NewKdf(t) <= MaxGen /\ NewUser(t) <= MaxGen
  /\ server' = [kdf |-> NewKdf(t), key |-> WrappedKey(t),
                vault |-> IF kind[t] = "rotate" THEN NewUser(t)
                          ELSE server.vault]
  /\ \E ends \in BOOLEAN : EndSessions(ends)
  /\ \/ /\ local' = [local EXCEPT ![t] = Changed(t)]
        /\ Goto(t, "save")
        /\ UNCHANGED <<kind, fresh, cred>>
     \/ End({t})
  /\ UNCHANGED <<minted, used, db, mem, budget>>

\* login_success forgets to save the KDF settings.
LoggedIn_KeepsKdf(t) ==
  [token |-> minted + 1, kdf |-> local[t].kdf, key |-> server.key,
   private |-> local[t].private, entries |-> local[t].entries]
\* What login_success saves.
LoggedIn(t) ==
  [token |-> minted + 1, kdf |-> server.kdf, key |-> server.key,
   private |-> local[t].private, entries |-> local[t].entries]

LogIn(t) ==
  /\ pc[t] = "login"
  /\ minted < MaxToken
  /\ minted' = minted + 1
  /\ local' = [local EXCEPT ![t] = LoggedIn(t)]
  /\ cred' = [cred EXCEPT ![t] = server.key.user]
  /\ Goto(t, "save")
  /\ UNCHANGED <<server, dead, used, spared, db, mem, budget, kind, fresh>>

\* sync forgets to save the private key.
Synced_KeepsPrivate(t) ==
  [token |-> local[t].token, kdf |-> local[t].kdf, key |-> server.key,
   private |-> local[t].private, entries |-> server.vault]
\* What sync saves: everything but the KDF settings is the server's.
Synced(t) ==
  [token |-> local[t].token, kdf |-> local[t].kdf, key |-> server.key,
   private |-> server.vault, entries |-> server.vault]

Fetch(t) ==
  /\ Answered(t, "fetch")
  /\ local' = [local EXCEPT ![t] = Synced(t)]
  /\ Goto(t, "store")
  /\ UNCHANGED <<serverVars, db, mem, budget, kind, fresh, cred>>
-----------------------------------------------------------------------------
(* The file and the memory of the agent.                                   *)

\* Every change of the master key locks the account.
Save_Locks(t) ==
  /\ pc[t] = "save"
  /\ db' = local[t]
  /\ Goto(t, IF kind[t] \in ChangeKinds THEN "clear" ELSE "sync")
  /\ UNCHANGED <<serverVars, mem, budget, kind, local, fresh, cred>>

Save(t) ==
  /\ pc[t] = "save"
  /\ db' = local[t]
  /\ Goto(t, IF kind[t] = "rotate" THEN "clear" ELSE "sync")
  /\ UNCHANGED <<serverVars, mem, budget, kind, local, fresh, cred>>

\* The unlocked state still holds the old user key.
ClearAccount(t) ==
  /\ pc[t] = "clear"
  /\ mem' = Locked
  /\ Goto(t, "sync")
  /\ UNCHANGED <<serverVars, db, budget, kind, local, fresh, cred>>

\* The sync a request ends with.
Resync(t) ==
  /\ pc[t] = "sync"
  /\ IF db.token = NoToken
     THEN End({t})
     ELSE /\ local' = [local EXCEPT ![t] = db]
          /\ fresh' = [fresh EXCEPT ![t] = FALSE]
          /\ Goto(t, "fetch")
          /\ UNCHANGED <<kind, cred>>
  /\ UNCHANGED <<serverVars, db, mem, budget>>

Store(t) ==
  /\ pc[t] = "store"
  /\ db' = local[t]
  /\ IF kind[t] = "login"
     THEN Goto(t, "reload") /\ UNCHANGED <<kind, local, fresh, cred>>
     ELSE End({t})
  /\ UNCHANGED <<serverVars, mem, budget>>

Expire(t) ==
  /\ pc[t] = "expire"
  /\ db' = local[t]
  /\ End({t})
  /\ UNCHANGED <<serverVars, mem, budget>>

\* A login opens the private key of the file, as it is by now, with the user
\* key it got when it logged in.
Reload(t) ==
  /\ pc[t] = "reload"
  /\ IF db.private = cred[t]
     THEN Goto(t, "install") /\ UNCHANGED <<kind, local, fresh, cred>>
     ELSE End({t})
  /\ UNCHANGED <<serverVars, db, mem, budget>>

\* The right password opens the user key of the copy, and that the private
\* key; if not, the unlock fails in the end.
EnterPassword(t) ==
  /\ pc[t] = "prompt"
  /\ local[t].key.kdf = local[t].kdf
  /\ local[t].private = local[t].key.user
  /\ cred' = [cred EXCEPT ![t] = local[t].key.user]
  /\ Goto(t, "install")
  /\ UNCHANGED <<serverVars, db, mem, budget, kind, local, fresh>>

Install(t) ==
  /\ pc[t] = "install"
  /\ mem' = cred[t]
  /\ End({t})
  /\ UNCHANGED <<serverVars, db, budget>>
-----------------------------------------------------------------------------
Progress(t) ==
  \/ Fail(t) \/ Exchange(t) \/ SessionExpired(t)
  \/ SendWrite(t) \/ ReadVault(t) \/ ChangeMasterKey(t) \/ LogIn(t)
  \/ Fetch(t) \/ Save(t) \/ ClearAccount(t) \/ Resync(t) \/ Store(t)
  \/ Expire(t) \/ Reload(t) \/ EnterPassword(t) \/ Install(t)

Next ==
  \/ OtherDevice \/ Exit \/ Lock
  \/ \E t \in Tasks :
       \/ StartSync(t) \/ StartWrite(t) \/ StartLogin(t) \/ StartUnlock(t)
       \/ \E k \in ChangeKinds : StartChange(t, k)
       \/ Progress(t)

Spec == Init /\ [][Next]_vars

\* Calls and prompts end, with an answer or a timeout; a file is written once
\* its write has begun. The background sync comes again and again, and a
\* server that is asked again and again answers at some time.
Fairness ==
  /\ \A t \in Tasks : /\ WF_vars(Progress(t))
                      /\ SF_vars(Fetch(t))
                      /\ SF_vars(SessionExpired(t))
  /\ SF_vars(\E t \in Tasks : StartSync(t))

FairSpec == Spec /\ Fairness
-----------------------------------------------------------------------------
(* Properties.                                                             *)

\* Every generation after n up to m came without an end of the sessions.
Spared(n, m, gens) == n <= m /\ (n + 1)..m \subseteq gens

\* The KDF settings in the file are those its wrapped key needs: if they
\* were not, the right password would be refused, by unlock and by
\* change_master_key. sync saves a new wrapped key but never new settings, so
\* they may fall behind, but only where the sessions outlived new settings;
\* every other change makes the file log in again before it is mixed.
KdfFitsKey == Spared(db.kdf, db.key.kdf, spared.kdf)

\* The wrapped key on the server is the user key the vault is encrypted with:
\* a change of the password or of the KDF settings re-wraps the key it finds
\* in a file that may be old. It is the old key only where the sessions
\* outlived a rotation, whatever they did at the other changes.
VaultReadable == Spared(server.key.user, server.vault, spared.user)

\* A file whose session goes on has missed no change that ended sessions,
\* whichever task saved it with tokens of whatever other task: with those
\* that it can have missed, the next sync or login is left to find out.
LiveSessionIsCurrent ==
  Alive(db.token) =>
    /\ Spared(db.kdf, server.kdf, spared.kdf)
    /\ Spared(db.key.user, server.vault, spared.user)

\* What docs/usage.md says of a change of the password and of the KDF
\* settings: they only re-wrap the account key. They do not where another
\* device has rotated it since the file was synced.
OnlyRewraps ==
  [][server'.vault = server.vault => server'.key.user = server.key.user]_vars

\* The tokens in the file are given up only when no exchange could succeed
\* with what the file holds, whatever other tasks have done meanwhile.
LoggedOutOnlyWhenDead ==
  [][db.token \in LiveTokens => db'.token # NoToken]_vars

\* As long as the server would exchange some refresh token, one of those is
\* in the file or in the copy of a task that is still at work.
RefreshTokenKept ==
  LiveTokens # {} =>
    \/ db.token \in LiveTokens
    \/ \E t \in Tasks : local[t].token \in LiveTokens

\* An unlock or a login puts the user key of the file into memory, not one
\* that was replaced while it waited, unless the rotation that replaced it is
\* still to lock the account.
InstallsCurrentKey ==
  [][mem' # mem /\ mem' # Locked =>
       \/ mem' = db.key.user
       \/ \E t \in Tasks : pc[t] = "clear"]_vars

\* When the changes are over, the file becomes what the server has, or the
\* account is logged out. New KDF settings are missed if the sessions
\* outlived them, and nothing else is.
UpToDate ==
  /\ Spared(db.kdf, server.kdf, spared.kdf)
  /\ db.key = server.key
  /\ db.private = server.vault
  /\ db.entries = server.vault
Converges == <>[](db.token = NoToken \/ UpToDate)
=============================================================================
