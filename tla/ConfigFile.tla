----------------------------- MODULE ConfigFile -----------------------------
(***************************************************************************)
(* The configuration file (config.rs) and the commands that change it      *)
(* (account_cmds.rs, config_cmds.rs, native_unlock_cmds.rs and their       *)
(* twins in tui_bridge.rs).                                                *)
(*                                                                         *)
(* Every command loads the file, changes its copy and saves the copy as a  *)
(* whole, by truncating the file and writing it anew, with no lock. Some   *)
(* do much in between: the enrolment of a native unlock asks for the       *)
(* master password, unlocks the account and saves the password in a store  *)
(* of its own, which the configuration only points to. A change of the     *)
(* master password (security_cmds.rs) puts the new one into that store.    *)
(***************************************************************************)
EXTENDS Integers, FiniteSets

CONSTANTS
  Accounts,
  None,
  Ids,      \* of credentials of the desktop; drawn at random, so never twice
  Procs,    \* bound: commands at once
  Budget,   \* bound: commands
  Faults,   \* bound: failures and crashes
  Reach     \* bound: accounts whose settings one edit by hand changes

ASSUME NoneAssumption == None \notin Accounts \union Ids
ASSUME BoundAssumption == Budget \in Nat /\ Faults \in Nat /\ Reach \in Nat

\* The n-th master password of an account is n; what is not the master
\* password when it is typed counts as mistyped.
Passwords == Nat
Mistyped == 0
Nothing == -1
Saved == Passwords \union {Nothing}

Configs ==
  [accounts : SUBSET Accounts, primary : Accounts \union {None},
   source : [Accounts -> Accounts \union {None}],
   desktop : [Accounts -> Ids \union {None}],
   termux : SUBSET Accounts]

\* A configuration of bare accounts; `Config::new` has none.
BareConfig(A, first) ==
  [accounts |-> A, primary |-> first, source |-> [a \in Accounts |-> None],
   desktop |-> [a \in Accounts |-> None], termux |-> {}]
EmptyConfig == BareConfig({}, None)

VARIABLES
  file, torn,   \* the configuration; the file is empty
  store,        \* per id: the credential in the keyring, TPM or broker
  key, bundle,  \* per account: its key of the Android keystore, its bundle
  unlocked,     \* accounts whose keys the agent holds
  used,         \* ids that were drawn
  master,       \* per account: the password that opens its database here
  pc, job, snap, \* per command: its step, what it is, its copy
  budget, faults,
  edited,       \* history: `rbw config edit` has saved
  clean,        \* history: commands ran one by one and cleaned up
  outdated      \* history: ids whose account's password changed elsewhere,
                \* or whose credential a change failed to update

fileVars  == <<file, torn>>
credVars  == <<store, key, bundle>>
pwVars    == <<master, outdated>>
procVars  == <<pc, job, snap>>
boundVars == <<budget, faults>>
vars == <<fileVars, credVars, unlocked, used, pwVars, procVars, boundVars,
          edited, clean>>

Cmds == {"add", "remove", "primary", "source", "set", "edit", "enroll",
         "unenroll", "termux", "untermux", "password"}
PCs == {"idle", "edit", "prompt", "unlock", "verify", "store", "undo",
        "delete", "generate", "bundle", "unbundle", "delkey", "delbundle",
        "change", "update", "save", "write", "stop"}
\* `stops`: the command goes on to stop the agent; `made`: it made the key.
Jobs == [cmd : Cmds, who : Accounts \union {None}, id : Ids \union {None},
         pw : Passwords, made : BOOLEAN, stops : BOOLEAN]
-----------------------------------------------------------------------------
(* Configurations.                                                         *)

\* What `credential_source_chain` accepts: it gets from a to an account
\* without a source, by accounts that exist, and never in a circle.
ChainEnds(c, a) ==
  \E S \in SUBSET c.accounts :
    /\ a \in S
    /\ \A x \in S : c.source[x] \in S \union {None}
    /\ \A T \in SUBSET S : T # {} => \E x \in T : c.source[x] \notin T

\* No accounts are each other's source.
Acyclic(c) ==
  \A S \in SUBSET Accounts : S # {} => \E x \in S : c.source[x] \notin S

\* `asked`: with --primary.
AddAccount(c, a, asked) ==
  [accounts |-> c.accounts \union {a},
   primary |-> IF asked \/ c.accounts = {} THEN a ELSE c.primary,
   source |-> [c.source EXCEPT ![a] = None],
   desktop |-> [c.desktop EXCEPT ![a] = None],
   termux |-> c.termux \ {a}]

\* `first` is the first of the accounts that are left.
RemoveAccount_KeepsNative(c, a, first) ==
  [accounts |-> c.accounts \ {a},
   primary |-> IF c.primary = a THEN first ELSE c.primary,
   source |-> [c.source EXCEPT ![a] = None],
   desktop |-> c.desktop,
   termux |-> c.termux]

RemoveAccount(c, a, first) ==
  [accounts |-> c.accounts \ {a},
   primary |-> IF c.primary = a THEN first ELSE c.primary,
   source |-> [c.source EXCEPT ![a] = None],
   desktop |-> [c.desktop EXCEPT ![a] = None],
   termux |-> c.termux \ {a}]

SetPrimary(c, a) == [c EXCEPT !.primary = a]
SetSource(c, a, s) == [c EXCEPT !.source = [c.source EXCEPT ![a] = s]]
SetDesktop(c, a, i) == [c EXCEPT !.desktop = [c.desktop EXCEPT ![a] = i]]
SetTermux(c, T) == [c EXCEPT !.termux = T]
NoNative(c, a) == a \notin c.termux /\ c.desktop[a] = None
-----------------------------------------------------------------------------
TypeOK ==
  /\ file \in Configs /\ torn \in BOOLEAN
  /\ \A a \in Accounts \ file.accounts :
       NoNative(file, a) /\ file.source[a] = None
  /\ store \in [Ids -> Saved]
  /\ key \in [Accounts -> BOOLEAN] /\ bundle \in [Accounts -> Saved]
  /\ unlocked \subseteq Accounts /\ used \subseteq Ids
  /\ master \in [Accounts -> Nat \ {Mistyped}]
  /\ outdated \subseteq Ids \union {None}
  /\ pc \in [Procs -> PCs] /\ job \in [Procs -> Jobs]
  /\ snap \in [Procs -> Configs]
  /\ budget \in 0..Budget /\ faults \in 0..Faults
  /\ edited \in BOOLEAN /\ clean \in BOOLEAN

NoJob == [cmd |-> "set", who |-> None, id |-> None,
          pw |-> Mistyped, made |-> FALSE, stops |-> FALSE]

\* Accounts without a source and without native unlock, the first primary.
Init ==
  /\ \E A \in SUBSET Accounts : \E a \in A : file = BareConfig(A, a)
  /\ torn = FALSE
  /\ store = [i \in Ids |-> Nothing]
  /\ key = [a \in Accounts |-> FALSE]
  /\ bundle = [a \in Accounts |-> Nothing]
  /\ unlocked = {}
  /\ used = {}
  /\ master = [a \in Accounts |-> 1] /\ outdated = {}
  /\ pc = [p \in Procs |-> "idle"]
  /\ job = [p \in Procs |-> NoJob]
  /\ snap = [p \in Procs |-> EmptyConfig]
  /\ budget = Budget /\ faults = Faults
  /\ edited = FALSE /\ clean = TRUE

Goto(p, s) == pc' = [pc EXCEPT ![p] = s]
Fault == faults > 0 /\ faults' = faults - 1

\* A command ends and forgets what it had.
End(p) ==
  /\ Goto(p, "idle")
  /\ job' = [job EXCEPT ![p] = NoJob]
  /\ snap' = [snap EXCEPT ![p] = EmptyConfig]
-----------------------------------------------------------------------------
(* A command begins: it loads the file, and checks its copy. What the      *)
(* check turns away changes nothing, and is left out.                      *)

Begin(p, c, a, i, stops, next) ==
  /\ pc[p] = "idle"
  /\ budget > 0 /\ budget' = budget - 1
  /\ Goto(p, next)
  /\ job' = [job EXCEPT ![p] = [cmd |-> c, who |-> a, id |-> i,
                                pw |-> Mistyped, made |-> FALSE,
                                stops |-> stops]]
  /\ clean' = (clean /\ \A q \in Procs : pc[q] = "idle")
  /\ UNCHANGED <<fileVars, credVars, unlocked, pwVars, faults, edited>>

\* `load().unwrap_or_else(new)`: an empty file is an empty configuration.
LoadedOrNew == IF torn THEN EmptyConfig ELSE file

\* `account_add`. The first account is primary, another if that is asked for.
Add_FromNew(p) ==
  LET c == EmptyConfig
  IN \E a \in Accounts \ c.accounts, asked \in BOOLEAN :
       /\ snap' = [snap EXCEPT ![p] = AddAccount(c, a, asked)]
       /\ Begin(p, "add", a, None, asked \/ c.accounts = {}, "save")
       /\ UNCHANGED used

Add(p) ==
  LET c == LoadedOrNew
  IN \E a \in Accounts \ c.accounts, asked \in BOOLEAN :
       /\ snap' = [snap EXCEPT ![p] = AddAccount(c, a, asked)]
       /\ Begin(p, "add", a, None, asked \/ c.accounts = {}, "save")
       /\ UNCHANGED used

\* `account_remove`. An account with a credential of the desktop stays.
Remove_Desktop(p) ==
  LET c == LoadedOrNew
  IN \E a \in c.accounts :
       \E first \in (c.accounts \ {a}) \union {None} :
         /\ first = None => c.accounts = {a}
         /\ snap' = [snap EXCEPT ![p] = RemoveAccount(c, a, first)]
         /\ Begin(p, "remove", a, None, c.primary = a, "save")
         /\ UNCHANGED used

Remove(p) ==
  LET c == LoadedOrNew
  IN \E a \in c.accounts :
       \E first \in (c.accounts \ {a}) \union {None} :
         /\ c.desktop[a] = None
         /\ first = None => c.accounts = {a}
         /\ snap' = [snap EXCEPT ![p] = RemoveAccount(c, a, first)]
         /\ Begin(p, "remove", a, None, c.primary = a, "save")
         /\ UNCHANGED used

\* `account_set_primary`.
Primary(p) ==
  LET c == LoadedOrNew
  IN \E a \in c.accounts :
       /\ snap' = [snap EXCEPT ![p] = SetPrimary(c, a)]
       /\ Begin(p, "primary", a, None, c.primary # a, "save")
       /\ UNCHANGED used

\* `account_set`, of which only the source matters here.
SetAccount_Direct(p) ==
  LET c == LoadedOrNew
  IN \E a \in c.accounts, s \in Accounts \union {None} :
       /\ s \in (c.accounts \ {a}) \union {None}
       /\ snap' = [snap EXCEPT ![p] = SetSource(c, a, s)]
       /\ Begin(p, "source", a, None, FALSE, "save")
       /\ UNCHANGED used

SetAccount(p) ==
  LET c == LoadedOrNew
  IN \E a \in c.accounts, s \in Accounts \union {None} :
       /\ ChainEnds(SetSource(c, a, s), a)
       /\ snap' = [snap EXCEPT ![p] = SetSource(c, a, s)]
       /\ Begin(p, "source", a, None, FALSE, "save")
       /\ UNCHANGED used

\* `config_set` and `config_unset` of a setting: nothing the model tells
\* apart, but the copy is saved all the same, and the agent stopped.
Set(p) ==
  /\ snap' = [snap EXCEPT ![p] = LoadedOrNew]
  /\ Begin(p, "set", None, None, TRUE, "save")
  /\ UNCHANGED used

\* `config_edit`.
Edit(p) ==
  /\ snap' = [snap EXCEPT ![p] = LoadedOrNew]
  /\ Begin(p, "edit", None, None, TRUE, "edit")
  /\ UNCHANGED used

\* `secret_service_enroll` and `termux_enroll`.
Enroll_Again(p) ==
  /\ ~torn
  /\ \E a \in file.accounts, i \in Ids \ used :
       /\ file.desktop[a] = None
       /\ used' = used \union {i}
       /\ snap' = [snap EXCEPT ![p] = file]
       /\ Begin(p, "enroll", a, i, FALSE, "prompt")

Enroll(p) ==
  /\ ~torn
  /\ \E a \in file.accounts, i \in Ids \ used :
       /\ NoNative(file, a)
       /\ used' = used \union {i}
       /\ snap' = [snap EXCEPT ![p] = file]
       /\ Begin(p, "enroll", a, i, FALSE, "prompt")

TermuxEnroll(p) ==
  /\ ~torn
  /\ \E a \in file.accounts :
       /\ NoNative(file, a) /\ bundle[a] = Nothing
       /\ snap' = [snap EXCEPT ![p] = file]
       /\ Begin(p, "termux", a, None, TRUE, "prompt")
  /\ UNCHANGED used

\* `native_unlock_remove`: of a credential of the desktop, or of whatever
\* there is on Android, configured or not.
Unenroll(p) ==
  /\ ~torn
  /\ \E a \in file.accounts :
       /\ file.desktop[a] # None
       /\ snap' = [snap EXCEPT ![p] = SetDesktop(file, a, None)]
       /\ Begin(p, "unenroll", a, file.desktop[a], FALSE, "delete")
  /\ UNCHANGED used

TermuxRemove(p) ==
  /\ ~torn
  /\ \E a \in file.accounts :
       /\ file.desktop[a] = None
       /\ a \in file.termux \/ key[a] \/ bundle[a] # Nothing
       /\ snap' = [snap EXCEPT ![p] = SetTermux(file, file.termux \ {a})]
       /\ Begin(p, "untermux", a, None, TRUE, "delkey")
  /\ UNCHANGED used

\* `security_change_password`, with the account as the file has it.
ChangePassword(p) ==
  /\ ~torn
  /\ \E a \in file.accounts :
       /\ snap' = [snap EXCEPT ![p] = file]
       /\ Begin(p, "password", a, file.desktop[a], FALSE, "change")
  /\ UNCHANGED used
-----------------------------------------------------------------------------
(* Between load and save.                                                  *)

\* What a user may leave in the editor instead of d: any configuration that
\* has settings only for the accounts in it. Nobody types an id that was
\* never drawn.
Typed(d) ==
  {c \in [accounts : SUBSET Accounts, primary : Accounts \union {None},
          source : [Accounts -> Accounts \union {None}],
          desktop : [Accounts -> used \union {None}],
          termux : SUBSET Accounts] :
     /\ \A a \in Accounts \ c.accounts : NoNative(c, a) /\ c.source[a] = None
     /\ \E A \in SUBSET Accounts :
          /\ Cardinality(A) <= Reach
          /\ \A a \in Accounts \ A :
               /\ a \in c.accounts <=> a \in d.accounts
               /\ a \in c.termux <=> a \in d.termux
               /\ c.source[a] = d.source[a] /\ c.desktop[a] = d.desktop[a]}

\* The user saves what they have typed, which is not checked further, and
\* may have moved accounts or credentials by hand.
EditDone(p) ==
  /\ pc[p] = "edit"
  /\ \E c \in Typed(snap[p]) \ {snap[p]} :
       /\ snap' = [snap EXCEPT ![p] = c]
       /\ clean' = (clean /\ c.accounts = snap[p].accounts
                          /\ c.desktop = snap[p].desktop
                          /\ c.termux = snap[p].termux)
  /\ Goto(p, "save")
  /\ UNCHANGED <<fileVars, credVars, unlocked, used, pwVars, job, boundVars,
                 edited>>

\* The text is as it was, or is no configuration.
EditDropped(p) ==
  /\ pc[p] = "edit"
  /\ End(p)
  /\ UNCHANGED <<fileVars, credVars, unlocked, used, pwVars, boundVars, edited,
                 clean>>

\* What the user types at the prompt for the master password.
Prompt(p) ==
  /\ pc[p] = "prompt"
  /\ \E w \in {master[job[p].who], Mistyped} : job' = [job EXCEPT ![p].pw = w]
  /\ Goto(p, "unlock")
  /\ UNCHANGED <<fileVars, credVars, unlocked, used, pwVars, snap, boundVars,
                 edited, clean>>

\* `unlock_impl` with this password. An agent that has unlocked the account
\* before does not look at it.
Unlock(p) ==
  /\ pc[p] = "unlock"
  /\ IF job[p].pw = master[job[p].who] \/ job[p].who \in unlocked
     THEN /\ unlocked' = unlocked \union {job[p].who}
          /\ Goto(p, IF job[p].cmd = "enroll" THEN "verify" ELSE "generate")
          /\ UNCHANGED <<job, snap>>
     ELSE UNCHANGED unlocked /\ End(p)
  /\ UNCHANGED <<fileVars, credVars, used, pwVars, boundVars, edited, clean>>

\* `verify_cached_password`.
Verify_Trusts(p) ==
  /\ pc[p] = "verify"
  /\ Goto(p, "store") /\ UNCHANGED <<job, snap>>
  /\ UNCHANGED <<fileVars, credVars, unlocked, used, pwVars, boundVars,
                 edited, clean>>

Verify(p) ==
  /\ pc[p] = "verify"
  /\ IF job[p].pw = master[job[p].who]
     THEN Goto(p, "store") /\ UNCHANGED <<job, snap>>
     ELSE End(p)
  /\ UNCHANGED <<fileVars, credVars, unlocked, used, pwVars, boundVars,
                 edited, clean>>

\* The scan and the store. A store that fails may have saved all the same.
Store(p) ==
  /\ pc[p] = "store"
  /\ \/ /\ store' = [store EXCEPT ![job[p].id] = job[p].pw]
        /\ snap' = [snap EXCEPT ![p] =
                      SetDesktop(snap[p], job[p].who, job[p].id)]
        /\ Goto(p, "save")
        /\ UNCHANGED faults
     \/ /\ Fault
        /\ \E w \in {Nothing, job[p].pw} :
             store' = [store EXCEPT ![job[p].id] = w]
        /\ Goto(p, "undo")
        /\ UNCHANGED snap
  /\ UNCHANGED <<fileVars, key, bundle, unlocked, used, pwVars, job, budget,
                 edited, clean>>

\* The credential is removed again, or stays behind with a message at best.
Undo_Nothing(p) ==
  /\ pc[p] = "undo"
  /\ End(p)
  /\ UNCHANGED <<fileVars, credVars, unlocked, used, pwVars, boundVars,
                 edited, clean>>

Undo(p) ==
  /\ pc[p] = "undo"
  /\ \/ /\ store' = [store EXCEPT ![job[p].id] = Nothing]
        /\ UNCHANGED <<faults, clean>>
     \/ Fault /\ clean' = FALSE /\ UNCHANGED store
  /\ End(p)
  /\ UNCHANGED <<fileVars, key, bundle, unlocked, used, pwVars, budget,
                 edited>>

Delete(p) ==
  /\ pc[p] = "delete"
  /\ \/ /\ store' = [store EXCEPT ![job[p].id] = Nothing]
        /\ Goto(p, "save")
        /\ UNCHANGED <<job, snap, faults>>
     \/ Fault /\ End(p) /\ UNCHANGED store
  /\ UNCHANGED <<fileVars, key, bundle, unlocked, used, pwVars, budget,
                 edited, clean>>

\* The server takes the new password, and the agent has it in the database.
\* A request that fails changes nothing here, whatever the server did.
Change(p) ==
  /\ pc[p] = "change"
  /\ LET a == job[p].who
     IN \/ /\ master' = [master EXCEPT ![a] = @ + 1]
           /\ IF job[p].id = None THEN End(p)
              ELSE /\ job' = [job EXCEPT ![p].pw = master[a] + 1]
                   /\ Goto(p, "update") /\ UNCHANGED snap
           /\ UNCHANGED faults
        \/ Fault /\ End(p) /\ UNCHANGED master
  /\ UNCHANGED <<fileVars, credVars, unlocked, used, outdated, budget, edited,
                 clean>>

\* The credential of the desktop is replaced. If that fails, which only a
\* warning says, it may be either. The agent is as before, or locked.
Update_Current(p) ==
  /\ pc[p] = "update"
  /\ \/ /\ store' = [store EXCEPT ![job[p].id] = job[p].pw - 1]
        /\ UNCHANGED <<faults, outdated>>
     \/ /\ Fault
        /\ \E w \in {store[job[p].id], job[p].pw} :
             store' = [store EXCEPT ![job[p].id] = w]
        /\ outdated' = outdated \union {job[p].id}
  /\ \E locks \in {{}, {job[p].who}} : unlocked' = unlocked \ locks
  /\ End(p)
  /\ UNCHANGED <<fileVars, key, bundle, used, master, budget, edited, clean>>

Update(p) ==
  /\ pc[p] = "update"
  /\ \/ /\ store' = [store EXCEPT ![job[p].id] = job[p].pw]
        /\ UNCHANGED <<faults, outdated>>
     \/ /\ Fault
        /\ \E w \in {store[job[p].id], job[p].pw} :
             store' = [store EXCEPT ![job[p].id] = w]
        /\ outdated' = outdated \union {job[p].id}
  /\ \E locks \in {{}, {job[p].who}} : unlocked' = unlocked \ locks
  /\ End(p)
  /\ UNCHANGED <<fileVars, key, bundle, used, master, budget, edited, clean>>

\* A key is made unless there is one.
Generate(p) ==
  /\ pc[p] = "generate"
  /\ \/ /\ job' = [job EXCEPT ![p].made = ~key[job[p].who]]
        /\ key' = [key EXCEPT ![job[p].who] = TRUE]
        /\ Goto(p, "bundle")
        /\ UNCHANGED <<faults, snap>>
     \/ Fault /\ End(p) /\ UNCHANGED key
  /\ UNCHANGED <<fileVars, store, bundle, unlocked, used, pwVars, budget,
                 edited, clean>>

\* `termux::enroll` creates the bundle, which must not exist.
Bundle(p) ==
  /\ pc[p] = "bundle"
  /\ LET a == job[p].who
     IN \/ /\ key[a] /\ bundle[a] = Nothing
           /\ bundle' = [bundle EXCEPT ![a] = job[p].pw]
           /\ snap' = [snap EXCEPT ![p] =
                         SetTermux(snap[p], snap[p].termux \union {a})]
           /\ Goto(p, "save")
           /\ UNCHANGED <<key, job, faults>>
        \/ /\ IF key[a] /\ bundle[a] = Nothing THEN Fault ELSE UNCHANGED faults
           /\ key' = [key EXCEPT ![a] = @ /\ ~job[p].made]
           /\ End(p)
           /\ UNCHANGED bundle
  /\ UNCHANGED <<fileVars, store, unlocked, used, pwVars, budget, edited,
                 clean>>

Unbundle(p) ==
  /\ pc[p] = "unbundle"
  /\ bundle' = [bundle EXCEPT ![job[p].who] = Nothing]
  /\ key' = [key EXCEPT ![job[p].who] = @ /\ ~job[p].made]
  /\ End(p)
  /\ UNCHANGED <<fileVars, store, unlocked, used, pwVars, boundVars, edited,
                 clean>>

DeleteKey(p) ==
  /\ pc[p] = "delkey"
  /\ \/ /\ key' = [key EXCEPT ![job[p].who] = FALSE]
        /\ Goto(p, "delbundle")
        /\ UNCHANGED <<job, snap, faults>>
     \/ Fault /\ End(p) /\ UNCHANGED key
  /\ UNCHANGED <<fileVars, store, bundle, unlocked, used, pwVars, budget,
                 edited, clean>>

\* A bundle that cannot be deleted stays, though its key is gone.
DeleteBundle(p) ==
  /\ pc[p] = "delbundle"
  /\ \/ /\ bundle' = [bundle EXCEPT ![job[p].who] = Nothing]
        /\ Goto(p, "save")
        /\ UNCHANGED <<job, snap, faults, clean>>
     \/ Fault /\ clean' = FALSE /\ End(p) /\ UNCHANGED bundle
  /\ UNCHANGED <<fileVars, store, key, unlocked, used, pwVars, budget,
                 edited>>
-----------------------------------------------------------------------------
(* `save`, and what a command does after it.                               *)

Rollback(p) ==
  CASE job[p].cmd = "enroll" -> Goto(p, "undo") /\ UNCHANGED <<job, snap>>
    [] job[p].cmd = "termux" -> Goto(p, "unbundle") /\ UNCHANGED <<job, snap>>
    [] OTHER -> End(p)

\* The file is opened, and truncated by it, or cannot be opened.
Truncate(p) ==
  /\ pc[p] = "save"
  /\ \/ /\ torn' = TRUE /\ Goto(p, "write")
        /\ UNCHANGED <<faults, job, snap, clean>>
     \/ /\ Fault /\ Rollback(p)
        /\ clean' = (clean /\ job[p].cmd \notin {"unenroll", "untermux"})
        /\ UNCHANGED torn
  /\ UNCHANGED <<file, credVars, unlocked, used, pwVars, budget, edited>>

Write(p) ==
  /\ pc[p] = "write"
  /\ file' = snap[p] /\ torn' = FALSE
  /\ edited' = (edited \/ job[p].cmd = "edit")
  /\ IF job[p].stops THEN Goto(p, "stop") /\ UNCHANGED <<job, snap>>
     ELSE End(p)
  /\ UNCHANGED <<credVars, unlocked, used, pwVars, boundVars, clean>>

\* The disk is full: the file stays empty.
WriteFails(p) ==
  /\ pc[p] = "write"
  /\ Fault
  /\ clean' = FALSE
  /\ Rollback(p)
  /\ UNCHANGED <<fileVars, credVars, unlocked, used, pwVars, budget, edited>>

StopAgent(p) ==
  /\ pc[p] = "stop"
  /\ unlocked' = {}
  /\ End(p)
  /\ UNCHANGED <<fileVars, credVars, used, pwVars, boundVars, edited, clean>>

Crash(p) ==
  /\ pc[p] # "idle"
  /\ Fault
  /\ clean' = FALSE
  /\ End(p)
  /\ UNCHANGED <<fileVars, credVars, unlocked, used, pwVars, budget, edited>>

\* The agent unlocks and locks accounts for other commands.
AgentUnlocks ==
  /\ \E a \in file.accounts : unlocked' = unlocked \union {a}
  /\ UNCHANGED <<fileVars, credVars, used, pwVars, procVars, boundVars,
                 edited, clean>>

\* A sync brings a master password that was set on another device, or by a
\* request whose answer was lost.
ChangedElsewhere ==
  /\ budget > 0 /\ budget' = budget - 1
  /\ \E a \in file.accounts :
       /\ master' = [master EXCEPT ![a] = @ + 1]
       /\ outdated' = outdated \union {file.desktop[a]} \union
                        {job[p].id : p \in {q \in Procs : job[q].who = a}}
  /\ UNCHANGED <<fileVars, credVars, unlocked, used, procVars, faults, edited,
                 clean>>

Step(p) ==
  \/ EditDone(p) \/ EditDropped(p) \/ Change(p) \/ Update(p) \/ Prompt(p)
  \/ Unlock(p) \/ Verify(p) \/ Store(p) \/ Undo(p)
  \/ Delete(p) \/ Generate(p) \/ Bundle(p) \/ Unbundle(p) \/ DeleteKey(p)
  \/ DeleteBundle(p) \/ Truncate(p) \/ Write(p) \/ StopAgent(p)

Start(p) ==
  \/ Add(p) \/ Remove(p) \/ Primary(p) \/ SetAccount(p) \/ Set(p) \/ Edit(p)
  \/ Enroll(p) \/ TermuxEnroll(p) \/ Unenroll(p) \/ TermuxRemove(p)
  \/ ChangePassword(p)

Next == AgentUnlocks \/ ChangedElsewhere
        \/ \E p \in Procs : Start(p) \/ Step(p) \/ WriteFails(p) \/ Crash(p)

Spec == Init /\ [][Next]_vars
-----------------------------------------------------------------------------
(* Properties.                                                             *)

\* No file leads an unlock in a circle of credential sources, whatever
\* commands overlap, fail or crash: each saves a whole configuration it has
\* checked. Only an edit by hand can do that.
SourcesNeverCycle == edited \/ Acyclic(file)

\* No account is ever configured for two providers of a native unlock, which
\* would make every unlock of it fail, unless by hand.
OneProvider == edited \/ \A a \in file.termux : file.desktop[a] = None

Quiet == \A p \in Procs : pc[p] = "idle"

\* No mistyped password gets into a store of the desktop: an agent that was
\* unlocked already does not vouch for it. And after commands that ran one by
\* one, a configured credential is the master password of today, unless that
\* changed elsewhere or the change said that it could not replace it.
DesktopCredentialsWork ==
  /\ \A i \in Ids : store[i] # Mistyped
  /\ clean /\ Quiet =>
       \A a \in Accounts :
         LET i == file.desktop[a]
         IN i \in Ids \ outdated => store[i] = master[a]

\* After commands that ran one by one, of which any may have failed in the
\* middle, no credential is left behind that no account points to, and each
\* configured one is there.
CredentialsMatchConfig ==
  clean /\ Quiet =>
    /\ {i \in Ids : store[i] # Nothing}
         = {file.desktop[a] : a \in Accounts} \ {None}
    /\ \A a \in file.termux : bundle[a] # Nothing

\* An account leaves the file because it was removed, and not because a
\* command saved a copy without it, unless commands overlapped.
OnlyRemovalForgets ==
  [][\A a \in Accounts :
       clean /\ a \in file.accounts /\ a \notin file'.accounts
       => \E p \in Procs : job[p].cmd = "remove" /\ job[p].who = a]_vars

\* What the comment at termux_enroll says of its bundle. It only asks the
\* agent, which may have unlocked the account before.
TermuxBundlesWork == \A a \in Accounts : bundle[a] # Mistyped
=============================================================================
