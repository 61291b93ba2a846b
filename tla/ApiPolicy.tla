----------------------------- MODULE ApiPolicy -----------------------------
(***************************************************************************)
(* The authorization of the remote API (remote_api.rs, and the request     *)
(* handlers of bin/rbw-agent/api.rs). Commands of the CLI change the       *)
(* policy store clients.json under the lock clients.lock, each by loading  *)
(* it, changing it and renaming a new file over it; the agent reads it     *)
(* without the lock, anew for every request. A client's certificate and    *)
(* key are files of their own.                                             *)
(*                                                                         *)
(* Every client has grants on one item; items of a client do not touch     *)
(* each other but for the account they share.                              *)
(***************************************************************************)
EXTENDS Naturals, FiniteSets

CONSTANTS
  Clis,      \* bound: commands at once
  Requests,  \* bound: requests at once
  Clients,   \* identities of clients, each used once
  Accounts,
  Fields,    \* the fields of the item
  None,      \* no account
  NoPolicy,  \* the store has no such client
  Nobody,    \* the lock is free
  Budget     \* bound: commands and requests

ASSUME PolicyValueAssumption ==
  /\ None \notin Accounts
  /\ Nobody \notin Clis
  /\ Clients # {} /\ Accounts # {}
  /\ Budget \in Nat

VARIABLES
  enabled,  \* `api.enabled` of the configuration file
  store,    \* clients.json
  lock,     \* who holds clients.lock
  keypair,  \* per client: which of its two files there are, none of them
            \* for an identity yet to be created
  budget,
  pc, cmd,  \* per command: its step, and what it is to do
  copy,     \* per command: the store it has loaded
  rpc, ask, \* per request: its step, and what is asked
  seen,     \* per request: `enabled` as it was read
  answer,   \* per request: what it was found to be allowed
  granted,  \* history, per client: what the operator has granted it
  since,    \* history, per request: what was granted since it came
  wasOn     \* history, per request: the API was enabled since it came

cliVars == <<lock, pc, cmd, copy>>
reqVars == <<rpc, ask, seen, answer>>
history == <<granted, since, wasOn>>
policyVars == <<enabled, store, keypair, budget, cliVars, reqVars, history>>

Permissions == ({"field"} \X Accounts \X Fields) \union ({"status"} \X Accounts)

Policies == [account : Accounts \union {None}, status : BOOLEAN,
             statusAccounts : SUBSET Accounts, fields : SUBSET Fields]
Stores == [Clients -> Policies \union {NoPolicy}]
ASSUME PolicyAssumption == NoPolicy \notin Policies

\* `accounts` and `fields` say what a command is about; no field stands for
\* the whole item, and no account for all of them.
Commands ==
  [kind : {"create", "grant", "revoke", "grant_status", "revoke_status",
           "revoke_client"},
   client : Clients, accounts : SUBSET Accounts, fields : SUBSET Fields]
Asks == [kind : {"field", "list", "status"}, client : Clients,
         fields : SUBSET Fields]

PolicyTypeOK ==
  /\ enabled \in BOOLEAN
  /\ store \in Stores
  /\ lock \in Clis \union {Nobody}
  /\ keypair \in [Clients -> {"none", "cert", "both", "key", "gone"}]
  /\ budget \in 0..Budget
  /\ pc \in [Clis -> {"idle", "issue", "lock", "load", "save", "unissue"}]
  /\ cmd \in [Clis -> Commands]
  /\ copy \in [Clis -> Stores]
  /\ rpc \in [Requests -> {"idle", "config", "policy", "serve"}]
  /\ ask \in [Requests -> Asks]
  /\ seen \in [Requests -> BOOLEAN]
  /\ answer \in [Requests -> SUBSET Permissions]
  /\ granted \in [Clients -> SUBSET Permissions]
  /\ since \in [Requests -> SUBSET Permissions]
  /\ wasOn \in [Requests -> BOOLEAN]
  /\ \A c \in Clients : store[c] # NoPolicy =>
       /\ store[c].fields # {} => store[c].account # None
       /\ store[c].statusAccounts # {} => store[c].status
  /\ \A p \in Clis : lock = p <=> pc[p] \in {"load", "save"}

NoStore == [c \in Clients |-> NoPolicy]
SomeClient == CHOOSE c \in Clients : TRUE
NoCommand == [kind |-> "create", client |-> SomeClient, accounts |-> {},
              fields |-> {}]
NoAsk == [kind |-> "list", client |-> SomeClient, fields |-> {}]

\* A policy as older versions wrote it: the status of its account, by the
\* flag alone.
Legacy(a) == [account |-> a, status |-> TRUE, statusAccounts |-> {},
              fields |-> {}]

\* There may be a client from before.
PolicyInit ==
  /\ enabled = TRUE
  /\ \/ /\ store = NoStore
        /\ keypair = [c \in Clients |-> "none"]
        /\ granted = [c \in Clients |-> {}]
     \/ \E o \in Clients, a \in Accounts :
          /\ store = [NoStore EXCEPT ![o] = Legacy(a)]
          /\ keypair = [c \in Clients |-> IF c = o THEN "both" ELSE "none"]
          /\ granted = [c \in Clients |->
                          IF c = o THEN {<<"status", a>>} ELSE {}]
  /\ lock = Nobody
  /\ budget = Budget
  /\ pc = [p \in Clis |-> "idle"]
  /\ cmd = [p \in Clis |-> NoCommand]
  /\ copy = [p \in Clis |-> NoStore]
  /\ rpc = [r \in Requests |-> "idle"]
  /\ ask = [r \in Requests |-> NoAsk]
  /\ seen = [r \in Requests |-> FALSE]
  /\ answer = [r \in Requests |-> {}]
  /\ since = [r \in Requests |-> {}]
  /\ wasOn = [r \in Requests |-> FALSE]

Spend == budget > 0 /\ budget' = budget - 1
-----------------------------------------------------------------------------
(* Policies.                                                               *)

\* `granted_status_accounts`.
StatusAccounts(p) ==
  IF ~p.status THEN {}
  ELSE IF p.statusAccounts = {} THEN {p.account} \ {None}
  ELSE p.statusAccounts

\* `create_client`: a client with no grants.
Fresh == [account |-> None, status |-> FALSE, statusAccounts |-> {},
          fields |-> {}]

\* `grant_fields_policy`: a client is scoped to one account.
CanGrant(p, a) == p.account \in {None, a}
Granted(p, a, fields) ==
  [account |-> a, status |-> p.status, statusAccounts |-> p.statusAccounts,
   fields |-> p.fields \union fields]

\* `revoke_fields_policy`. The account goes with the last grant.
CanRevoke(p) == p.fields # {}
Revoked_Unscopes(p, fields) ==
  [account |-> IF ~p.status THEN None ELSE p.account,
   status |-> p.status, statusAccounts |-> p.statusAccounts,
   fields |-> IF fields = {} THEN {} ELSE p.fields \ fields]

Revoked(p, fields) ==
  LET left == IF fields = {} THEN {} ELSE p.fields \ fields
  IN [account |-> IF left = {} /\ ~p.status THEN None ELSE p.account,
      status |-> p.status, statusAccounts |-> p.statusAccounts,
      fields |-> left]

\* `grant_status_policy`, for every account.
StatusGranted_Forgets(p, accounts) ==
  [account |-> IF p.fields = {} THEN None ELSE p.account,
   status |-> TRUE, statusAccounts |-> p.statusAccounts \union accounts,
   fields |-> p.fields]

StatusGranted(p, accounts) ==
  [account |-> IF p.fields = {} THEN None ELSE p.account,
   status |-> TRUE, statusAccounts |-> StatusAccounts(p) \union accounts,
   fields |-> p.fields]

\* `revoke_status_policy`.
StatusRevoked(p, accounts) ==
  LET left == IF accounts = {} THEN {} ELSE StatusAccounts(p) \ accounts
  IN [account |-> IF left = {} /\ p.fields = {} THEN None ELSE p.account,
      status |-> left # {}, statusAccounts |-> left, fields |-> p.fields]

\* What a policy lets its client read.
Permits(p) ==
  IF p = NoPolicy THEN {}
  ELSE {<<"field", p.account, f>> : f \in p.fields}
         \union {<<"status", a>> : a \in StatusAccounts(p)}
-----------------------------------------------------------------------------
(* Commands that change the store.                                         *)

Goto(p, step) == pc' = [pc EXCEPT ![p] = step]

\* A command starts. Every identity is created once.
Command(p) == \E c \in Commands :
  /\ pc[p] = "idle"
  /\ Spend
  /\ c.kind = "create" => /\ keypair[c.client] = "none"
                          /\ \A q \in Clis : cmd[q].client # c.client
                                               \/ pc[q] = "idle"
  /\ c.fields = {} \/ c.kind \in {"grant", "revoke"}
  /\ c.accounts = {} \/ c.kind \in {"grant", "grant_status", "revoke_status"}
  /\ c.kind = "grant" => c.fields # {} /\ \E a \in Accounts : c.accounts = {a}
  /\ c.kind = "grant_status" => c.accounts # {}
  /\ c.kind = "revoke_status" => Cardinality(c.accounts) <= 1
  /\ cmd' = [cmd EXCEPT ![p] = c]
  /\ Goto(p, IF c.kind = "create" THEN "issue" ELSE "lock")
  /\ UNCHANGED <<enabled, store, lock, keypair, copy, reqVars, history>>

\* `issue_client_certificate`: the certificate, then the key.
Issue(p) ==
  /\ pc[p] = "issue"
  /\ LET c == cmd[p].client
     IN IF keypair[c] = "none"
        THEN keypair' = [keypair EXCEPT ![c] = "cert"] /\ UNCHANGED pc
        ELSE keypair' = [keypair EXCEPT ![c] = "both"] /\ Goto(p, "lock")
  /\ UNCHANGED <<enabled, store, budget, lock, cmd, copy, reqVars, history>>

\* The key could not be written: no certificate stays.
IssueFails(p) ==
  /\ pc[p] = "issue" /\ keypair[cmd[p].client] = "cert"
  /\ keypair' = [keypair EXCEPT ![cmd[p].client] = "gone"]
  /\ Goto(p, "idle")
  /\ UNCHANGED <<enabled, store, budget, lock, cmd, copy, reqVars, history>>

TakeLock_Shared(p) ==
  /\ pc[p] = "lock"
  /\ lock' = p
  /\ Goto(p, "load")
  /\ UNCHANGED <<enabled, store, keypair, budget, cmd, copy, reqVars, history>>

TakeLock(p) ==
  /\ pc[p] = "lock" /\ lock = Nobody
  /\ lock' = p
  /\ Goto(p, "load")
  /\ UNCHANGED <<enabled, store, keypair, budget, cmd, copy, reqVars, history>>

\* The update a command makes is possible in this store.
Possible(c, s) ==
  LET p == s[c.client]
  IN c.kind = "create" \/
       /\ p # NoPolicy
       /\ c.kind = "grant" => \A a \in c.accounts : CanGrant(p, a)
       /\ c.kind = "revoke" => CanRevoke(p)

Updated(c, p) ==
  CASE c.kind = "create" -> Fresh
    [] c.kind = "grant" ->
         Granted(p, CHOOSE a \in c.accounts : TRUE, c.fields)
    [] c.kind = "revoke" -> Revoked(p, c.fields)
    [] c.kind = "grant_status" -> StatusGranted(p, c.accounts)
    [] c.kind = "revoke_status" -> StatusRevoked(p, c.accounts)
    [] OTHER -> NoPolicy

Load(p) ==
  /\ pc[p] = "load"
  /\ copy' = [copy EXCEPT ![p] = store]
  /\ IF Possible(cmd[p], store) THEN Goto(p, "save") /\ UNCHANGED lock
                                ELSE Goto(p, "idle") /\ lock' = Nobody
  /\ UNCHANGED <<enabled, store, keypair, budget, cmd, reqVars, history>>

\* What the command is meant to do to the grants of its client.
Meant(c, held) ==
  LET status(A) == {<<"status", a>> : a \in A}
      field(A, F) == {<<"field", a, f>> : a \in A, f \in F}
  IN CASE c.kind = "grant" -> held \union field(c.accounts, c.fields)
       [] c.kind = "revoke" ->
            held \ field(Accounts, IF c.fields = {} THEN Fields ELSE c.fields)
       [] c.kind = "grant_status" -> held \union status(c.accounts)
       [] c.kind = "revoke_status" ->
            held \ status(IF c.accounts = {} THEN Accounts ELSE c.accounts)
       [] OTHER -> {}

\* A request that is under way may have met the grants of its client.
Note ==
  since' = [r \in Requests |->
              since[r] \union (IF rpc[r] = "idle" THEN {}
                               ELSE granted'[ask[r].client])]

\* The new store is renamed over the old one, and the lock is released.
Save(p) ==
  /\ pc[p] = "save"
  /\ LET c == cmd[p]
     IN /\ store' = [copy[p] EXCEPT ![c.client] = Updated(c, @)]
        /\ granted' = [granted EXCEPT ![c.client] = Meant(c, @)]
        /\ Goto(p, IF c.kind = "revoke_client" THEN "unissue" ELSE "idle")
  /\ Note
  /\ lock' = Nobody
  /\ copy' = [copy EXCEPT ![p] = NoStore]
  /\ UNCHANGED <<enabled, keypair, budget, cmd, reqVars, wasOn>>

SaveFails_Unissues(p) ==
  /\ pc[p] = "save"
  /\ Goto(p, "unissue")
  /\ lock' = Nobody
  /\ copy' = [copy EXCEPT ![p] = NoStore]
  /\ UNCHANGED <<enabled, store, keypair, budget, cmd, reqVars, history>>

\* The store could not be saved: the old one stays. A client that was to be
\* created loses its files.
SaveFails(p) ==
  /\ pc[p] = "save"
  /\ Goto(p, IF cmd[p].kind = "create" THEN "unissue" ELSE "idle")
  /\ lock' = Nobody
  /\ copy' = [copy EXCEPT ![p] = NoStore]
  /\ UNCHANGED <<enabled, store, keypair, budget, cmd, reqVars, history>>

\* `remove_client_certificate`: the certificate, then the key.
Unissue(p) ==
  /\ pc[p] = "unissue"
  /\ LET c == cmd[p].client
     IN IF keypair[c] = "both"
        THEN keypair' = [keypair EXCEPT ![c] = "key"] /\ UNCHANGED pc
        ELSE keypair' = [keypair EXCEPT ![c] = "gone"] /\ Goto(p, "idle")
  /\ UNCHANGED <<enabled, store, budget, lock, cmd, copy, reqVars, history>>

\* The process dies, and its lock with it.
Crash(p) ==
  /\ pc[p] # "idle"
  /\ Spend
  /\ Goto(p, "idle")
  /\ lock' = IF lock = p THEN Nobody ELSE lock
  /\ copy' = [copy EXCEPT ![p] = NoStore]
  /\ UNCHANGED <<enabled, store, keypair, cmd, reqVars, history>>

\* `rbw api enable` and `rbw api disable` save the configuration.
Switch ==
  /\ Spend
  /\ enabled' = ~enabled
  /\ wasOn' = [r \in Requests |-> wasOn[r] \/ (rpc[r] # "idle" /\ enabled')]
  /\ UNCHANGED <<store, keypair, cliVars, reqVars, granted, since>>
-----------------------------------------------------------------------------
(* Requests. They come in on connections that may be as old as they like.  *)

Step(r, step) == rpc' = [rpc EXCEPT ![r] = step]

Arrive(r) == \E q \in Asks :
  /\ rpc[r] = "idle"
  /\ Spend
  /\ Cardinality(q.fields) = IF q.kind = "field" THEN 1 ELSE 0
  /\ ask' = [ask EXCEPT ![r] = q]
  /\ since' = [since EXCEPT ![r] = granted[q.client]]
  /\ wasOn' = [wasOn EXCEPT ![r] = enabled]
  /\ Step(r, "config")
  /\ UNCHANGED <<enabled, store, keypair, cliVars, seen, answer, granted>>

\* The policy of a request: first the configuration, then the store.
ReadConfig(r) ==
  /\ rpc[r] = "config"
  /\ seen' = [seen EXCEPT ![r] = enabled]
  /\ Step(r, "policy")
  /\ UNCHANGED <<enabled, store, keypair, budget, cliVars, ask, answer,
                 history>>

\* What the store allows of what is asked.
Allowed(q) ==
  LET all == Permits(store[q.client])
  IN CASE q.kind = "field" ->
            {a \in all : a[1] = "field" /\ a[3] \in q.fields}
       [] q.kind = "list" -> {a \in all : a[1] = "field"}
       [] OTHER -> {a \in all : a[1] = "status"}

\* `read_field_inner`, `list_items_inner`, `read_status_inner` up to the
\* decision.
ReadPolicy_Cached(r) ==
  /\ rpc[r] = "policy"
  /\ LET may == IF seen[r] THEN Allowed(ask[r]) \union answer[r] ELSE {}
     IN /\ answer' = [answer EXCEPT ![r] = may]
        /\ Step(r, IF may = {} THEN "idle" ELSE "serve")
  /\ UNCHANGED <<enabled, store, keypair, budget, cliVars, ask, seen, history>>

ReadPolicy(r) ==
  /\ rpc[r] = "policy"
  /\ LET may == IF seen[r] THEN Allowed(ask[r]) ELSE {}
     IN /\ answer' = [answer EXCEPT ![r] = may]
        /\ Step(r, IF may = {} THEN "idle" ELSE "serve")
  /\ UNCHANGED <<enabled, store, keypair, budget, cliVars, ask, seen, history>>

\* The vault is read, or fails to be, and the response is sent.
Serve(r) ==
  /\ rpc[r] = "serve"
  /\ Step(r, "idle")
  /\ UNCHANGED <<enabled, store, keypair, budget, cliVars, ask, seen, answer,
                 history>>

PolicyNext ==
  \/ \E p \in Clis :
       \/ Command(p) \/ Issue(p) \/ IssueFails(p) \/ TakeLock(p) \/ Load(p)
       \/ Save(p) \/ SaveFails(p) \/ Unissue(p) \/ Crash(p)
  \/ Switch
  \/ \E r \in Requests :
       Arrive(r) \/ ReadConfig(r) \/ ReadPolicy(r) \/ Serve(r)

PolicySpec == PolicyInit /\ [][PolicyNext]_policyVars
-----------------------------------------------------------------------------
(* The policy store says what the operator has granted and not revoked:    *)
(* no command undoes another one that came in between, a crash leaves no   *)
(* half-made change, and older policies mean what they meant               *)
(* (remote_api.rs:371-373).                                                *)
PolicyIsWhatWasGranted ==
  \A c \in Clients : Permits(store[c]) = granted[c]

(* What a request gets was granted to its client at some moment since it   *)
(* came, with the API enabled at some moment: once a revocation or         *)
(* `rbw api disable` has been saved, requests that come later are refused, *)
(* also on old connections (remote_api.rs:353-354).                        *)
ServedWasGranted ==
  \A r \in Requests :
    rpc[r] = "serve" => answer[r] \subseteq since[r] /\ wasOn[r]

(* A client in the store has its certificate and its key, however a        *)
(* command may have failed or died: the certificate comes before the       *)
(* policy, and goes after it.                                              *)
ClientsHaveKeys ==
  \A c \in Clients : store[c] # NoPolicy => keypair[c] = "both"
=============================================================================
