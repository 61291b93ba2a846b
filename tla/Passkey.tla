------------------------------ MODULE Passkey ------------------------------
(***************************************************************************)
(* The counter of one passkey and the other writes to the entry that holds *)
(* it: sign-ins from the command line, through the browser host and with a *)
(* virtual authenticator (passkey.rs, browser/passkeys.rs), the commands   *)
(* that set or reset the counter, and the edits of the entry (set_cmds.rs, *)
(* write_cmds.rs, history_audit.rs), by several processes on several       *)
(* devices that share one account.                                         *)
(*                                                                         *)
(* A write replaces the whole entry, hence the counter too, by what its    *)
(* process had read, and in a structured edit by whatever the user made of *)
(* it; the server takes it only from the current revision.                 *)
(***************************************************************************)
EXTENDS Integers

CONSTANTS
  Devices,
  Procs,       \* bound: commands at once
  DeviceOf,    \* the device of each
  Free,        \* in place of a process: nobody
  MaxCounter,  \* the largest counter, u32::MAX in the code
  Budget       \* bound: commands of a behaviour

ASSUME DeviceAssumption  == DeviceOf \in [Procs -> Devices]
ASSUME FreeAssumption    == Free \notin Procs
ASSUME CounterAssumption == MaxCounter \in Nat \ {0}
ASSUME BudgetAssumption  == Budget \in Nat

Counters == 0..MaxCounter

\* The entry may also come to hold a passkey without a counter.
Missing        == -1
StoredCounters == Counters \union {Missing}

\* "final" is the second write of an injection. "edit" stands for rbw edit
\* --yaml, --json and --patch, "field" for rbw edit --field, "restore" for rbw
\* history --restore.
Signers == {"assert", "browser", "inject"}
Editors == {"edit", "field", "restore"}
Kinds   == Signers \union Editors \union {"set", "reset"}

VARIABLES
  server,   \* the entry on the server: its revision and the counter in it
  local,    \* per device: the entry in the local database
  lock,     \* per device: who holds passkey-<id>.lock
  pc, kind, tried,  \* per process; tried: the browser host has synced and retried
  sel,      \* per process: the entry it works on
  seen,     \* per process: the revision its editor was opened on
  res,      \* per process: the counter it reserves, or writes
  count,    \* per process: the counter of its virtual authenticator
  budget,
  sigs,     \* history: how many signatures carry each counter
  loose,    \* history: counters of assertions nobody reserved, or reserved before the
            \* user took the counter back
  last      \* history: per device, the counter signed last

entries == <<server, local>>
history == <<sigs, loose, last>>
passkeyVars ==
  <<entries, lock, pc, kind, tried, sel, seen, res, count, budget, history>>

Entries == [rev : Nat, counter : StoredCounters]
Steps == {"idle", "select", "lock", "reselect", "reserve", "write", "confirm", "sign",
          "after", "ready", "asserted", "left", "open", "edit", "reopen", "sync"}

PasskeyTypeOK ==
  /\ server \in Entries
  /\ local \in [Devices -> Entries]
  /\ lock \in [Devices -> Procs \union {Free}]
  /\ pc \in [Procs -> Steps]
  /\ kind \in [Procs -> Kinds \union {"final"}]
  /\ tried \in [Procs -> BOOLEAN]
  /\ sel \in [Procs -> Entries]
  /\ seen \in [Procs -> Nat]
  /\ res \in [Procs -> Counters]
  /\ count \in [Procs -> Counters]
  /\ budget \in 0..Budget
  /\ sigs \in [Counters -> Nat]
  /\ loose \subseteq Counters
  /\ last \in [Devices -> Counters]

NewEntry == [rev |-> 0, counter |-> 0]

\* register stores a new passkey with the counter 0 and syncs.
PasskeyInit ==
  /\ server = NewEntry
  /\ local = [d \in Devices |-> NewEntry]
  /\ lock = [d \in Devices |-> Free]
  /\ pc = [p \in Procs |-> "idle"]
  /\ kind = [p \in Procs |-> "edit"]
  /\ tried = [p \in Procs |-> FALSE]
  /\ sel = [p \in Procs |-> NewEntry]
  /\ seen = [p \in Procs |-> 0]
  /\ res = [p \in Procs |-> 0]
  /\ count = [p \in Procs |-> 0]
  /\ budget = Budget
  /\ sigs = [c \in Counters |-> 0]
  /\ loose = {}
  /\ last = [d \in Devices |-> 0]

----------------------------------------------------------------------------
(* Steps all commands have in common. A finished process forgets what it   *)
(* worked on, and the kernel releases its lock.                            *)

Goto(p, step) == pc' = [pc EXCEPT ![p] = step]

Synced(p) == local' = [local EXCEPT ![DeviceOf[p]] = server]

Unlocked(p) == [lock EXCEPT ![DeviceOf[p]] = IF @ = p THEN Free ELSE @]

Forget(p) ==
  /\ sel' = [sel EXCEPT ![p] = NewEntry]
  /\ seen' = [seen EXCEPT ![p] = 0]
  /\ res' = [res EXCEPT ![p] = 0]

End(p) ==
  /\ Goto(p, "idle")
  /\ lock' = Unlocked(p)
  /\ Forget(p)
  /\ count' = [count EXCEPT ![p] = 0]
  /\ tried' = [tried EXCEPT ![p] = FALSE]
  /\ UNCHANGED <<kind, local>>

\* authenticate_synced: whatever went wrong the first time, sync and try again.
Retry(p) ==
  /\ kind[p] = "browser" /\ ~tried[p] /\ pc[p] \notin {"idle", "after"}
  /\ tried' = [tried EXCEPT ![p] = TRUE]
  /\ local' = [local EXCEPT ![DeviceOf[p]] = server']
  /\ Goto(p, "select")
  /\ lock' = Unlocked(p)
  /\ Forget(p)
  /\ UNCHANGED <<kind, count>>

\* A virtual authenticator that answers the page is removed, or stays when its
\* removal fails as well.
Abandon(p) ==
  /\ kind[p] = "inject" /\ pc[p] \in {"ready", "asserted"}
  /\ Goto(p, "left")
  /\ lock' = Unlocked(p)
  /\ Forget(p)
  /\ UNCHANGED <<kind, count, tried, local>>

Failed(p) == End(p) \/ Retry(p) \/ Abandon(p)

Start(p, k) ==
  /\ pc[p] = "idle"
  /\ budget > 0
  /\ budget' = budget - 1
  /\ kind' = [kind EXCEPT ![p] = k]
  /\ Goto(p, IF k \in Editors THEN "open" ELSE "select")
  /\ UNCHANGED <<entries, lock, tried, sel, seen, res, count, history>>

\* A call fails, a timeout passes, a check is not met, or the process dies.
Fail(p) ==
  /\ pc[p] \notin {"idle", "left"}
  /\ UNCHANGED <<server, budget, history>>
  /\ Failed(p)

----------------------------------------------------------------------------
(* Selecting the entry (select, select_cached). Only the browser host works *)
(* from the local database as it is.                                       *)

Fresh(p) ==
  IF kind[p] = "browser" THEN sel' = [sel EXCEPT ![p] = local[DeviceOf[p]]] /\ UNCHANGED local
                         ELSE sel' = [sel EXCEPT ![p] = server] /\ Synced(p)

Larger(c, d) == IF c > d THEN c ELSE d

\* The counter a command wants: --set may not decrease it, --reset may, and the
\* end of an injection must not lose what the browser or another device added.
\* Where there is none, none of them makes one.
Wanted(p) ==
  {c \in Counters :
     /\ server.counter # Missing
     /\ \/ kind[p] = "set" /\ c >= server.counter
        \/ kind[p] = "reset" /\ c = 0
        \/ kind[p] = "final" /\ c = Larger(count[p], server.counter)}

Select(p) ==
  /\ pc[p] = "select"
  /\ IF kind[p] \in Signers
       THEN /\ IF kind[p] = "browser" THEN UNCHANGED local ELSE Synced(p)
            /\ Goto(p, "lock")
            /\ UNCHANGED <<sel, res>>
       ELSE /\ Fresh(p)
            /\ \E c \in Wanted(p) :
                 /\ res' = [res EXCEPT ![p] = c]
                 /\ Goto(p, IF c = server.counter THEN "confirm" ELSE "write")
  /\ UNCHANGED <<server, lock, kind, tried, seen, count, budget, history>>

TryLock_Ignored(p) ==
  /\ pc[p] = "lock"
  /\ Goto(p, "reselect")
  /\ lock' = [lock EXCEPT ![DeviceOf[p]] = p]
  /\ UNCHANGED <<entries, kind, tried, sel, seen, res, count, budget, history>>

TryLock(p) ==
  /\ pc[p] = "lock"
  /\ lock[DeviceOf[p]] = Free
  /\ Goto(p, "reselect")
  /\ lock' = [lock EXCEPT ![DeviceOf[p]] = p]
  /\ UNCHANGED <<entries, kind, tried, sel, seen, res, count, budget, history>>

Reselect(p) ==
  /\ pc[p] = "reselect"
  /\ Fresh(p)
  /\ Goto(p, "reserve")
  /\ UNCHANGED <<server, lock, kind, tried, seen, res, count, budget, history>>

\* A counter of zero stays zero in the browser, elsewhere unless passkeyCounter
\* is set, and an injection needs it set; next_counter does not overflow.
Reservations(p) ==
  LET previous == sel[p].counter
  IN {c \in Counters :
        /\ previous # Missing
        /\ \/ c = previous + 1 /\ (previous > 0 \/ kind[p] # "browser")
           \/ c = 0 /\ previous = 0 /\ kind[p] # "inject"}

Reserve(p) ==
  /\ pc[p] = "reserve"
  /\ \E c \in Reservations(p) :
       /\ res' = [res EXCEPT ![p] = c]
       /\ Goto(p, IF c = 0 THEN "sign" ELSE "write")
       /\ count' = [count EXCEPT ![p] = IF kind[p] = "inject" THEN c - 1 ELSE @]
  /\ UNCHANGED <<entries, lock, kind, tried, sel, seen, budget, history>>

----------------------------------------------------------------------------
(* The guarded write of an entry (advance_inner, apply_entry_update).      *)

Accepts_Unguarded(p) == server.counter <= MaxCounter

\* Every write names the revision it was made from (cipher_write_meta).
Accepts(p) == sel[p].rev = server.rev

\* A structured edit writes what its user left in the text, the passkey's counter
\* included; the other edits carry the passkeys over as they had read them.
NewCounters(p) ==
  IF kind[p] = "edit" THEN StoredCounters
  ELSE IF kind[p] \in Editors THEN {sel[p].counter} ELSE {res[p]}

\* The user asks for a smaller counter than the one there is.
TakesBack(p, c) == kind[p] \in {"edit", "reset"} /\ c < sel[p].counter

\* Reserved counters not yet signed are no longer the vault's then.
InFlight ==
  {res[p] : p \in {q \in Procs : kind[q] \in Signers /\ pc[q] \in {"confirm", "sign", "ready"}}}

Written(p) ==
  /\ \E c \in NewCounters(p) :
       /\ server' = [rev |-> server.rev + 1, counter |-> c]
       /\ IF TakesBack(p, c)
            THEN /\ sigs' = [x \in Counters |-> 0]
                 /\ last' = [d \in Devices |-> 0]
                 /\ loose' = InFlight
            ELSE UNCHANGED history
  /\ UNCHANGED budget

AfterWrite(p) ==
  IF kind[p] = "browser" THEN "sign"
  ELSE IF kind[p] \in Editors THEN "sync" ELSE "confirm"

Write(p) ==
  /\ pc[p] = "write"
  /\ Accepts(p)
  /\ Written(p)
  /\ Goto(p, AfterWrite(p))
  /\ UNCHANGED <<local, lock, kind, tried, sel, seen, res, count>>

\* The server has taken the write, and the process does not learn of it.
AnswerLost(p) ==
  /\ pc[p] = "write"
  /\ Accepts(p)
  /\ Written(p)
  /\ Failed(p)

\* confirm_synced and the check after a reset. What they find wrong is a Fail.
Confirm(p) ==
  /\ pc[p] = "confirm"
  /\ IF kind[p] = "reset" THEN server.counter = 0 ELSE server.counter >= res[p]
  /\ Synced(p)
  /\ IF kind[p] \in Signers
       THEN /\ Goto(p, IF kind[p] = "inject" THEN "ready" ELSE "sign")
            /\ UNCHANGED <<lock, sel, seen, res, count>>
       ELSE /\ Goto(p, "idle")
            /\ lock' = Unlocked(p)
            /\ Forget(p)
            /\ count' = [count EXCEPT ![p] = 0]
  /\ UNCHANGED <<server, kind, tried, budget, history>>

----------------------------------------------------------------------------
(* Signatures.                                                             *)

\* A counter of zero says that the passkey has none.
Signed(p, c) ==
  /\ sigs' = [sigs EXCEPT ![c] = IF c = 0 THEN 0 ELSE @ + 1]
  /\ last' = [last EXCEPT ![DeviceOf[p]] = IF c = 0 \/ c \in loose THEN @ ELSE c]
  /\ UNCHANGED loose

SignedLoose(c) ==
  /\ sigs' = [sigs EXCEPT ![c] = @ + 1]
  /\ loose' = loose \union {c}
  /\ UNCHANGED last

\* assertion_value signs and returns, which releases the lock.
Sign(p) ==
  /\ pc[p] = "sign"
  /\ Signed(p, res[p])
  /\ lock' = Unlocked(p)
  /\ Forget(p)
  /\ Goto(p, IF kind[p] = "browser" THEN "after" ELSE "idle")
  /\ tried' = [tried EXCEPT ![p] = FALSE]
  /\ UNCHANGED <<entries, kind, count, budget>>

\* after_response: the host syncs once the page has its answer.
After(p) ==
  /\ pc[p] = "after"
  /\ Synced(p)
  /\ Goto(p, "idle")
  /\ UNCHANGED <<server, lock, kind, tried, sel, seen, res, count, budget, history>>

\* The page asks the virtual authenticator, which counts by itself: once for
\* the reservation, and again until its presence is turned off.
PageAsserts(p) ==
  /\ pc[p] \in {"ready", "asserted", "left"}
  /\ count[p] < MaxCounter
  /\ count' = [count EXCEPT ![p] = @ + 1]
  /\ IF pc[p] = "ready"
       THEN Signed(p, count[p] + 1) /\ Goto(p, "asserted")
       ELSE SignedLoose(count[p] + 1) /\ UNCHANGED pc
  /\ UNCHANGED <<entries, lock, kind, tried, sel, seen, res, budget>>

\* final_counter and the removal of the authenticator.
Freeze(p) ==
  /\ pc[p] = "asserted"
  /\ kind' = [kind EXCEPT ![p] = "final"]
  /\ Goto(p, "select")
  /\ UNCHANGED <<entries, lock, tried, sel, seen, res, count, budget, history>>

\* The user closes the page.
Close(p) ==
  /\ pc[p] = "left"
  /\ End(p)
  /\ UNCHANGED <<server, budget, history>>

----------------------------------------------------------------------------
(* Edits. Each reads the entry, after a sync or not, and shows it.         *)

Open(p) ==
  /\ pc[p] = "open"
  /\ IF kind[p] = "restore"
       THEN sel' = [sel EXCEPT ![p] = local[DeviceOf[p]]] /\ UNCHANGED local
       ELSE sel' = [sel EXCEPT ![p] = server] /\ Synced(p)
  /\ seen' = [seen EXCEPT ![p] = sel'[p].rev]
  /\ Goto(p, "edit")
  /\ UNCHANGED <<server, lock, kind, tried, res, count, budget, history>>

\* The editor is closed, or the prompt answered. edit_field hands the value to
\* set, which reads the entry again.
Leave(p) ==
  /\ pc[p] = "edit"
  /\ Goto(p, IF kind[p] = "field" THEN "reopen" ELSE "write")
  /\ UNCHANGED <<entries, lock, kind, tried, sel, seen, res, count, budget, history>>

Reopen(p) ==
  /\ pc[p] = "reopen"
  /\ sel' = [sel EXCEPT ![p] = server]
  /\ Synced(p)
  /\ Goto(p, "write")
  /\ UNCHANGED <<server, lock, kind, tried, seen, res, count, budget, history>>

\* after_server_write.
Sync(p) ==
  /\ pc[p] = "sync"
  /\ Synced(p)
  /\ Goto(p, "idle")
  /\ Forget(p)
  /\ UNCHANGED <<server, lock, kind, tried, count, budget, history>>

----------------------------------------------------------------------------
Step(p) ==
  \/ Select(p) \/ TryLock(p) \/ Reselect(p) \/ Reserve(p) \/ Write(p) \/ AnswerLost(p)
  \/ Confirm(p) \/ Sign(p) \/ After(p) \/ PageAsserts(p) \/ Freeze(p) \/ Close(p)
  \/ Open(p) \/ Leave(p) \/ Reopen(p) \/ Sync(p) \/ Fail(p)

PasskeyNext == \E p \in Procs : Step(p) \/ \E k \in Kinds : Start(p, k)

PasskeySpec == PasskeyInit /\ [][PasskeyNext]_passkeyVars

----------------------------------------------------------------------------
(* Properties.                                                             *)

\* No counter is signed twice, by whichever device and however a sign-in was
\* interrupted, and the vault is never behind one that was signed, whoever
\* writes the entry meanwhile. passkey.rs:2-3, "an interrupted browser cannot
\* leave the vault behind an assertion". It speaks of the signatures since the
\* user last took the counter back, by a reset or a structured edit, and not of
\* loose counters: those of pages that assert again before their authenticator
\* is gone, or after their injection was given up, and those reserved when the
\* counter was taken back.
CountersAreReserved ==
  \A c \in Counters \ loose : sigs[c] <= 1 /\ (sigs[c] > 0 => c <= server.counter)

\* On one device the signatures are made in the order of their counters, from
\* one time the user takes the counter back to the next (the item lock of
\* assertion_value and inject).
SignedInOrder ==
  [][\A d \in Devices : last'[d] = last[d] \/ last'[d] > last[d] \/ last' = [e \in Devices |-> 0]]_passkeyVars

\* docs/passkeys.md:7-8, "`rbw edit`/`rbw set` never expose the raw credential
\* fields for editing": an edit leaves the counter as it is (edit_structured,
\* set_entry and edit_field).
EditsKeepCounters ==
  [][\A p \in Procs :
       kind[p] \in Editors /\ pc[p] = "write" /\ server' # server /\ pc'[p] # "write"
         => server'.counter = server.counter]_passkeyVars

\* docs/passkeys.md:27-28, "an interrupted login cannot cause counter reuse",
\* without the exception above.
CountersNeverRepeat == \A c \in Counters : sigs[c] <= 1

\* docs/usage.md:301-302, "revision checks still reject changes made while an
\* editor or confirmation prompt is open": an edit replaces the revision its
\* user was shown.
EditsRejectChanges ==
  [][\A p \in Procs :
       kind[p] \in Editors /\ pc[p] = "write" /\ server' # server /\ pc'[p] # "write"
         => seen[p] = server.rev]_passkeyVars
=============================================================================
