----------------------------- MODULE VaultMove -----------------------------
(***************************************************************************)
(* Entries on their way from one vault to another: `rbw move` and `rbw     *)
(* copy`, `rbw mirror` with its purge, and `rbw collection assign          *)
(* --personal` (commands/collection_cmds.rs), on top of the import of      *)
(* commands/import_cmds.rs, which creates entries in bulk, and one by one  *)
(* those the bulk request left out.                                        *)
(*                                                                         *)
(* All entries bear the same name, since that is what `rbw move` looks     *)
(* for, and differ in their user name. An entry is whole once it has its   *)
(* fields, its history and its attachments. A mirror that overwrites, and  *)
(* one of a single collection, are left out.                               *)
(***************************************************************************)
EXTENDS Naturals, FiniteSets

CONSTANTS
  Clis,        \* bound: commands at once
  Vaults,
  Users,       \* user names of entries
  NoEntry,     \* no entry
  Shared,      \* the organization of org entries is known to both accounts
  MaxEntries,  \* bound: entries there ever are
  MaxChanges,  \* bound: commands, and changes made on another device
  Faults       \* bound: failures

ASSUME ValueAssumption == Shared \in BOOLEAN
\* There are two entries to begin with.
ASSUME BoundAssumption ==
  MaxEntries \in Nat \ {0, 1} /\ MaxChanges \in Nat /\ Faults \in Nat

VARIABLES
  cipher,          \* per id: the entry on its account's server
  used,            \* ids given so far
  items,           \* contents written so far
  copies,          \* per account: the local copy
  at, job,         \* per command: its step and what it works with
  gone,            \* history: contents a user gave up
  mistaken,        \* history: a copy was taken for made that was not
  overtaken,       \* history: what was removed had been changed since
  partial,         \* history: attachments of a copy could not be uploaded
  changes, faults

moveHistory == <<gone, mistaken, overtaken, partial>>
moveVars ==
  <<cipher, used, items, copies, at, job, moveHistory, changes, faults>>

Ids == 1..MaxEntries
Items == 1..(2 + MaxChanges)
Ciphers == [acct : Vaults, user : Users, item : Items, whole : BOOLEAN,
            org : BOOLEAN, bin : BOOLEAN]
ASSUME NoEntryAssumption == NoEntry \notin Ciphers
MoveKinds == {"trash", "delete", "keep", "personal", "mirror", "purge"}
Moves == {"trash", "delete", "keep"}
NoJob(a) ==
  [kind |-> "keep", from |-> a, to |-> a, orig |-> 1, what |-> {},
   before |-> {}, base |-> {}, bulk |-> {}, sent |-> {}, alone |-> {},
   open |-> {}, mine |-> {}, failed |-> FALSE]

\* What the server of account a holds; which ids a copy of it has.
HeldOf(c, a) ==
  [i \in Ids |-> IF c[i] # NoEntry /\ c[i].acct = a THEN c[i] ELSE NoEntry]
Held(a) == HeldOf(cipher, a)
Present(copy) == {i \in Ids : copy[i] # NoEntry}

MoveTypeOK ==
  /\ cipher \in [Ids -> Ciphers \union {NoEntry}]
  /\ used \in 0..MaxEntries /\ items \in Items
  /\ \A i \in Ids : i > used => cipher[i] = NoEntry
  /\ copies \in [Vaults -> [Ids -> Ciphers \union {NoEntry}]]
  /\ at \in [Clis -> {"idle", "snapshot", "purge", "index", "import", "check",
                      "remove"}]
  /\ \A p \in Clis :
       LET j == job[p] IN
       /\ j.kind \in MoveKinds /\ {j.from, j.to} \subseteq Vaults \union {NoEntry}
       /\ j.orig \in Ids
       /\ j.what \union j.bulk \union j.sent \union j.alone \subseteq Ciphers
       /\ j.before \union j.base \subseteq Ids /\ j.mine \subseteq 1..used
       /\ j.open \subseteq (1..used) \X Ciphers /\ j.failed \in BOOLEAN
  /\ gone \subseteq Items
  /\ {mistaken, overtaken, partial} \subseteq BOOLEAN
  /\ changes \in 0..MaxChanges /\ faults \in 0..Faults

MoveInit ==
  /\ \E a1, a2 \in Vaults, u1, u2 \in Users, o \in BOOLEAN :
       cipher = [i \in Ids |->
         CASE i = 1 -> [acct |-> a1, user |-> u1, item |-> 1, whole |-> TRUE,
                        org |-> o, bin |-> FALSE]
           [] i = 2 -> [acct |-> a2, user |-> u2, item |-> 2, whole |-> TRUE,
                        org |-> FALSE, bin |-> FALSE]
           [] OTHER -> NoEntry]
  /\ used = 2 /\ items = 2
  /\ copies = [a \in Vaults |-> Held(a)]
  /\ at = [p \in Clis |-> "idle"]
  /\ job = [p \in Clis |-> NoJob(NoEntry)]
  /\ gone = {} /\ mistaken = FALSE /\ overtaken = FALSE /\ partial = FALSE
  /\ changes = MaxChanges /\ faults = Faults

Proceeds(p, step) == at' = [at EXCEPT ![p] = step]
Fault == faults > 0 /\ faults' = faults - 1
Set(p, j) == job' = [job EXCEPT ![p] = j]
Refetched(a) == copies' = [copies EXCEPT ![a] = Held(a)]
Stop(p) == Proceeds(p, "idle") /\ Set(p, NoJob(NoEntry))
-----------------------------------------------------------------------------
(* Everything else that happens to the vaults.                             *)

\* The agent syncs an account.
SyncVault(a) ==
  /\ copies[a] # Held(a)
  /\ Refetched(a)
  /\ UNCHANGED <<cipher, used, items, at, job, moveHistory, changes, faults>>

\* Another device makes an entry, or changes one.
Create(a, u) ==
  /\ changes > 0 /\ changes' = changes - 1
  /\ used < MaxEntries /\ used' = used + 1
  /\ items' = items + 1
  /\ cipher' = [cipher EXCEPT ![used + 1] =
       [acct |-> a, user |-> u, item |-> items + 1, whole |-> TRUE,
        org |-> FALSE, bin |-> FALSE]]
  /\ UNCHANGED <<copies, at, job, moveHistory, faults>>

Edit(i) ==
  /\ changes > 0 /\ changes' = changes - 1
  /\ cipher[i] # NoEntry
  /\ items' = items + 1
  /\ cipher' = [cipher EXCEPT ![i] = [@ EXCEPT !.item = items + 1,
                                               !.whole = TRUE]]
  /\ gone' = gone \union {cipher[i].item}
  /\ UNCHANGED <<used, copies, at, job, mistaken, overtaken, partial, faults>>
-----------------------------------------------------------------------------
(* A command begins: what it copies is read from the local copy.           *)

Live(a) == {i \in Present(copies[a]) : ~copies[a][i].bin}

\* `move_entry_by_id`, up to the end of the export.
Move(p, i) == \E k \in Moves, a, b \in Vaults :
  /\ at[p] = "idle"
  /\ changes > 0 /\ changes' = changes - 1
  /\ a # b /\ i \in Live(a)
  /\ Set(p, [NoJob(a) EXCEPT !.kind = k, !.to = b, !.orig = i,
                             !.what = {copies[a][i]}])
  /\ Proceeds(p, "snapshot")
  /\ UNCHANGED <<cipher, used, items, copies, moveHistory, faults>>

\* `mirror_vault_with_options`, up to the confirmation.
Mirror(p) == \E k \in {"mirror", "purge"}, a, b \in Vaults :
  /\ at[p] = "idle"
  /\ changes > 0 /\ changes' = changes - 1
  /\ a # b
  /\ Set(p, [NoJob(a) EXCEPT !.kind = k, !.to = b,
                             !.what = {copies[a][i] : i \in Live(a)}])
  /\ Proceeds(p, IF k = "purge" THEN "purge" ELSE "index")
  /\ UNCHANGED <<cipher, used, items, copies, moveHistory, faults>>

\* `move_entry_to_personal`: an entry of an organization, in its account.
Personal(p, i) == \E a \in Vaults :
  /\ at[p] = "idle"
  /\ changes > 0 /\ changes' = changes - 1
  /\ i \in Live(a) /\ copies[a][i].org
  /\ Set(p, [NoJob(a) EXCEPT !.kind = "personal", !.orig = i,
                             !.what = {copies[a][i]}, !.alone = {copies[a][i]}])
  /\ Proceeds(p, "import")
  /\ UNCHANGED <<cipher, used, items, copies, moveHistory, faults>>

\* The entries of the destination, as `rbw move` knows them.
Snapshot(p) ==
  /\ at[p] = "snapshot"
  /\ Set(p, [job[p] EXCEPT !.before = Present(copies[job[p].to])])
  /\ Proceeds(p, "index")
  /\ UNCHANGED <<cipher, used, items, copies, moveHistory, changes, faults>>

\* `purge_vault`: the personal entries of the destination are removed.
Purge(p) ==
  /\ at[p] = "purge"
  /\ LET out == {i \in Ids : Held(job[p].to)[i] # NoEntry /\ ~cipher[i].org}
     IN /\ cipher' = [i \in Ids |-> IF i \in out THEN NoEntry ELSE cipher[i]]
        /\ gone' = gone \union {cipher[i].item : i \in out}
        /\ copies' = [copies EXCEPT ![job[p].to] =
             [i \in Ids |-> IF i \in out THEN NoEntry
                            ELSE Held(job[p].to)[i]]]
  /\ Proceeds(p, "index")
  /\ UNCHANGED <<used, items, job, mistaken, overtaken, partial, changes,
                 faults>>
-----------------------------------------------------------------------------
(* `import_vault`.                                                         *)

Copied(p, e) ==
  [acct |-> job[p].to, user |-> e.user, item |-> e.item, whole |-> FALSE,
   org |-> e.org /\ Shared /\ job[p].kind # "personal", bin |-> FALSE]

\* Entries whose name and user name are there are skipped. Of the others,
\* those that share them go one by one, the rest in bulk. A collection that
\* had to be made has the vault synced before.
Index(p) == \E synced \in BOOLEAN :
  LET j == job[p]
      here == IF synced THEN Held(j.to) ELSE copies[j.to]
      there == {here[i].user : i \in Present(here)}
      new == {e \in j.what : e.user \notin there}
      twins == {e \in new : \E f \in new \ {e} : f.user = e.user}
  IN /\ at[p] = "index"
     /\ synced => Shared /\ \E e \in j.what : e.org
     /\ copies' = [copies EXCEPT ![j.to] = here]
     /\ Set(p, [j EXCEPT !.base = Present(here), !.alone = twins,
                         !.bulk = new \ twins])
     /\ Proceeds(p, "import")
     /\ UNCHANGED <<cipher, used, items, moveHistory, changes, faults>>

\* All that is made one by one is made.
Settled(j) == j.open = {} /\ j.alone = {}

\* An entry of a bulk request. The server may drop it without a word.
BulkOne(p) == \E e \in job[p].bulk :
  LET j == [job[p] EXCEPT !.bulk = @ \ {e}, !.sent = @ \union {e}]
  IN /\ at[p] = "import" /\ Settled(job[p])
     /\ \/ /\ used < MaxEntries /\ used' = used + 1
           /\ cipher' = [cipher EXCEPT ![used + 1] = Copied(p, e)]
           /\ Set(p, [j EXCEPT !.mine = @ \union {used + 1}])
           /\ UNCHANGED faults
        \/ /\ Fault
           /\ Set(p, j)
           /\ UNCHANGED <<cipher, used>>
     /\ UNCHANGED <<items, copies, at, moveHistory, changes>>

\* The request is done. Its entries are looked for among those that are new
\* after a sync, and who is not found is made by itself.
BulkDone(p) ==
  LET j == job[p]
      new == Present(Held(j.to)) \ j.base
      named(u) == {i \in new : cipher[i].user = u}
  IN \E found \in SUBSET new :
     /\ at[p] = "import" /\ j.bulk = {} /\ j.sent # {}
     /\ \A i \in found : \E e \in j.sent : e.user = cipher[i].user
     /\ \A e \in j.sent : Cardinality(found \cap named(e.user)) =
                            IF named(e.user) = {} THEN 0 ELSE 1
     /\ Refetched(j.to)
     /\ Set(p, [j EXCEPT !.sent = {},
                         !.open = {o \in found \X j.sent :
                                     o[2].user = cipher[o[1]].user},
                         !.alone = {e \in j.sent : named(e.user) = {}}])
     /\ mistaken' = (mistaken \/ ~(found \subseteq j.mine))
     /\ UNCHANGED <<cipher, used, items, at, gone, overtaken, partial, changes,
                    faults>>

\* The request fails, or its answer is lost: every entry is made by itself.
BulkFails(p) ==
  LET j == job[p]
  IN /\ at[p] = "import" /\ Settled(j)
     /\ j.bulk \union j.sent # {}
     /\ Fault
     /\ Set(p, [j EXCEPT !.bulk = {}, !.sent = {},
                         !.alone = j.bulk \union j.sent])
     /\ UNCHANGED <<cipher, used, items, copies, at, moveHistory, changes>>

\* `import_create_entry`, and the first call of `move_entry_to_personal`.
AddOne(p) == \E e \in job[p].alone :
  /\ at[p] = "import" /\ job[p].open = {}
  /\ used < MaxEntries /\ used' = used + 1
  /\ cipher' = [cipher EXCEPT ![used + 1] = Copied(p, e)]
  /\ Set(p, [job[p] EXCEPT !.alone = @ \ {e}, !.open = {<<used + 1, e>>},
                           !.mine = @ \union {used + 1}])
  /\ UNCHANGED <<items, copies, at, moveHistory, changes, faults>>

\* The call fails, or its answer is lost. An import goes on with the next
\* entry, to fail in the end; a move to the personal vault is over.
AddFails(p) == \E e \in job[p].alone, lost \in BOOLEAN :
  /\ at[p] = "import" /\ job[p].open = {}
  /\ Fault
  /\ IF lost
     THEN /\ used < MaxEntries /\ used' = used + 1
          /\ cipher' = [cipher EXCEPT ![used + 1] = Copied(p, e)]
     ELSE UNCHANGED <<cipher, used>>
  /\ IF job[p].kind = "personal" THEN Stop(p)
     ELSE /\ Set(p, [job[p] EXCEPT !.alone = @ \ {e}, !.mine =
               IF lost THEN @ \union {used + 1} ELSE @, !.failed = TRUE])
          /\ UNCHANGED at
  /\ UNCHANGED <<items, copies, moveHistory, changes>>

\* The rest of an entry follows: fields, history, attachments, status, as far
\* as the one that was read had them. Attachments go by the name of an entry:
\* of several in one mirror, the first takes those of all.
Fill(p) == \E o \in job[p].open, brought \in BOOLEAN :
  LET i == o[1]
      e == o[2]
  IN
  /\ at[p] = "import"
  /\ brought \/ job[p].kind \in {"mirror", "purge"}
  /\ cipher[i] # NoEntry
  /\ cipher' = [cipher EXCEPT ![i].whole = @ \/ (e.whole /\ brought)]
  /\ Set(p, [job[p] EXCEPT !.open = @ \ {o}])
  /\ UNCHANGED <<used, items, copies, at, moveHistory, changes, faults>>

Unfilled(i) == \/ cipher[i] = NoEntry /\ UNCHANGED faults
               \/ Fault

FillFails(p) == \E o \in job[p].open :
  /\ at[p] = "import"
  /\ Unfilled(o[1])
  /\ IF job[p].kind = "personal" THEN Stop(p)
     ELSE /\ Set(p, [job[p] EXCEPT !.open = @ \ {o}, !.failed = TRUE])
          /\ UNCHANGED at
  /\ UNCHANGED <<cipher, used, items, copies, moveHistory, changes>>

\* Only attachments cannot be uploaded, which does not fail the entry.
AttachFails(p) == \E o \in job[p].open :
  /\ at[p] = "import" /\ job[p].kind # "personal"
  /\ Unfilled(o[1])
  /\ Set(p, [job[p] EXCEPT !.open = @ \ {o}])
  /\ partial' = TRUE
  /\ UNCHANGED <<cipher, used, items, copies, at, gone, mistaken, overtaken,
                 changes>>

\* All is done. An import with a failed entry is an error; a mirror ends here.
Imported_Counts(p) ==
  /\ at[p] = "import"
  /\ Settled(job[p]) /\ job[p].bulk \union job[p].sent = {}
  /\ IF job[p].kind \in {"mirror", "purge"} THEN Stop(p)
     ELSE /\ Proceeds(p, IF job[p].kind = "personal" THEN "remove" ELSE "check")
          /\ UNCHANGED job
  /\ UNCHANGED <<cipher, used, items, copies, moveHistory, changes, faults>>

Imported(p) ==
  /\ at[p] = "import"
  /\ Settled(job[p]) /\ job[p].bulk \union job[p].sent = {}
  /\ IF job[p].failed \/ job[p].kind \in {"mirror", "purge"} THEN Stop(p)
     ELSE /\ Proceeds(p, IF job[p].kind = "personal" THEN "remove" ELSE "check")
          /\ UNCHANGED job
  /\ UNCHANGED <<cipher, used, items, copies, moveHistory, changes, faults>>
-----------------------------------------------------------------------------
(* The original.                                                           *)

\* After a sync the destination has an entry of the name it had not before.
Gained(p) == Present(Held(job[p].to)) \ job[p].before
Mistakes(p) == Gained(p) # {} /\ Gained(p) \cap job[p].mine = {}

Check_AnyEntry(p) ==
  /\ at[p] = "check"
  /\ Refetched(job[p].to)
  /\ mistaken' = (mistaken \/ Mistakes(p))
  /\ IF Present(Held(job[p].to)) # {} /\ job[p].kind # "keep"
     THEN Proceeds(p, "remove") /\ UNCHANGED job
     ELSE Stop(p)
  /\ UNCHANGED <<cipher, used, items, gone, overtaken, partial, changes,
                 faults>>

Check(p) ==
  /\ at[p] = "check"
  /\ Refetched(job[p].to)
  /\ mistaken' = (mistaken \/ Mistakes(p))
  /\ IF Gained(p) # {} /\ job[p].kind # "keep"
     THEN Proceeds(p, "remove") /\ UNCHANGED job
     ELSE Stop(p)
  /\ UNCHANGED <<cipher, used, items, gone, overtaken, partial, changes,
                 faults>>

\* The original goes to the trash, or is deleted for good; its account is
\* synced.
Remove(p) ==
  LET i == job[p].orig
      a == job[p].from
  IN /\ at[p] = "remove"
     /\ cipher[i] # NoEntry
     /\ overtaken' = (overtaken \/ \A e \in job[p].what :
                        e.item # cipher[i].item \/ (cipher[i].whole /\ ~e.whole))
     /\ cipher' = [cipher EXCEPT ![i] =
          IF job[p].kind = "trash" THEN [@ EXCEPT !.bin = TRUE] ELSE NoEntry]
     /\ copies' = [copies EXCEPT ![a] = HeldOf(cipher', a)]
     /\ Stop(p)
     /\ UNCHANGED <<used, items, gone, mistaken, partial, changes,
                    faults>>

\* The entry is no longer there.
RemoveFails(p) ==
  /\ at[p] = "remove"
  /\ cipher[job[p].orig] = NoEntry
  /\ Stop(p)
  /\ UNCHANGED <<cipher, used, items, copies, moveHistory, changes, faults>>

\* A call that ends the command fails, or the command is killed.
Dies(p) ==
  /\ at[p] # "idle"
  /\ Fault
  /\ Stop(p)
  /\ UNCHANGED <<cipher, used, items, copies, moveHistory, changes>>

Begin(p) == Mirror(p) \/ \E i \in Ids : Move(p, i) \/ Personal(p, i)
Import(p) ==
  \/ Snapshot(p) \/ Purge(p) \/ Index(p)
  \/ BulkOne(p) \/ BulkDone(p) \/ BulkFails(p)
  \/ AddOne(p) \/ AddFails(p) \/ Fill(p) \/ FillFails(p) \/ AttachFails(p)
  \/ Imported(p)
Dispose(p) == Check(p) \/ Remove(p) \/ RemoveFails(p)

MoveNext ==
  \/ \E p \in Clis : Begin(p) \/ Import(p) \/ Dispose(p) \/ Dies(p)
  \/ \E a \in Vaults : SyncVault(a) \/ \E u \in Users : Create(a, u)
  \/ \E i \in Ids : Edit(i)

MoveSpec == MoveInit /\ [][MoveNext]_moveVars
-----------------------------------------------------------------------------
(* Whatever fails or is killed, and however commands meet, a content is in *)
(* some entry until its user gives it up: an original is removed only when *)
(* there is a copy. Two things excuse it, and no other: the copy that was  *)
(* found was not the command's, or the original had been changed since it  *)
(* was read, on another device or by the command that was still making it  *)
(* (collection_cmds.rs:357-400, 899-906).                                  *)
NothingLost ==
  mistaken \/ overtaken \/
    \A c \in 1..items \ gone : \E i \in Ids :
       cipher[i] # NoEntry /\ cipher[i].item = c

(* Unless an upload of attachments failed, each content is in an entry     *)
(* that has all its fields, history and attachments, whatever the server   *)
(* dropped of a bulk request, whether an answer was lost, and wherever a   *)
(* command failed or was killed (import_cmds.rs:591-597, 1477-1482).       *)
CopiesAreWhole ==
  mistaken \/ overtaken \/ partial \/
    \A c \in 1..items \ gone : \E i \in Ids :
       cipher[i] # NoEntry /\ cipher[i].item = c /\ cipher[i].whole

(* What docs/usage.md:251-258 says of `rbw move`: it recreates the entry,  *)
(* attachments included, and deletes nothing unless the copy was made. An  *)
(* upload that fails is only counted (import_cmds.rs:114-122).             *)
MovesBringAttachments ==
  mistaken \/ overtaken \/
    \A c \in 1..items \ gone : \E i \in Ids :
       cipher[i] # NoEntry /\ cipher[i].item = c /\ cipher[i].whole

(* The comment at `rbw move`: a skipped copy must never cost the original; *)
(* it is only trashed once the destination verifiably gained a new entry   *)
(* (collection_cmds.rs:227-231).                                           *)
SkippedCopyCostsNothing ==
  \A p \in Clis : at[p] = "remove" => job[p].mine # {}
=============================================================================
