-------------------------------- MODULE Tui --------------------------------
(* The terminal interface (`rbw tui`): one thread that keeps a decrypted   *)
(* copy of every loaded account, a cursor, a cache of decrypted entries    *)
(* and one mode, and that polls a worker loading the other accounts and    *)
(* the agent, which any other process may lock or unlock meanwhile.        *)
(* Source: src/src/bin/rbw/tui/app.rs, tui/mod.rs, commands/tui_bridge.rs. *)
EXTENDS Naturals, FiniteSets

CONSTANTS
    Accounts,       \* the configured accounts
    Target,         \* the account the interface is opened on
    Keys,           \* <<account, number>>: the entries there may be, in the order of the server's list
    First,          \* the entries there are at first
    Broken,         \* the entries whose name, folder or fields do not decrypt
    Proactive,      \* the accounts the worker unlocks by itself (`unlock: always`, or --all)
    MaxRev,         \* bound: revisions of an entry
    MaxOthers,      \* bound: steps of others and failed calls
    Nothing

ASSUME TuiAssumption ==
    /\ Target \in Accounts /\ Proactive \subseteq Accounts
    /\ Keys \subseteq Accounts \X Nat /\ First \subseteq Keys /\ Broken \subseteq Keys
    /\ MaxRev \in Nat \ {0} /\ MaxOthers \in Nat
    /\ Nothing \notin Accounts \cup Keys
\* A vault holds finitely many entries.
ASSUME KeysAssumption == IsFiniteSet(Keys)

VARIABLES
    unlocked,       \* the accounts the agent has keys of
    remote,         \* the server's revision of each entry: 0 not made yet, Trash in the trash
    db,             \* the local databases, as of their last sync
    vault,          \* App::vaults: the loaded copy of an account, or Nothing
    cache,          \* App::detail_cache: row -> the entry it holds and its revision, or Nothing
    cursor,         \* the row under the cursor, or Nothing
    mode,           \* App::mode
    editor,         \* the entry open in $EDITOR with the revision shown there, or Nothing
    todo,           \* the accounts the worker has not loaded yet
    inbox,          \* what the worker has sent and the loop has not taken
    replaced,       \* history: accounts whose loaded copy a late message of the worker replaced
    opened,         \* history: accounts that others unlocked while a lock prompt was up
    left            \* what is left of MaxOthers

tuiVars == <<unlocked, remote, db, vault, cache, cursor, mode, editor, todo, inbox,
            replaced, opened, left>>

Trash == MaxRev + 1
IdsOf(a) == {k[2] : k \in {x \in Keys : x[1] = a}}

(***************************************************************************)
(* Modes.  `of` is the entry a form, a prompt or the attachment list       *)
(* belongs to (for ConfirmDelete, which keeps no entry in the code, the    *)
(* row the question was asked about); `rev` the revision a form was filled *)
(* from, or 1 when a deletion of an attachment is armed; `seen` the        *)
(* accounts the panel shows as unlocked.                                   *)
(***************************************************************************)
Mode(kind, acct, of, rev, seen) ==
    [kind |-> kind, acct |-> acct, of |-> of, rev |-> rev, seen |-> seen]
List         == Mode("List", Nothing, Nothing, 0, {})
Panel(u)     == Mode("Accounts", Nothing, Nothing, 0, u)
Prompt(kind, a) == Mode(kind, a, Nothing, 0, {})

Gates == {"Locked", "Screen"}

(***************************************************************************)
(* The merged list.                                                        *)
(***************************************************************************)

\* tui_reload: the database and the index of what decrypts; with the account
\* locked in the agent nothing does.
Copy(a, d, u) ==
    [entries |-> [i \in IdsOf(a) |-> d[<<a, i>>]],
     rows    |-> {i \in IdsOf(a) : a \in u /\ d[<<a, i>>] # 0 /\ <<a, i>> \notin Broken}]

\* The rows of the list: the trash is hidden.
Rows(V) ==
    {k \in Keys : /\ V[k[1]] # Nothing
                  /\ k[2] \in V[k[1]].rows
                  /\ V[k[1]].entries[k[2]] # Trash}

\* current_entry: the row's position in the index, looked up in db.entries.
Below(S, i) == Cardinality({x \in S : x < i})
EntryAt(V, k) ==
    LET v  == V[k[1]]
        es == {i \in DOMAIN v.entries : v.entries[i] # 0}
    IN  <<k[1], CHOOSE i \in es : Below(es, i) = Below(v.rows, k[2])>>
RevAt(V, k) == V[k[1]].entries[k[2]]

\* ensure_detail: decrypts the entry under the cursor unless it is cached.
Ensured(V, c, s, u) ==
    IF s = Nothing \/ c[s] # Nothing \/ s[1] \notin u \/ EntryAt(V, s) \in Broken
    THEN c
    ELSE [c EXCEPT ![s] = <<EntryAt(V, s), RevAt(V, EntryAt(V, s))>>]

NoDetails == [k \in Keys |-> Nothing]
Without(c, a) == [k \in Keys |-> IF k[1] = a THEN Nothing ELSE c[k]]

\* rebuild_flat, recompute_filter, restore_selection, ensure_detail.  A row
\* that has gone leaves the cursor at its position, so on any other row.
Kept_Slip(keep, V) == Rows(V) \cup {Nothing}     \* a copy that arrives moves the cursor
Kept(keep, V) == IF keep \in Rows(V) THEN {keep} ELSE Rows(V) \cup {Nothing}
Show(V, c, positions, u) ==
    /\ vault' = V
    /\ \E s \in positions :
         /\ cursor' = s
         /\ cache' = Ensured(V, c, s, u)

Loaded == {a \in Accounts : vault[a] # Nothing}
\* The account a lock is about: the cursor's, else the first loaded one.
CurrentAccount == IF cursor # Nothing THEN cursor[1] ELSE Target

\* refresh_accounts_view.
Refreshed(m, u) == IF m.kind = "Accounts" THEN Panel(u) ELSE m

AsSynced(d, a) == [k \in Keys |-> IF k[1] = a THEN remote'[k] ELSE d[k]]

Spend == left > 0 /\ left' = left - 1
Outside == UNCHANGED <<todo, inbox, replaced, opened>>
Opens(u) == opened' = IF mode.kind \in Gates THEN opened \cup (u \ unlocked) ELSE opened
Idle == editor = Nothing
At(kind) == Idle /\ mode.kind = kind

-----------------------------------------------------------------------------
(***************************************************************************)
(* Selecting and loading.                                                  *)
(***************************************************************************)

\* Moving the cursor, clicking a row, or changing the filter.
MoveCursor ==
    /\ At("List")
    /\ Show(vault, cache, Rows(vault) \cup {Nothing}, unlocked)
    /\ UNCHANGED <<unlocked, remote, db, mode, editor, left>> /\ Outside

\* Ctrl-S: every loaded account in turn; one may fail, or turn out logged out.
SyncAll ==
    /\ At("List")
    /\ \E failed \in SUBSET Loaded, expired \in BOOLEAN :
         /\ IF failed = {} THEN ~expired /\ UNCHANGED left ELSE Spend
         /\ UNCHANGED remote
         /\ db' = [k \in Keys |-> IF k[1] \in Loaded \ failed THEN remote[k] ELSE db[k]]
         /\ Show([a \in Accounts |-> IF a \in Loaded \ failed THEN Copy(a, db', unlocked)
                                                              ELSE vault[a]],
                 NoDetails,
                 Kept(cursor, [a \in Accounts |-> IF a \in Loaded \ failed
                                                  THEN Copy(a, db', unlocked) ELSE vault[a]]),
                 unlocked)
         /\ \/ ~expired /\ UNCHANGED mode
            \/ expired /\ \E a \in failed : mode' = Prompt("Expired", a)
    /\ UNCHANGED <<unlocked, editor>> /\ Outside

\* App::unlock_account, after the agent has asked for what it needs: the
\* account's copy is pushed or replaced.
UnlockAccount(a, m) ==
    /\ unlocked' = unlocked \cup {a}
    /\ LET V == [vault EXCEPT ![a] = Copy(a, db, unlocked')]
       IN  Show(V, Without(cache, a), Kept(cursor, V), unlocked')
    /\ mode' = IF m.kind \in Gates /\ m.acct = a THEN List ELSE Refreshed(m, unlocked')
    /\ UNCHANGED <<remote, db, editor, left>> /\ Outside

\* App::sync_account: drops every detail and leaves the cursor at its position.
SyncAccount(a) ==
    /\ UNCHANGED remote
    /\ db' = AsSynced(db, a)
    /\ LET V == [vault EXCEPT ![a] = Copy(a, db', unlocked)]
       IN  Show(V, NoDetails, Rows(V) \cup {Nothing}, unlocked)
    /\ mode' = Refreshed(mode, unlocked)
    /\ UNCHANGED <<unlocked, editor, left>> /\ Outside

(***************************************************************************)
(* Changing entries.  A write goes to the server, the agent syncs, and the *)
(* account is reloaded; when the sync fails the write stays unnoticed.     *)
(***************************************************************************)

\* The server's side of a write (external): what it makes of the entry.
ServerWrites(k, rev) == remote' = [remote EXCEPT ![k] = rev]

\* Keeps the details of the account that is reloaded.
Reloaded_Slip(a) ==
    /\ db' = AsSynced(db, a)
    /\ LET V == [vault EXCEPT ![a] = Copy(a, db', unlocked)]
       IN  Show(V, cache, Kept(cursor, V), unlocked)
    /\ UNCHANGED <<unlocked, left>> /\ Outside

\* The sync of a write, and reload_vault.
Reloaded(a) ==
    /\ db' = AsSynced(db, a)
    /\ LET V == [vault EXCEPT ![a] = Copy(a, db', unlocked)]
       IN  Show(V, Without(cache, a), Kept(cursor, V), unlocked)
    /\ UNCHANGED <<unlocked, left>> /\ Outside

Reload(a, after) == Reloaded(a) /\ mode' = after /\ UNCHANGED editor

\* after_server_write: the sync fails; what the caller does then is `after`.
Unsynced(after) ==
    /\ Spend
    /\ mode' = after
    /\ UNCHANGED <<unlocked, db, vault, cache, cursor, editor>> /\ Outside

\* The server takes a full replacement only from who knows its revision.
ServerAccepts(k) == RevAt(vault, k) = remote[k] /\ remote[k] < MaxRev /\ remote[k] # 0
Bump(k) == remote[k] \in 1 .. MaxRev - 1 /\ ServerWrites(k, remote[k] + 1)

\* tui_save_edit and tui_save_add encrypt, so the account has to be unlocked; so
\* does tui_attachment_create.  The other writes only name the entry.
SaveEdit(k)         == k[1] \in unlocked /\ ServerAccepts(k) /\ Bump(k)
SaveAdd(a)          == a \in unlocked /\ \E k \in Keys : k[1] = a /\ remote[k] = 0 /\ ServerWrites(k, 1)
Delete(k)           == remote[k] # 0 /\ ServerWrites(k, Trash)
Archive(k)          == Bump(k)
AttachmentCreate(k) == k[1] \in unlocked /\ Bump(k)
AttachmentDelete(k) == Bump(k)

StartEdit ==
    /\ At("List") /\ cursor # Nothing /\ cache[cursor] # Nothing
    /\ mode' = Mode("Edit", cursor[1], cache[cursor][1], cache[cursor][2], {})
    /\ UNCHANGED <<unlocked, remote, db, vault, cache, cursor, editor, left>> /\ Outside

StartAdd ==
    /\ At("List") /\ Loaded # {}
    /\ mode' = Mode("Edit", CurrentAccount, Nothing, 0, {})
    /\ UNCHANGED <<unlocked, remote, db, vault, cache, cursor, editor, left>> /\ Outside

\* submit_form: a form whose write or sync fails stays open.
SubmitEdit ==
    /\ At("Edit") /\ mode.of # Nothing
    /\ SaveEdit(mode.of)
    /\ Reload(mode.acct, List) \/ Unsynced(mode)

SubmitAdd ==
    /\ At("Edit") /\ mode.of = Nothing
    /\ SaveAdd(mode.acct)
    /\ Reload(mode.acct, List) \/ Unsynced(mode)

AskDelete ==
    /\ At("List") /\ cursor # Nothing
    /\ mode' = Mode("Confirm", cursor[1], cursor, 0, {})
    /\ UNCHANGED <<unlocked, remote, db, vault, cache, cursor, editor, left>> /\ Outside

\* confirm_delete: what the cursor is on now, by its slot.
ConfirmDelete ==
    /\ At("Confirm") /\ cursor # Nothing
    /\ Delete(EntryAt(vault, cursor))
    /\ Reload(cursor[1], List) \/ Unsynced(List)

\* toggle_archived: a new revision, whichever one this side knows.
ToggleArchived ==
    /\ At("List") /\ cursor # Nothing
    /\ Archive(EntryAt(vault, cursor))
    /\ Reload(cursor[1], List) \/ Unsynced(mode)

\* edit_in_editor, from the list or from a form over an entry: everything
\* else waits for $EDITOR.
OpenEditor ==
    /\ Idle /\ (mode.kind = "List" \/ (mode.kind = "Edit" /\ mode.of # Nothing))
    /\ cursor # Nothing
    /\ LET c == Ensured(vault, cache, cursor, unlocked)
           e == EntryAt(vault, cursor)
       IN  /\ c[e] # Nothing
           /\ cache' = c
           /\ editor' = <<e, c[e][2]>>
    /\ UNCHANGED <<unlocked, remote, db, vault, cursor, mode, left>> /\ Outside

\* The editor ends with changes that are saved, or with none.
SaveFromEditor ==
    /\ ~Idle
    /\ SaveEdit(editor[1])
    /\ editor' = Nothing
    /\ \/ Reloaded(editor[1][1]) /\ mode' = List
       \/ Spend /\ UNCHANGED <<unlocked, db, vault, cache, cursor, mode>> /\ Outside

LeaveEditor ==
    /\ ~Idle
    /\ editor' = Nothing
    /\ mode' \in {List, mode}
    /\ UNCHANGED <<unlocked, remote, db, vault, cache, cursor, left>> /\ Outside

(***************************************************************************)
(* Attachments, of the entry under the cursor when the list was opened.    *)
(***************************************************************************)

OpenAttachments ==
    /\ At("List") /\ cursor # Nothing
    /\ cache' = Ensured(vault, cache, cursor, unlocked)
    /\ cache'[cursor] # Nothing
    /\ mode' = Mode("Attachments", cursor[1], cache'[cursor][1], 0, {})
    /\ UNCHANGED <<unlocked, remote, db, vault, cursor, editor, left>> /\ Outside

\* attachment_delete_pressed, first press.
ArmAttachment ==
    /\ At("Attachments") /\ mode.rev = 0
    /\ mode' = [mode EXCEPT !.rev = 1]
    /\ UNCHANGED <<unlocked, remote, db, vault, cache, cursor, editor, left>> /\ Outside

\* Second press: the entry the cursor is on now has to have the attachment; the
\* list opens again on what the cursor is on then.
DeleteAttachment ==
    /\ At("Attachments") /\ mode.rev = 1 /\ cursor # Nothing
    /\ EntryAt(vault, cursor) = mode.of
    /\ AttachmentDelete(mode.of)
    /\ \/ /\ Reloaded(cursor[1])
          /\ mode' = IF cursor' = Nothing \/ cache'[cursor'] = Nothing THEN mode
                     ELSE Mode("Attachments", cursor'[1], cache'[cursor'][1], 0, {})
          /\ UNCHANGED editor
       \/ Unsynced(mode)

StartUpload ==
    /\ At("Attachments") /\ cursor # Nothing
    /\ mode' = Mode("Upload", cursor[1], EntryAt(vault, cursor), 0, {})
    /\ UNCHANGED <<unlocked, remote, db, vault, cache, cursor, editor, left>> /\ Outside

\* submit_prompt: the entry is looked up by its id.
SubmitUpload ==
    /\ At("Upload")
    /\ AttachmentCreate(mode.of)
    /\ Reload(mode.acct, List) \/ Unsynced(mode)

\* Esc, Ctrl-C, n, or any other key that closes what is open.
CloseMode ==
    /\ Idle
    /\ mode.kind \in {"Edit", "Confirm", "Attachments", "Upload", "Accounts", "Locked", "Expired"}
    /\ mode' = List
    /\ UNCHANGED <<unlocked, remote, db, vault, cache, cursor, editor, left>> /\ Outside

(***************************************************************************)
(* The accounts panel.                                                     *)
(***************************************************************************)

OpenAccounts ==
    /\ At("List")
    /\ mode' = Panel(unlocked)
    /\ UNCHANGED <<unlocked, remote, db, vault, cache, cursor, editor, left>> /\ Outside

PanelUnlock ==
    /\ At("Accounts")
    /\ \E a \in Accounts \ mode.seen : UnlockAccount(a, mode)

\* An account shown as locked is unlocked first (PanelUnlock).  The session may
\* turn out to have expired.
PanelSync ==
    /\ At("Accounts")
    /\ \E a \in mode.seen :
         \/ SyncAccount(a)
         \/ UNCHANGED remote /\ Unsynced(Prompt("Expired", a))

(***************************************************************************)
(* Locks.                                                                  *)
(***************************************************************************)

\* `l`, or the timer of screen_lock_due in any mode: the cursor's account is
\* locked in the agent, and the screen with it.
LockScreen ==
    /\ Idle /\ mode.kind # "Screen"
    /\ unlocked' = unlocked \ {CurrentAccount}
    /\ cache' = NoDetails
    /\ mode' = Prompt("Screen", CurrentAccount)
    /\ UNCHANGED <<remote, db, vault, cursor, editor, left>> /\ Outside

\* Enter or `y` at a prompt.
AcceptPrompt ==
    /\ Idle /\ mode.kind \in Gates \cup {"Expired"}
    /\ UnlockAccount(mode.acct, mode)

\* Shows the prompt, and keeps what is decrypted.
PollAgentLock_Slip ==
    /\ Idle /\ mode.kind \notin Gates
    /\ CurrentAccount \notin unlocked
    /\ mode' = Prompt("Locked", CurrentAccount)
    /\ UNCHANGED <<unlocked, remote, db, vault, cache, cursor, editor, left>> /\ Outside

\* poll_agent_lock and handle_agent_locked.
PollAgentLock ==
    /\ Idle /\ mode.kind \notin Gates
    /\ CurrentAccount \notin unlocked
    /\ cache' = NoDetails
    /\ mode' = Prompt("Locked", CurrentAccount)
    /\ UNCHANGED <<unlocked, remote, db, vault, cursor, editor, left>> /\ Outside

(***************************************************************************)
(* The worker (tui_load_others) and its messages (poll_background).        *)
(***************************************************************************)

WorkerStep ==
    \E a \in todo :
      /\ todo' = todo \ {a}
      /\ unlocked' \in {unlocked, unlocked \cup (Proactive \cap {a})}
      /\ inbox' = inbox \cup
           {[acct |-> a,
             copy |-> IF a \in unlocked' THEN Copy(a, db, unlocked') ELSE Nothing]}
      /\ Opens(unlocked')
      /\ UNCHANGED <<remote, db, vault, cache, cursor, mode, editor, replaced, left>>

\* Loaded replaces the copy of an account the user has loaded meanwhile; the
\* details decrypted from the old copy stay.
TakeMessage ==
    /\ Idle
    /\ \E m \in inbox :
         /\ inbox' = inbox \ {m}
         /\ mode' = Refreshed(mode, unlocked)
         /\ \/ /\ m.copy = Nothing
               /\ UNCHANGED <<vault, cache, cursor, replaced>>
            \/ /\ m.copy # Nothing
               /\ replaced' = IF m.acct \in Loaded THEN replaced \cup {m.acct} ELSE replaced
               /\ LET V == [vault EXCEPT ![m.acct] = m.copy]
                  IN  Show(V, cache, Kept(cursor, V), unlocked)
    /\ UNCHANGED <<unlocked, remote, db, editor, todo, opened, left>>

(***************************************************************************)
(* Everybody else: `rbw lock`, lock_timeout and `rbw unlock` at the agent, *)
(* other clients at the server, the agent's background sync.               *)
(***************************************************************************)

Elsewhere ==
    /\ UNCHANGED <<vault, cache, cursor, mode, editor, todo, inbox, replaced>>
    /\ \/ /\ Spend
          /\ \E a \in Accounts : unlocked' \in {unlocked \ {a}, unlocked \cup {a}}
          /\ Opens(unlocked')
          /\ UNCHANGED <<remote, db>>
       \/ /\ Spend
          /\ \E k \in Keys :
               \/ remote[k] < MaxRev /\ ServerWrites(k, remote[k] + 1)
               \/ remote[k] \in 1 .. MaxRev /\ ServerWrites(k, Trash)
          /\ UNCHANGED <<unlocked, db, opened>>
       \/ /\ \E a \in Accounts : db' = [k \in Keys |-> IF k[1] = a THEN remote[k] ELSE db[k]]
          /\ UNCHANGED <<unlocked, remote, opened, left>>

-----------------------------------------------------------------------------

\* tui_unlock_target and tui_open_target; the merged list starts with the
\* cursor on its first row, the filter focused.
TuiInit ==
    /\ \E u \in SUBSET Accounts : unlocked = u \cup {Target}
    /\ remote = [k \in Keys |-> IF k \in First THEN 1 ELSE 0]
    /\ db = remote
    /\ vault = [a \in Accounts |-> IF a = Target THEN Copy(a, db, unlocked) ELSE Nothing]
    /\ cursor \in Rows(vault) \cup {Nothing}
    /\ cache = Ensured(vault, NoDetails, cursor, unlocked)
    /\ mode = List /\ editor = Nothing
    /\ todo = Accounts \ {Target} /\ inbox = {}
    /\ replaced = {} /\ opened = {} /\ left = MaxOthers

TuiNext ==
    \/ MoveCursor \/ SyncAll
    \/ StartEdit \/ StartAdd \/ SubmitEdit \/ SubmitAdd
    \/ AskDelete \/ ConfirmDelete \/ ToggleArchived
    \/ OpenEditor \/ SaveFromEditor \/ LeaveEditor
    \/ OpenAttachments \/ ArmAttachment \/ DeleteAttachment \/ StartUpload \/ SubmitUpload
    \/ OpenAccounts \/ PanelUnlock \/ PanelSync \/ CloseMode
    \/ LockScreen \/ AcceptPrompt \/ PollAgentLock
    \/ WorkerStep \/ TakeMessage \/ Elsewhere

TuiSpec == TuiInit /\ [][TuiNext]_tuiVars

\* The event loop calls poll_agent_lock in every turn.
TuiFairSpec == TuiSpec /\ WF_tuiVars(PollAgentLock)

-----------------------------------------------------------------------------

\* Types: every variable has the shape the code gives it.
TuiTypeOK ==
    /\ unlocked \subseteq Accounts
    /\ remote \in [Keys -> 0 .. Trash] /\ db \in [Keys -> 0 .. Trash]
    /\ cursor \in Rows(vault) \cup {Nothing}
    /\ \A k \in Keys : cache[k] = Nothing \/ cache[k] \in Keys \X (1 .. Trash)
    /\ mode.kind \in {"List", "Edit", "Confirm", "Attachments", "Upload", "Accounts",
                     "Locked", "Screen", "Expired"}
    /\ mode.acct \in Accounts \cup {Nothing} /\ mode.of \in Keys \cup {Nothing}
    /\ editor = Nothing \/ (editor[1] \in Keys /\ editor[2] \in 1 .. Trash)
    /\ todo \subseteq Accounts \ {Target} /\ replaced \subseteq Accounts
    /\ left \in 0 .. MaxOthers

\* A deletion moves to the trash the entry the question was asked about
\* (confirm_delete acts on the cursor, whatever has moved it since), unless the
\* worker has replaced that account's list in between.
DeletesWhatWasConfirmed ==
    [][\A k \in Keys :
         (/\ remote'[k] = Trash /\ remote[k] # Trash
          /\ mode.kind = "Confirm" /\ mode' # mode)
         => mode.of = k \/ mode.acct \in replaced]_tuiVars

\* A form or an editor that is saved replaces exactly the revision it was
\* filled from, so that nobody's change is lost unseen (submit_form and
\* edit_in_editor take the text from the detail cache and the revision the
\* server checks from the loaded copy), unless the worker replaced that copy.
SavesReplaceWhatWasSeen ==
    [][\A k \in Keys :
         remote'[k] = remote[k] + 1 =>
           /\ (mode.kind = "Edit" /\ mode' # mode /\ mode.of = k)
                => mode.rev = remote[k] \/ k[1] \in replaced
           /\ (editor # Nothing /\ editor' = Nothing)
                => editor = <<k, remote[k]>> \/ k[1] \in replaced]_tuiVars

\* What is decrypted of an account that has been locked in the agent leaves the
\* cache when the cursor stays on that account (poll_agent_lock), also behind
\* the lock screen, which is not polled: except that behind a prompt for another
\* account, or for one that others unlock and lock again, nobody looks.
SecretsLeave ==
    \A a \in Accounts :
        (Idle /\ a \notin unlocked /\ CurrentAccount = a
              /\ \E k \in Keys : k[1] = a /\ cache[k] # Nothing)
        ~> (~Idle \/ a \in unlocked \/ CurrentAccount # a
            \/ (mode.kind \in Gates /\ (mode.acct # a \/ a \in opened))
            \/ \A k \in Keys : k[1] = a => cache[k] = Nothing)
=============================================================================
