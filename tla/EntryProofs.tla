---------------------------- MODULE EntryProofs ----------------------------
(***************************************************************************)
(* Proofs about what happens to entries: VaultMove, Passkey and Tui, for   *)
(* any commands, vaults, devices, entries and bounds.                      *)
(***************************************************************************)
EXTENDS VaultMove, Passkey, Tui, FiniteSetTheorems, TLAPS

-----------------------------------------------------------------------------
(* Entries on their way. What a command works with at each of its steps.   *)

MoveSteps == {"idle", "snapshot", "purge", "index", "import", "check", "remove"}
Mirrors == {"mirror", "purge"}
Copies == [Ids -> Ciphers \union {NoEntry}]

Jobs(u) ==
  [kind : MoveKinds, from : Vaults \union {NoEntry},
   to : Vaults \union {NoEntry}, orig : Ids, what : SUBSET Ciphers,
   before : SUBSET Ids, base : SUBSET Ids, bulk : SUBSET Ciphers,
   sent : SUBSET Ciphers, alone : SUBSET Ciphers,
   open : SUBSET ((1..u) \X Ciphers), mine : SUBSET (1..u), failed : BOOLEAN]

\* Nothing of the import is left to do.
Done(j) == j.bulk = {} /\ j.sent = {} /\ j.alone = {} /\ j.open = {}

\* A command at the step s, when u ids are given. All but a mirror work on
\* one entry, and what they make is newer than the original.
JobInv(s, j, u) ==
  /\ j \in Jobs(u)
  /\ s = "idle" => j.kind = "keep" /\ j.what = {} /\ j.mine = {}
  /\ s # "idle" => j.from \in Vaults /\ j.to \in Vaults
  /\ j.bulk \subseteq j.what /\ j.sent \subseteq j.what
  /\ j.alone \subseteq j.what /\ \A o \in j.open : o[2] \in j.what
  /\ s \in {"snapshot", "purge", "index"} => Done(j) /\ j.mine = {}
  /\ s \in {"check", "remove"} => Done(j) /\ ~j.failed /\ j.kind \notin Mirrors
  /\ j.kind \notin Mirrors =>
       /\ \A e, f \in j.what : e = f
       /\ s # "idle" => j.orig <= u
       /\ \A m \in j.mine : j.orig < m
  /\ j.kind = "personal" =>
       /\ s \in {"import", "remove"} /\ j.bulk = {} /\ j.sent = {}
       /\ j.alone = {} => j.mine # {}

Stored ==
  /\ cipher \in Copies /\ used \in 0..MaxEntries
  /\ copies \in [Vaults -> Copies]
  /\ \A i \in Ids : i > used =>
       cipher[i] = NoEntry /\ \A a \in Vaults : copies[a][i] = NoEntry

Counted ==
  /\ items \in Nat /\ 2 <= items /\ items + changes <= 2 + MaxChanges
  /\ changes \in 0..MaxChanges /\ faults \in 0..Faults
  /\ gone \subseteq Items

Flags == mistaken \in BOOLEAN /\ overtaken \in BOOLEAN /\ partial \in BOOLEAN

Working ==
  /\ at \in [Clis -> MoveSteps]
  /\ job \in [Clis -> Jobs(used)]
  /\ \A p \in Clis : JobInv(at[p], job[p], used)

MoveInv == Stored /\ Counted /\ Flags /\ Working

LEMMA HeldTyped ==
  ASSUME NEW c \in Copies, NEW a
  PROVE  /\ HeldOf(c, a) \in Copies
         /\ \A i \in Ids : HeldOf(c, a)[i] \in {NoEntry, c[i]}
  BY DEF HeldOf, Copies

LEMMA JobGrows ==
  ASSUME NEW s, NEW j, NEW u \in Nat, NEW v \in Nat, u <= v, JobInv(s, j, u)
  PROVE  JobInv(s, j, v)
  <1>1. 1..u \subseteq 1..v /\ (1..u) \X Ciphers \subseteq (1..v) \X Ciphers
    OBVIOUS
  <1>2. j \in Jobs(v)
    BY <1>1 DEF JobInv, Jobs
  <1>. QED BY <1>2 DEF JobInv, Jobs, Done, Ids

\* One command moves on, the others stay where they are.
LEMMA JobsMoveOn ==
  ASSUME Stored, Stored', Working, NEW p \in Clis, NEW s \in MoveSteps, NEW j,
         JobInv(s, j, used'), used <= used',
         at' = [at EXCEPT ![p] = s], job' = [job EXCEPT ![p] = j]
  PROVE  Working'
  <1>1. used \in Nat /\ used' \in Nat
    BY BoundAssumption DEF Stored
  <1>2. ASSUME NEW q \in Clis PROVE JobInv(at'[q], job'[q], used')
    BY <1>1, JobGrows DEF Working
  <1>3. \A q \in Clis : job'[q] \in Jobs(used')
    BY <1>2 DEF JobInv
  <1>. QED BY <1>2, <1>3 DEF Working

\* No command moves on.
LEMMA JobsStay ==
  ASSUME Stored, Stored', Working, used <= used', UNCHANGED <<at, job>>
  PROVE  Working'
  <1>1. used \in Nat /\ used' \in Nat
    BY BoundAssumption DEF Stored
  <1>2. ASSUME NEW q \in Clis PROVE JobInv(at'[q], job'[q], used')
    BY <1>1, JobGrows DEF Working
  <1>3. \A q \in Clis : job'[q] \in Jobs(used')
    BY <1>2 DEF JobInv
  <1>. QED BY <1>2, <1>3 DEF Working

LEMMA NoJobInv ==
  ASSUME NEW u \in Nat, NEW a \in Vaults \union {NoEntry}
  PROVE  /\ NoJob(a) \in Jobs(u)
         /\ JobInv("idle", NoJob(NoEntry), u)
  BY BoundAssumption DEF NoJob, Jobs, JobInv, Done, Ids, MoveKinds, Mirrors

LEMMA MoveInvInit == MoveInit => MoveInv
  <1>. SUFFICES ASSUME MoveInit PROVE MoveInv
    OBVIOUS
  <1>1. cipher \in Copies /\ used = 2
        /\ \A i \in Ids : i > used => cipher[i] = NoEntry
    BY BoundAssumption DEF MoveInit, Copies, Ciphers, Items, Ids
  <1>2. Stored
    <2>1. copies = [a \in Vaults |-> HeldOf(cipher, a)]
      BY DEF MoveInit, Held
    <2>2. used \in 0..MaxEntries
      BY <1>1, BoundAssumption
    <2>. QED BY <1>1, <2>1, <2>2, HeldTyped DEF Stored
  <1>3. Counted
    <2>1. /\ items = 2 /\ changes = MaxChanges /\ faults = Faults /\ gone = {}
          /\ mistaken = FALSE /\ overtaken = FALSE /\ partial = FALSE
      BY DEF MoveInit
    <2>2. /\ items \in Nat /\ 2 <= items /\ items + changes <= 2 + MaxChanges
          /\ changes \in 0..MaxChanges /\ faults \in 0..Faults
      BY <2>1, BoundAssumption
    <2>3. gone \subseteq Items
      BY <2>1
    <2>. QED BY <2>2, <2>3 DEF Counted
  <1>4. Flags
    BY DEF MoveInit, Flags
  <1>5. Working
    <2>1. /\ at = [p \in Clis |-> "idle"] /\ job = [p \in Clis |-> NoJob(NoEntry)]
      BY DEF MoveInit
    <2>2. NoJob(NoEntry) \in Jobs(used) /\ JobInv("idle", NoJob(NoEntry), used)
      BY <1>1, NoJobInv
    <2>. QED BY <2>1, <2>2 DEF Working, MoveSteps
  <1>. QED BY <1>2, <1>3, <1>4, <1>5 DEF MoveInv

LEMMA CountedKept ==
  ASSUME Counted, UNCHANGED <<items, gone>>, faults' = faults \/ Fault,
         changes' = changes \/ (changes > 0 /\ changes' = changes - 1)
  PROVE  Counted'
  BY BoundAssumption DEF Counted, Fault

\* An entry gets the next id.
LEMMA EntryAdded ==
  ASSUME Stored, used < MaxEntries, used' = used + 1, NEW c \in Ciphers,
         cipher' = [cipher EXCEPT ![used + 1] = c], copies' = copies
  PROVE  Stored' /\ used \in Nat /\ used + 1 \in Ids
  <1>1. used \in Nat /\ used + 1 \in Ids
    BY BoundAssumption DEF Stored, Ids
  <1>. QED BY <1>1, BoundAssumption DEF Stored, Copies, Ids

\* What is known of a command that is at work.
LEMMA AtWork ==
  ASSUME MoveInv, NEW p \in Clis
  PROVE  /\ used \in Nat /\ used <= used /\ at[p] \in MoveSteps
         /\ job[p] \in Jobs(used) /\ JobInv(at[p], job[p], used)
         /\ cipher \in Copies /\ copies \in [Vaults -> Copies]
  BY BoundAssumption DEF MoveInv, Stored, Working

LEMMA JobStops ==
  ASSUME Stored, Stored', Working, NEW p \in Clis, Stop(p), used <= used'
  PROVE  Working'
  <1>1. used' \in Nat
    BY BoundAssumption DEF Stored
  <1>2. JobInv("idle", NoJob(NoEntry), used') /\ "idle" \in MoveSteps
    BY <1>1, NoJobInv DEF MoveSteps
  <1>. QED BY <1>2, JobsMoveOn DEF Stop, Proceeds, Set

\* The vaults change by themselves: a sync, and other devices.
LEMMA MoveInvOthers ==
  ASSUME MoveInv,
         \/ \E a \in Vaults : SyncVault(a) \/ \E u \in Users : Create(a, u)
         \/ \E i \in Ids : Edit(i)
  PROVE  MoveInv'
  <1>1. ASSUME NEW a \in Vaults, SyncVault(a) PROVE MoveInv'
    <2>1. Stored'
      BY <1>1, HeldTyped DEF MoveInv, Stored, SyncVault, Refetched, Held, Copies
    <2>2. Counted' /\ Flags'
      BY <1>1, CountedKept DEF MoveInv, Flags, SyncVault, moveHistory
    <2>3. Working'
      BY <1>1, <2>1, JobsStay, BoundAssumption DEF MoveInv, Stored, SyncVault
    <2>. QED BY <2>1, <2>2, <2>3 DEF MoveInv
  <1>2. ASSUME NEW a \in Vaults, NEW u \in Users, Create(a, u) PROVE MoveInv'
    <2>. DEFINE c == [acct |-> a, user |-> u, item |-> items + 1,
                      whole |-> TRUE, org |-> FALSE, bin |-> FALSE]
    <2>1. items + 1 \in Items /\ used + 1 \in Ids /\ used \in Nat
      BY <1>2, BoundAssumption DEF MoveInv, Stored, Counted, Create, Items, Ids
    <2>2. c \in Ciphers
      BY <2>1 DEF Ciphers
    <2>3. cipher' = [cipher EXCEPT ![used + 1] = c] /\ used' = used + 1
          /\ copies' = copies
      BY <1>2 DEF Create
    <2>4. Stored'
      BY <1>2, <2>2, <2>3, EntryAdded DEF MoveInv, Create
    <2>5. Counted'
      BY <1>2, <2>1, BoundAssumption DEF MoveInv, Counted, Create, moveHistory
    <2>6. Flags'
      BY <1>2 DEF MoveInv, Flags, Create, moveHistory
    <2>7. Working'
      BY <1>2, <2>1, <2>3, <2>4, JobsStay DEF MoveInv, Create
    <2>. QED BY <2>4, <2>5, <2>6, <2>7 DEF MoveInv
  <1>3. ASSUME NEW i \in Ids, Edit(i) PROVE MoveInv'
    <2>. DEFINE c == [cipher[i] EXCEPT !.item = items + 1, !.whole = TRUE]
    <2>0. /\ changes > 0 /\ changes' = changes - 1 /\ items' = items + 1
          /\ gone' = gone \union {cipher[i].item} /\ faults' = faults
          /\ UNCHANGED <<used, copies, at, job>>
      BY <1>3 DEF Edit
    <2>1. items + 1 \in Items /\ items \in Nat
      BY <2>0, BoundAssumption DEF MoveInv, Counted, Items
    <2>2. cipher[i] \in Ciphers
      BY <1>3 DEF MoveInv, Stored, Copies, Edit
    <2>3. c \in Ciphers
      BY <2>1, <2>2 DEF Ciphers
    <2>4. cipher' = [cipher EXCEPT ![i] = c] /\ UNCHANGED <<used, copies>>
      BY <1>3 DEF Edit
    <2>5. Stored'
      <3>1. cipher' \in Copies /\ \A n \in Ids : cipher[n] = NoEntry => cipher'[n] = NoEntry
        BY <1>3, <2>3, <2>4, ZenonT(40) DEF MoveInv, Stored, Copies, Edit
      <3>. QED BY <2>4, <3>1 DEF MoveInv, Stored
    <2>6. cipher[i].item \in Items
      BY <2>2 DEF Ciphers
    <2>7. Counted'
      BY <2>0, <2>1, <2>6, BoundAssumption DEF MoveInv, Counted
    <2>8. Flags'
      BY <1>3 DEF MoveInv, Flags, Edit
    <2>9. Working'
      BY <2>0, <2>5, JobsStay, BoundAssumption DEF MoveInv, Stored
    <2>. QED BY <2>5, <2>7, <2>8, <2>9 DEF MoveInv
  <1>. QED BY <1>1, <1>2, <1>3

\* A command begins.
LEMMA MoveInvBegin ==
  ASSUME MoveInv, NEW p \in Clis, Begin(p)
  PROVE  MoveInv'
  <1>0. used \in Nat /\ used' = used /\ used <= used'
    <2>1. used' = used
      BY ZenonT(40) DEF Begin, Mirror, Move, Personal
    <2>. QED BY <2>1, BoundAssumption DEF MoveInv, Stored
  <1>1. Stored' /\ Counted' /\ Flags'
    BY CountedKept, ZenonT(40)
    DEF MoveInv, Stored, Flags, Begin, Mirror, Move, Personal, moveHistory
  <1>2. ASSUME NEW a \in Vaults, NEW i \in Live(a)
        PROVE  i \in Ids /\ i <= used /\ copies[a][i] \in Ciphers
    <2>1. i \in Ids /\ copies[a][i] # NoEntry
      BY DEF Live, Present
    <2>2. copies[a] \in Copies /\ (i > used => copies[a][i] = NoEntry)
      BY <2>1 DEF MoveInv, Stored
    <2>. QED BY <1>0, <2>1, <2>2, BoundAssumption DEF Copies, Ids
  <1>3. ASSUME NEW i \in Ids, Move(p, i) PROVE Working'
    <2>1. PICK k \in Moves, a \in Vaults, b \in Vaults :
            /\ i \in Live(a)
            /\ Set(p, [NoJob(a) EXCEPT !.kind = k, !.to = b, !.orig = i,
                                       !.what = {copies[a][i]}])
            /\ Proceeds(p, "snapshot")
      BY <1>3 DEF Move
    <2>. DEFINE j == [NoJob(a) EXCEPT !.kind = k, !.to = b, !.orig = i,
                                     !.what = {copies[a][i]}]
    <2>2. j \in Jobs(used) /\ k \notin Mirrors /\ k # "personal"
      BY <1>0, <1>2, <2>1 DEF NoJob, Jobs, Moves, MoveKinds, Mirrors
    <2>4. /\ j.kind = k /\ j.from = a /\ j.to = b /\ j.orig = i
          /\ j.what = {copies[a][i]} /\ j.mine = {} /\ Done(j)
      BY DEF NoJob, Done
    <2>. HIDE DEF j
    <2>5. JobInv("snapshot", j, used')
      BY <1>0, <1>2, <2>1, <2>2, <2>4 DEF JobInv, Done
    <2>. QED BY <1>0, <1>1, <2>1, <2>5, JobsMoveOn
             DEF MoveInv, MoveSteps, Set, Proceeds, j
  <1>4. ASSUME Mirror(p) PROVE Working'
    <2>1. PICK k \in {"mirror", "purge"}, a \in Vaults, b \in Vaults :
            /\ Set(p, [NoJob(a) EXCEPT !.kind = k, !.to = b,
                                       !.what = {copies[a][i] : i \in Live(a)}])
            /\ Proceeds(p, IF k = "purge" THEN "purge" ELSE "index")
      BY <1>4 DEF Mirror
    <2>. DEFINE w == {copies[a][i] : i \in Live(a)}
                j == [NoJob(a) EXCEPT !.kind = k, !.to = b, !.what = w]
                s == IF k = "purge" THEN "purge" ELSE "index"
    <2>2. w \subseteq Ciphers
      BY <1>2
    <2>. HIDE DEF w
    <2>6. 1 \in Ids
      BY BoundAssumption DEF Ids
    <2>3. j \in Jobs(used) /\ k \in Mirrors
      BY <1>0, <2>1, <2>2, <2>6 DEF NoJob, Jobs, MoveKinds, Mirrors
    <2>7. /\ j.kind = k /\ j.from = a /\ j.to = b /\ j.what = w
          /\ j.mine = {} /\ Done(j)
      BY DEF NoJob, Done
    <2>. HIDE DEF j
    <2>4. s \in {"purge", "index"} /\ s \in MoveSteps
      BY DEF MoveSteps
    <2>5. JobInv(s, j, used')
      BY <1>0, <2>1, <2>3, <2>4, <2>7 DEF JobInv, Done, Mirrors
    <2>. QED BY <1>0, <1>1, <2>1, <2>4, <2>5, JobsMoveOn
             DEF MoveInv, Set, Proceeds, w, j
  <1>5. ASSUME NEW i \in Ids, Personal(p, i) PROVE Working'
    <2>1. PICK a \in Vaults :
            /\ i \in Live(a)
            /\ Set(p, [NoJob(a) EXCEPT !.kind = "personal", !.orig = i,
                          !.what = {copies[a][i]}, !.alone = {copies[a][i]}])
            /\ Proceeds(p, "import")
      BY <1>5 DEF Personal
    <2>. DEFINE j == [NoJob(a) EXCEPT !.kind = "personal", !.orig = i,
                        !.what = {copies[a][i]}, !.alone = {copies[a][i]}]
    <2>2. j \in Jobs(used)
      BY <1>0, <1>2, <2>1 DEF NoJob, Jobs, MoveKinds
    <2>4. /\ j.kind = "personal" /\ j.from = a /\ j.to = a /\ j.orig = i
          /\ j.what = {copies[a][i]} /\ j.alone = {copies[a][i]}
          /\ j.bulk = {} /\ j.sent = {} /\ j.open = {} /\ j.mine = {}
      BY DEF NoJob
    <2>. HIDE DEF j
    <2>5. JobInv("import", j, used')
      BY <1>0, <1>2, <2>1, <2>2, <2>4 DEF JobInv, Mirrors
    <2>. QED BY <1>0, <1>1, <2>1, <2>5, JobsMoveOn
             DEF MoveInv, MoveSteps, Set, Proceeds, j
  <1>. QED BY <1>1, <1>3, <1>4, <1>5 DEF MoveInv, Begin

\* The steps before the import.
LEMMA MoveInvPrepare ==
  ASSUME MoveInv, NEW p \in Clis, Snapshot(p) \/ Purge(p) \/ Index(p)
  PROVE  MoveInv'
  <1>0. /\ used \in Nat /\ used' = used /\ used <= used'
        /\ job[p] \in Jobs(used) /\ JobInv(at[p], job[p], used)
        /\ cipher \in Copies /\ copies \in [Vaults -> Copies]
    <2>1. used' = used
      BY DEF Snapshot, Purge, Index
    <2>. QED BY <2>1, AtWork, SMTT(40)
  <1>1. ASSUME Snapshot(p) PROVE MoveInv'
    <2>. DEFINE j == [job[p] EXCEPT !.before = Present(copies[job[p].to])]
    <2>1. at[p] = "snapshot" /\ Set(p, j) /\ Proceeds(p, "index")
      BY <1>1 DEF Snapshot
    <2>2. Stored' /\ Counted' /\ Flags'
      BY <1>1, CountedKept DEF MoveInv, Stored, Flags, Snapshot, moveHistory
    <2>3. j \in Jobs(used)
      BY <1>0 DEF Jobs, Present
    <2>4. /\ j.kind = job[p].kind /\ j.from = job[p].from /\ j.to = job[p].to
          /\ j.orig = job[p].orig /\ j.what = job[p].what /\ j.mine = job[p].mine
          /\ j.bulk = job[p].bulk /\ j.sent = job[p].sent
          /\ j.alone = job[p].alone /\ j.open = job[p].open
      BY <1>0 DEF Jobs
    <2>. HIDE DEF j
    <2>5. JobInv("index", j, used')
      BY <1>0, <2>1, <2>3, <2>4 DEF JobInv, Done
    <2>. QED BY <1>0, <2>1, <2>2, <2>5, JobsMoveOn
             DEF MoveInv, MoveSteps, Set, Proceeds, j
  <1>2. ASSUME Purge(p) PROVE MoveInv'
    <2>. DEFINE h == Held(job[p].to)
                out == {i \in Ids : h[i] # NoEntry /\ ~cipher[i].org}
                rest == [i \in Ids |-> IF i \in out THEN NoEntry ELSE h[i]]
    <2>1. /\ at[p] = "purge" /\ Proceeds(p, "index") /\ job' = job
          /\ cipher' = [i \in Ids |-> IF i \in out THEN NoEntry ELSE cipher[i]]
          /\ gone' = gone \union {cipher[i].item : i \in out}
          /\ copies' = [copies EXCEPT ![job[p].to] = rest]
          /\ UNCHANGED <<items, mistaken, overtaken, partial, changes, faults>>
      BY <1>2 DEF Purge
    <2>2. h \in Copies /\ \A i \in Ids : h[i] \in {NoEntry, cipher[i]}
      BY <1>0, HeldTyped DEF Held
    <2>. HIDE DEF h
    <2>3. rest \in Copies /\ \A i \in Ids : cipher[i] = NoEntry => rest[i] = NoEntry
      BY <2>2 DEF Copies
    <2>4. cipher' \in Copies /\ \A i \in Ids : cipher[i] = NoEntry => cipher'[i] = NoEntry
      BY <1>0, <2>1 DEF Copies
    <2>5. {cipher[i].item : i \in out} \subseteq Items
      BY <1>0, <2>2 DEF Copies, Ciphers
    <2>. HIDE DEF rest, out
    <2>6. Stored'
      BY <1>0, <2>1, <2>3, <2>4 DEF MoveInv, Stored
    <2>7. Counted' /\ Flags'
      BY <2>1, <2>5 DEF MoveInv, Counted, Flags
    <2>8. JobInv("index", job[p], used')
      BY <1>0, <2>1 DEF JobInv, Done
    <2>9. job' = [job EXCEPT ![p] = job[p]]
      BY <2>1 DEF MoveInv, Working
    <2>. QED BY <1>0, <2>1, <2>6, <2>7, <2>8, <2>9, JobsMoveOn
             DEF MoveInv, MoveSteps, Proceeds
  <1>3. ASSUME Index(p) PROVE MoveInv'
    <2>0. PICK synced \in BOOLEAN :
            LET here == IF synced THEN Held(job[p].to) ELSE copies[job[p].to]
                there == {here[i].user : i \in Present(here)}
                new == {e \in job[p].what : e.user \notin there}
                twins == {e \in new : \E f \in new \ {e} : f.user = e.user}
            IN  /\ copies' = [copies EXCEPT ![job[p].to] = here]
                /\ Set(p, [job[p] EXCEPT !.base = Present(here), !.alone = twins,
                                         !.bulk = new \ twins])
      BY <1>3, ZenonT(40) DEF Index
    <2>. DEFINE here == IF synced THEN Held(job[p].to) ELSE copies[job[p].to]
                there == {here[i].user : i \in Present(here)}
                new == {e \in job[p].what : e.user \notin there}
                T == {e \in new : \E f \in new \ {e} : f.user = e.user}
                R == new \ T
                B == Present(here)
                j == [job[p] EXCEPT !.base = B, !.alone = T, !.bulk = R]
    <2>1. /\ here = Held(job[p].to) \/ here = copies[job[p].to]
          /\ B = Present(here) /\ Set(p, j)
          /\ T \subseteq job[p].what /\ R \subseteq job[p].what
          /\ copies' = [copies EXCEPT ![job[p].to] = here]
          /\ at[p] = "index" /\ Proceeds(p, "import")
      BY <1>3, <2>0 DEF Index
    <2>. HIDE DEF here, T, R, B
    <2>2. job[p].to \in Vaults
      BY <1>0, <2>1 DEF JobInv
    <2>3. here \in Copies /\ \A i \in Ids : i > used => here[i] = NoEntry
      BY <1>0, <2>1, <2>2, HeldTyped, SMTT(40) DEF MoveInv, Stored, Held
    <2>4. Stored'
      BY <1>0, <1>3, <2>1, <2>3, ZenonT(40) DEF MoveInv, Stored, Index
    <2>5. Counted' /\ Flags'
      BY <1>3, CountedKept DEF MoveInv, Flags, Index, moveHistory
    <2>6. j \in Jobs(used)
      BY <1>0, <2>1 DEF Jobs, Present
    <2>7. /\ j.kind = job[p].kind /\ j.from = job[p].from /\ j.to = job[p].to
          /\ j.orig = job[p].orig /\ j.what = job[p].what /\ j.mine = job[p].mine
          /\ j.bulk = R /\ j.sent = job[p].sent
          /\ j.alone = T /\ j.open = job[p].open
      BY <1>0 DEF Jobs
    <2>. HIDE DEF j
    <2>8. JobInv("import", j, used')
      BY <1>0, <2>1, <2>6, <2>7 DEF JobInv, Done
    <2>. QED BY <1>0, <2>1, <2>4, <2>5, <2>8, JobsMoveOn
             DEF MoveInv, MoveSteps, Set, Proceeds, j
  <1>. QED BY <1>1, <1>2, <1>3

LEMMA ImportGoesOn ==
  ASSUME Stored, Stored', Working, NEW p \in Clis, at[p] = "import", NEW j,
         JobInv("import", j, used'), used <= used', at' = at, Set(p, j)
  PROVE  Working'
  <1>1. at' = [at EXCEPT ![p] = "import"]
    BY DEF Working
  <1>. QED BY <1>1, JobsMoveOn DEF MoveSteps, Set

\* What is made for a command is its own, and not whole yet.
LEMMA CopiedTyped ==
  ASSUME MoveInv, NEW p \in Clis, at[p] # "idle", NEW e \in job[p].what
  PROVE  /\ e \in Ciphers /\ Copied(p, e) \in Ciphers
         /\ Copied(p, e).item = e.item /\ Copied(p, e).whole = FALSE
  <1>1. job[p] \in Jobs(used) /\ job[p].to \in Vaults
    BY AtWork DEF JobInv
  <1>2. e \in Ciphers
    BY <1>1 DEF Jobs
  <1>3. (e.org /\ Shared /\ job[p].kind # "personal") \in BOOLEAN
    OBVIOUS
  <1>. HIDE DEF Items
  <1>4. /\ e.user \in Users /\ e.item \in Items
    BY <1>2 DEF Ciphers
  <1>5. Copied(p, e) \in Ciphers
    BY <1>1, <1>3, <1>4 DEF Copied, Ciphers
  <1>. QED BY <1>2, <1>5 DEF Copied

LEMMA MoveInvBulk ==
  ASSUME MoveInv, NEW p \in Clis, BulkOne(p) \/ BulkDone(p) \/ BulkFails(p)
  PROVE  MoveInv'
  <1>0. /\ used \in Nat /\ at[p] = "import" /\ at' = at
        /\ job[p] \in Jobs(used) /\ JobInv(at[p], job[p], used)
        /\ cipher \in Copies /\ copies \in [Vaults -> Copies]
    <2>1. at[p] = "import" /\ at' = at
      BY DEF BulkOne, BulkDone, BulkFails
    <2>. QED BY <2>1, AtWork, SMTT(40)
  <1>1. ASSUME BulkOne(p) PROVE MoveInv'
    <2>1. PICK e \in job[p].bulk :
          LET j == [job[p] EXCEPT !.bulk = @ \ {e}, !.sent = @ \union {e}]
          IN \/ /\ used < MaxEntries /\ used' = used + 1
                /\ cipher' = [cipher EXCEPT ![used + 1] = Copied(p, e)]
                /\ Set(p, [j EXCEPT !.mine = @ \union {used + 1}])
                /\ UNCHANGED faults
             \/ /\ Fault
                /\ Set(p, j)
                /\ UNCHANGED <<cipher, used>>
      BY <1>1, ZenonT(40) DEF BulkOne
    <2>. DEFINE b == job[p].bulk \ {e}
                s == job[p].sent \union {e}
                m == IF used' = used THEN job[p].mine ELSE job[p].mine \union {used + 1}
                j == [job[p] EXCEPT !.bulk = b, !.sent = s, !.mine = m]
    <2>2. UNCHANGED <<items, copies, at, gone, mistaken, overtaken, partial, changes>>
      BY <1>1 DEF BulkOne, moveHistory
    <2>3. Copied(p, e) \in Ciphers /\ e \in job[p].what
      BY <1>0, CopiedTyped DEF JobInv
    <2>4. Stored' /\ used <= used' /\ used' \in Nat
      BY <1>0, <2>1, <2>2, <2>3, EntryAdded DEF MoveInv, Stored
    <2>5. Set(p, j)
      <3>. DEFINE k == [job[p] EXCEPT !.bulk = @ \ {e}, !.sent = @ \union {e}]
      <3>1. CASE used' = used + 1 /\ Set(p, [k EXCEPT !.mine = @ \union {used + 1}])
        <4>0. m = job[p].mine \union {used + 1}
          BY <1>0, <3>1
        <4>. HIDE DEF b, s, m
        <4>1. j = [k EXCEPT !.mine = @ \union {used + 1}]
          <5>1. k.mine = job[p].mine
            BY <1>0 DEF Jobs
          <5>. QED BY <1>0, <4>0, <5>1 DEF Jobs, b, s
        <4>. QED BY <3>1, <4>1
      <3>2. CASE used' = used /\ Set(p, k)
        <4>1. j = k
          BY <1>0, <3>2 DEF Jobs
        <4>. QED BY <3>2, <4>1
      <3>. QED BY <2>1, <3>1, <3>2
    <2>6. Counted'
      BY <2>1, <2>2, CountedKept DEF MoveInv
    <2>7. Flags'
      BY <2>2 DEF MoveInv, Flags
    <2>8. JobInv("import", job[p], used')
      BY <1>0, <2>4, JobGrows
    <2>9. /\ m \subseteq 1..used' /\ \A x \in m : x \in job[p].mine \/ x = used + 1
          /\ b \subseteq job[p].what /\ s \subseteq job[p].what
      BY <1>0, <2>1, <2>3, <2>4 DEF Jobs, JobInv
    <2>. HIDE DEF b, s, m
    <2>10. job[p] \in Jobs(used') /\ job[p].what \subseteq Ciphers
      BY <2>8 DEF JobInv, Jobs
    <2>11. j \in Jobs(used')
      BY <2>9, <2>10 DEF Jobs
    <2>12. /\ j.kind = job[p].kind /\ j.from = job[p].from /\ j.to = job[p].to
           /\ j.orig = job[p].orig /\ j.what = job[p].what /\ j.mine = m
           /\ j.bulk = b /\ j.sent = s
           /\ j.alone = job[p].alone /\ j.open = job[p].open
      BY <1>0 DEF Jobs
    <2>13. job[p].kind # "personal"
      BY <1>0, <2>1 DEF JobInv
    <2>14. job[p].kind \notin Mirrors => \A x \in m : job[p].orig < x
      BY <1>0, <2>9 DEF JobInv, Jobs, Ids
    <2>. HIDE DEF j
    <2>15. JobInv("import", j, used')
      BY <2>8, <2>9, <2>11, <2>12, <2>13, <2>14, ZenonT(40) DEF JobInv
    <2>. QED BY <1>0, <2>4, <2>5, <2>6, <2>7, <2>15, ImportGoesOn, SMTT(40) DEF MoveInv
  <1>2. ASSUME BulkDone(p) PROVE MoveInv'
    <2>. DEFINE h == Held(job[p].to)
                new == Present(h) \ job[p].base
                named(u) == {i \in new : cipher[i].user = u}
                A == {e \in job[p].sent : named(e.user) = {}}
    <2>1. PICK found \in SUBSET new :
            /\ Set(p, [job[p] EXCEPT !.sent = {},
                         !.open = {o \in found \X job[p].sent :
                                     o[2].user = cipher[o[1]].user},
                         !.alone = A])
            /\ copies' = [copies EXCEPT ![job[p].to] = h]
            /\ mistaken' = (mistaken \/ ~(found \subseteq job[p].mine))
            /\ \A e \in job[p].sent : Cardinality(found \cap named(e.user)) =
                                       IF named(e.user) = {} THEN 0 ELSE 1
      BY <1>2, ZenonT(40) DEF BulkDone, Refetched
    <2>. DEFINE O == {o \in found \X job[p].sent : o[2].user = cipher[o[1]].user}
                j == [job[p] EXCEPT !.sent = {}, !.open = O, !.alone = A]
    <2>2. UNCHANGED <<cipher, used, items, at, gone, overtaken, partial, changes, faults>>
          /\ job[p].sent # {}
      BY <1>2 DEF BulkDone
    <2>3. job[p].to \in Vaults /\ h \in Copies
          /\ \A i \in Ids : cipher[i] = NoEntry => h[i] = NoEntry
      BY <1>0, HeldTyped DEF JobInv, Held
    <2>. HIDE DEF h
    <2>4. Stored' /\ used <= used'
      BY <1>0, <2>1, <2>2, <2>3 DEF MoveInv, Stored
    <2>5. Counted'
      BY <2>2, CountedKept DEF MoveInv
    <2>6. Flags'
      BY <2>1, <2>2 DEF MoveInv, Flags
    <2>7. new \subseteq 1..used
      BY <1>0, <2>3, BoundAssumption DEF MoveInv, Stored, Present, Ids
    <2>8. job[p].sent \subseteq Ciphers /\ job[p].sent \subseteq job[p].what
      BY <1>0 DEF Jobs, JobInv
    <2>9. O \subseteq (1..used) \X Ciphers /\ \A o \in O : o[2] \in job[p].what
      BY <2>7, <2>8
    <2>10. A \subseteq job[p].what /\ A \subseteq Ciphers
      BY <2>8
    <2>. HIDE DEF O, A
    <2>11. j \in Jobs(used)
      BY <1>0, <2>9, <2>10 DEF Jobs
    <2>12. /\ j.kind = job[p].kind /\ j.from = job[p].from /\ j.to = job[p].to
           /\ j.orig = job[p].orig /\ j.what = job[p].what /\ j.mine = job[p].mine
           /\ j.bulk = job[p].bulk /\ j.sent = {} /\ j.alone = A /\ j.open = O
      BY <1>0 DEF Jobs
    <2>13. Set(p, j)
      BY <2>1 DEF O, A
    <2>14. job[p].kind # "personal"
      BY <1>0, <2>2 DEF JobInv
    <2>. HIDE DEF j
    <2>15. JobInv("import", j, used')
      BY <1>0, <2>2, <2>9, <2>10, <2>11, <2>12, <2>14 DEF JobInv
    <2>. QED BY <1>0, <2>4, <2>5, <2>6, <2>13, <2>15, ImportGoesOn DEF MoveInv
  <1>3. ASSUME BulkFails(p) PROVE MoveInv'
    <2>. DEFINE A == job[p].bulk \union job[p].sent
                j == [job[p] EXCEPT !.bulk = {}, !.sent = {}, !.alone = A]
    <2>1. /\ Set(p, j) /\ Fault /\ A # {}
          /\ UNCHANGED <<cipher, used, items, copies, at, gone, mistaken,
                         overtaken, partial, changes>>
      BY <1>3 DEF BulkFails, moveHistory
    <2>2. Stored' /\ used <= used' /\ Counted' /\ Flags'
      BY <1>0, <2>1, CountedKept DEF MoveInv, Stored, Flags
    <2>3. A \subseteq job[p].what /\ A \subseteq Ciphers
      BY <1>0 DEF JobInv, Jobs
    <2>4. job[p].kind # "personal"
      BY <1>0, <2>1 DEF JobInv
    <2>. HIDE DEF A
    <2>5. j \in Jobs(used)
      BY <1>0, <2>3 DEF Jobs
    <2>6. /\ j.kind = job[p].kind /\ j.from = job[p].from /\ j.to = job[p].to
          /\ j.orig = job[p].orig /\ j.what = job[p].what /\ j.mine = job[p].mine
          /\ j.bulk = {} /\ j.sent = {} /\ j.alone = A /\ j.open = job[p].open
      BY <1>0 DEF Jobs
    <2>. HIDE DEF j
    <2>7. JobInv("import", j, used')
      BY <1>0, <2>1, <2>3, <2>4, <2>5, <2>6 DEF JobInv
    <2>. QED BY <1>0, <2>1, <2>2, <2>7, ImportGoesOn DEF MoveInv
  <1>. QED BY <1>1, <1>2, <1>3

LEMMA MoveInvOne ==
  ASSUME MoveInv, NEW p \in Clis, AddOne(p) \/ AddFails(p)
  PROVE  MoveInv'
  <1>0. /\ used \in Nat /\ at[p] = "import" /\ job[p].open = {}
        /\ job[p] \in Jobs(used) /\ JobInv("import", job[p], used)
    BY AtWork DEF AddOne, AddFails
  <1>1. ASSUME AddOne(p) PROVE MoveInv'
    <2>1. PICK e \in job[p].alone :
            /\ used < MaxEntries /\ used' = used + 1
            /\ cipher' = [cipher EXCEPT ![used + 1] = Copied(p, e)]
            /\ Set(p, [job[p] EXCEPT !.alone = @ \ {e}, !.open = {<<used + 1, e>>},
                                     !.mine = @ \union {used + 1}])
      BY <1>1 DEF AddOne
    <2>. DEFINE A == job[p].alone \ {e}
                m == job[p].mine \union {used + 1}
                O == {<<used + 1, e>>}
                j == [job[p] EXCEPT !.alone = A, !.open = O, !.mine = m]
    <2>2. UNCHANGED <<items, copies, at, gone, mistaken, overtaken, partial,
                      changes, faults>>
      BY <1>1 DEF AddOne, moveHistory
    <2>3. e \in job[p].what /\ e \in Ciphers /\ Copied(p, e) \in Ciphers
      BY <1>0, CopiedTyped DEF JobInv
    <2>4. Stored' /\ used <= used' /\ used' \in Nat
      <3>1. Stored'
        BY <2>1, <2>2, <2>3, EntryAdded DEF MoveInv
      <3>. QED BY <1>0, <2>1, <3>1
    <2>5. Counted' /\ Flags'
      BY <2>2, CountedKept DEF MoveInv, Flags
    <2>6. Set(p, j)
      BY <1>0, <2>1 DEF Jobs
    <2>7. JobInv("import", job[p], used')
      BY <1>0, <2>4, JobGrows
    <2>8. job[p] \in Jobs(used') /\ used + 1 \in 1..used'
      BY <1>0, <2>1, <2>7 DEF JobInv
    <2>9. /\ O \subseteq (1..used') \X Ciphers /\ \A o \in O : o[2] \in job[p].what
          /\ m \subseteq 1..used' /\ A \subseteq job[p].what /\ A \subseteq Ciphers
      BY <2>3, <2>7, <2>8 DEF Jobs, JobInv
    <2>10. job[p].kind \notin Mirrors => \A x \in m : job[p].orig < x
      BY <1>0 DEF JobInv, Jobs, Ids
    <2>11. m # {}
      OBVIOUS
    <2>. HIDE DEF A, m, O
    <2>12. j \in Jobs(used')
      BY <2>8, <2>9 DEF Jobs
    <2>13. /\ j.kind = job[p].kind /\ j.from = job[p].from /\ j.to = job[p].to
           /\ j.orig = job[p].orig /\ j.what = job[p].what /\ j.mine = m
           /\ j.bulk = job[p].bulk /\ j.sent = job[p].sent
           /\ j.alone = A /\ j.open = O
      BY <1>0 DEF Jobs
    <2>. HIDE DEF j
    <2>14. JobInv("import", j, used')
      BY <2>7, <2>9, <2>10, <2>11, <2>12, <2>13 DEF JobInv
    <2>. QED BY <1>0, <2>2, <2>4, <2>5, <2>6, <2>14, ImportGoesOn DEF MoveInv
  <1>2. ASSUME AddFails(p) PROVE MoveInv'
    <2>1. PICK e \in job[p].alone, lost \in BOOLEAN :
            /\ IF lost
               THEN /\ used < MaxEntries /\ used' = used + 1
                    /\ cipher' = [cipher EXCEPT ![used + 1] = Copied(p, e)]
               ELSE UNCHANGED <<cipher, used>>
            /\ IF job[p].kind = "personal" THEN Stop(p)
               ELSE /\ Set(p, [job[p] EXCEPT !.alone = @ \ {e}, !.mine =
                         IF lost THEN @ \union {used + 1} ELSE @, !.failed = TRUE])
                    /\ UNCHANGED at
      BY <1>2 DEF AddFails
    <2>. DEFINE A == job[p].alone \ {e}
                m == IF lost THEN job[p].mine \union {used + 1} ELSE job[p].mine
                j == [job[p] EXCEPT !.alone = A, !.mine = m, !.failed = TRUE]
    <2>2. UNCHANGED <<items, copies, gone, mistaken, overtaken, partial, changes>>
          /\ Fault
      BY <1>2 DEF AddFails, moveHistory
    <2>3. e \in job[p].what /\ e \in Ciphers /\ Copied(p, e) \in Ciphers
      BY <1>0, CopiedTyped DEF JobInv
    <2>4. Stored' /\ used <= used' /\ used' \in Nat
      BY <1>0, <2>1, <2>2, <2>3, EntryAdded DEF MoveInv, Stored
    <2>5. Counted' /\ Flags'
      <3>1. Counted'
        BY <2>2, CountedKept DEF MoveInv
      <3>. QED BY <2>2, <3>1 DEF MoveInv, Flags
    <2>6. CASE job[p].kind = "personal"
      BY <2>1, <2>4, <2>5, <2>6, JobStops DEF MoveInv
    <2>7. CASE job[p].kind # "personal"
      <3>1. Set(p, j) /\ at' = at
        BY <1>0, <2>1, <2>7 DEF Jobs
      <3>2. JobInv("import", job[p], used')
        BY <1>0, <2>4, JobGrows
      <3>3. job[p] \in Jobs(used')
        BY <3>2 DEF JobInv
      <3>4. \A x \in m : x \in job[p].mine \/ (x = used + 1 /\ x \in 1..used')
        BY <1>0, <2>1
      <3>5. /\ m \subseteq 1..used' /\ A \subseteq job[p].what /\ A \subseteq Ciphers
        BY <3>2, <3>3, <3>4 DEF Jobs, JobInv
      <3>6. job[p].kind \notin Mirrors => \A x \in m : job[p].orig < x
        BY <1>0, <3>4 DEF JobInv, Jobs, Ids
      <3>. HIDE DEF A, m
      <3>7. j \in Jobs(used')
        BY <3>3, <3>5 DEF Jobs
      <3>8. /\ j.kind = job[p].kind /\ j.from = job[p].from /\ j.to = job[p].to
            /\ j.orig = job[p].orig /\ j.what = job[p].what /\ j.mine = m
            /\ j.bulk = job[p].bulk /\ j.sent = job[p].sent
            /\ j.alone = A /\ j.open = job[p].open
        BY <1>0 DEF Jobs
      <3>. HIDE DEF j
      <3>9. JobInv("import", j, used')
        BY <2>7, <3>2, <3>5, <3>6, <3>7, <3>8 DEF JobInv
      <3>. QED BY <1>0, <2>4, <2>5, <3>1, <3>9, ImportGoesOn DEF MoveInv
    <2>. QED BY <2>6, <2>7
  <1>. QED BY <1>1, <1>2, SMTT(40)

LEMMA MoveInvRest ==
  ASSUME MoveInv, NEW p \in Clis, Fill(p) \/ FillFails(p) \/ AttachFails(p)
  PROVE  MoveInv'
  <1>0. /\ used \in Nat /\ used <= used' /\ used' = used /\ at[p] = "import"
        /\ job[p] \in Jobs(used) /\ JobInv("import", job[p], used)
        /\ cipher \in Copies
    <2>1. used' = used /\ at[p] = "import"
      BY DEF Fill, FillFails, AttachFails
    <2>. QED BY <2>1, AtWork
  <1>1. ASSUME NEW o \in job[p].open, NEW f \in BOOLEAN, at' = at,
               Stored', Counted', Flags',
               Set(p, [job[p] EXCEPT !.open = @ \ {o}, !.failed = f])
        PROVE  MoveInv'
    <2>. DEFINE O == job[p].open \ {o}
                j == [job[p] EXCEPT !.open = O, !.failed = f]
    <2>1. Set(p, j)
      BY <1>0, <1>1 DEF Jobs
    <2>2. j \in Jobs(used)
      BY <1>0 DEF Jobs
    <2>3. /\ j.kind = job[p].kind /\ j.from = job[p].from /\ j.to = job[p].to
          /\ j.orig = job[p].orig /\ j.what = job[p].what /\ j.mine = job[p].mine
          /\ j.bulk = job[p].bulk /\ j.sent = job[p].sent
          /\ j.alone = job[p].alone /\ j.open = O
      BY <1>0 DEF Jobs
    <2>. HIDE DEF j
    <2>4. JobInv("import", j, used')
      BY <1>0, <2>2, <2>3 DEF JobInv
    <2>. QED BY <1>0, <1>1, <2>1, <2>4, ImportGoesOn DEF MoveInv
  <1>2. ASSUME Fill(p) PROVE MoveInv'
    <2>1. PICK o \in job[p].open, brought \in BOOLEAN :
            /\ cipher[o[1]] # NoEntry
            /\ cipher' = [cipher EXCEPT ![o[1]].whole = @ \/ (o[2].whole /\ brought)]
            /\ Set(p, [job[p] EXCEPT !.open = @ \ {o}])
            /\ UNCHANGED <<used, items, copies, at, moveHistory, changes, faults>>
      BY <1>2 DEF Fill
    <2>2. o[1] \in Ids
      BY <1>0, BoundAssumption DEF Jobs, MoveInv, Stored, Ids
    <2>3. cipher[o[1]] \in Ciphers
      BY <1>0, <2>1, <2>2 DEF Copies
    <2>. DEFINE w == cipher[o[1]].whole \/ (o[2].whole /\ brought)
                c == [cipher[o[1]] EXCEPT !.whole = w]
    <2>4. w \in BOOLEAN
      OBVIOUS
    <2>5. cipher' = [cipher EXCEPT ![o[1]] = c]
      BY <2>1
    <2>. HIDE DEF w
    <2>6. c \in Ciphers
      BY <2>3, <2>4 DEF Ciphers
    <2>7. cipher' \in Copies /\ \A i \in Ids : cipher[i] = NoEntry => cipher'[i] = NoEntry
      BY <1>0, <2>1, <2>5, <2>6, ZenonT(40) DEF Copies
    <2>8. Stored' /\ Counted' /\ Flags'
      BY <2>1, <2>7, CountedKept DEF MoveInv, Stored, Flags, moveHistory
    <2>9. Set(p, [job[p] EXCEPT !.open = @ \ {o}, !.failed = job[p].failed])
      BY <1>0, <2>1 DEF Jobs
    <2>10. job[p].failed \in BOOLEAN
      BY <1>0 DEF Jobs
    <2>. QED BY <1>1, <2>1, <2>8, <2>9, <2>10
  <1>3. ASSUME FillFails(p) \/ AttachFails(p) PROVE MoveInv'
    <2>1. PICK o \in job[p].open :
            /\ faults' = faults \/ Fault
            /\ \/ Stop(p)
               \/ Set(p, [job[p] EXCEPT !.open = @ \ {o}, !.failed = TRUE]) /\ UNCHANGED at
               \/ Set(p, [job[p] EXCEPT !.open = @ \ {o}]) /\ UNCHANGED at
      BY <1>3 DEF FillFails, AttachFails, Unfilled
    <2>2. /\ partial' \in BOOLEAN
          /\ UNCHANGED <<cipher, used, items, copies, gone, mistaken, overtaken, changes>>
      BY <1>3 DEF FillFails, AttachFails, moveHistory, MoveInv, Flags
    <2>3. Stored' /\ Counted'
      BY <2>1, <2>2, CountedKept DEF MoveInv, Stored
    <2>4. Flags'
      BY <2>2 DEF MoveInv, Flags
    <2>5. \/ Stop(p)
          \/ \E f \in BOOLEAN :
               Set(p, [job[p] EXCEPT !.open = @ \ {o}, !.failed = f]) /\ UNCHANGED at
      <3>1. job[p].failed \in BOOLEAN
            /\ [job[p] EXCEPT !.open = @ \ {o}]
                 = [job[p] EXCEPT !.open = @ \ {o}, !.failed = job[p].failed]
        BY <1>0 DEF Jobs
      <3>. QED BY <2>1, <3>1
    <2>. QED BY <1>0, <1>1, <2>3, <2>4, <2>5, JobStops DEF MoveInv
  <1>. QED BY <1>2, <1>3

\* The end of an import, and what becomes of the original.
LEMMA MoveInvEnd ==
  ASSUME MoveInv, NEW p \in Clis, Imported(p) \/ Dispose(p) \/ Dies(p)
  PROVE  MoveInv'
  <1>0. /\ used \in Nat /\ used <= used' /\ used' = used
        /\ job[p] \in Jobs(used) /\ JobInv(at[p], job[p], used)
        /\ cipher \in Copies /\ copies \in [Vaults -> Copies]
    <2>1. used' = used
      BY DEF Imported, Dispose, Check, Remove, RemoveFails, Dies
    <2>. QED BY <2>1, AtWork
  <1>1. ASSUME NEW s \in {"check", "remove"}, Proceeds(p, s), job' = job,
               at[p] \in {"import", "check"}, Done(job[p]), ~job[p].failed,
               job[p].kind \notin Mirrors, job[p].kind = "personal" => s = "remove",
               Stored', Counted', Flags'
        PROVE  MoveInv'
    <2>1. JobInv(s, job[p], used') /\ s \in MoveSteps
      BY <1>0, <1>1 DEF JobInv, MoveSteps
    <2>2. job' = [job EXCEPT ![p] = job[p]]
      BY <1>1 DEF MoveInv, Working
    <2>. QED BY <1>0, <1>1, <2>1, <2>2, JobsMoveOn DEF MoveInv, Proceeds
  <1>2. ASSUME Imported(p) PROVE MoveInv'
    <2>1. Stored' /\ Counted' /\ Flags'
      BY <1>2, CountedKept DEF MoveInv, Stored, Flags, Imported, moveHistory
    <2>2. at[p] = "import" /\ Done(job[p])
      BY <1>2 DEF Imported, Settled, Done
    <2>3. \/ Stop(p)
          \/ /\ job[p].kind = "personal" /\ ~job[p].failed
             /\ Proceeds(p, "remove") /\ job' = job
          \/ /\ job[p].kind \notin Mirrors \union {"personal"} /\ ~job[p].failed
             /\ Proceeds(p, "check") /\ job' = job
      <3>1. CASE job[p].failed \/ job[p].kind \in {"mirror", "purge"}
        BY <1>2, <3>1 DEF Imported
      <3>2. CASE ~job[p].failed /\ job[p].kind = "personal"
        BY <1>2, <3>2 DEF Imported
      <3>3. CASE ~job[p].failed /\ job[p].kind \notin {"mirror", "purge", "personal"}
        BY <1>2, <3>3 DEF Imported, Mirrors
      <3>. QED BY <3>1, <3>2, <3>3
    <2>. QED BY <1>0, <1>1, <2>1, <2>2, <2>3, JobStops DEF MoveInv, Mirrors
  <1>3. ASSUME Check(p) PROVE MoveInv'
    <2>1. Counted'
      BY <1>3, CountedKept DEF MoveInv, Check
    <2>2. Flags'
      BY <1>3 DEF MoveInv, Flags, Check
    <2>3. HeldOf(cipher, job[p].to) \in Copies
          /\ \A i \in Ids : cipher[i] = NoEntry => HeldOf(cipher, job[p].to)[i] = NoEntry
      BY <1>0, HeldTyped
    <2>4. Stored'
      BY <1>0, <1>3, <2>3 DEF MoveInv, Stored, Check, Refetched, Held
    <2>5. at[p] = "check" /\ Done(job[p]) /\ job[p].kind \notin Mirrors
          /\ job[p].kind # "personal" /\ ~job[p].failed
      BY <1>0, <1>3 DEF Check, JobInv
    <2>6. Stop(p) \/ (Proceeds(p, "remove") /\ job' = job)
      BY <1>3 DEF Check
    <2>. QED BY <1>0, <1>1, <2>1, <2>2, <2>4, <2>5, <2>6, JobStops DEF MoveInv
  <1>4. ASSUME Remove(p) PROVE MoveInv'
    <2>. DEFINE i == job[p].orig
                c == IF job[p].kind = "trash" THEN [cipher[i] EXCEPT !.bin = TRUE]
                     ELSE NoEntry
    <2>1. /\ cipher[i] # NoEntry /\ cipher' = [cipher EXCEPT ![i] = c]
          /\ copies' = [copies EXCEPT ![job[p].from] = HeldOf(cipher', job[p].from)]
          /\ overtaken' \in BOOLEAN
          /\ UNCHANGED <<items, gone, mistaken, partial, changes, faults>>
          /\ Stop(p)
      BY <1>4 DEF Remove
    <2>2. i \in Ids
      BY <1>0 DEF Jobs
    <2>3. c \in Ciphers \union {NoEntry}
      <3>1. cipher[i] \in Ciphers
        BY <1>0, <2>1, <2>2 DEF Copies
      <3>2. [cipher[i] EXCEPT !.bin = TRUE] \in Ciphers
        BY <3>1 DEF Ciphers
      <3>. QED BY <3>2
    <2>. HIDE DEF c
    <2>4. cipher' \in Copies /\ \A n \in Ids : cipher[n] = NoEntry => cipher'[n] = NoEntry
      BY <1>0, <2>1, <2>2, <2>3 DEF Copies
    <2>5. HeldOf(cipher', job[p].from) \in Copies
          /\ \A n \in Ids : cipher[n] = NoEntry => HeldOf(cipher', job[p].from)[n] = NoEntry
      BY <2>4, HeldTyped
    <2>6. Stored'
      BY <1>0, <2>1, <2>4, <2>5 DEF MoveInv, Stored
    <2>7. Counted'
      BY <2>1, CountedKept DEF MoveInv
    <2>8. Flags'
      BY <2>1 DEF MoveInv, Flags
    <2>. QED BY <1>0, <2>1, <2>6, <2>7, <2>8, JobStops DEF MoveInv
  <1>5. ASSUME RemoveFails(p) \/ Dies(p) PROVE MoveInv'
    <2>1. Stored' /\ Counted' /\ Flags' /\ Stop(p)
      BY <1>5, CountedKept DEF MoveInv, Stored, Flags, RemoveFails, Dies, moveHistory
    <2>. QED BY <1>0, <2>1, JobStops DEF MoveInv
  <1>. QED BY <1>2, <1>3, <1>4, <1>5 DEF Dispose

LEMMA MoveInvNext == MoveInv /\ [MoveNext]_moveVars => MoveInv'
  <1>. SUFFICES ASSUME MoveInv, [MoveNext]_moveVars PROVE MoveInv'
    OBVIOUS
  <1>1. ASSUME NEW p \in Clis, Begin(p) \/ Import(p) \/ Dispose(p) \/ Dies(p)
        PROVE  MoveInv'
    BY <1>1, MoveInvBegin, MoveInvPrepare, MoveInvBulk, MoveInvOne, MoveInvRest, MoveInvEnd
    DEF Import
  <1>2. CASE UNCHANGED moveVars
    BY <1>2 DEF moveVars, moveHistory, MoveInv, Stored, Counted, Flags, Working
  <1>. QED BY <1>1, <1>2, MoveInvOthers DEF MoveNext

LEMMA MoveInvInvariant == MoveSpec => []MoveInv
  BY MoveInvInit, MoveInvNext, PTL DEF MoveSpec

\* Every variable of VaultMove has the shape the code gives it; in particular
\* a command only works on entries there are (collection_cmds.rs, import_cmds.rs).
THEOREM MoveTypeCorrect == MoveSpec => []MoveTypeOK
  <1>1. MoveInv => MoveTypeOK
    <2>. SUFFICES ASSUME MoveInv PROVE MoveTypeOK
      OBVIOUS
    <2>1. items \in Items
      BY BoundAssumption DEF MoveInv, Counted, Items
    <2>2. ASSUME NEW p \in Clis
          PROVE  LET j == job[p] IN
                 /\ j.kind \in MoveKinds /\ {j.from, j.to} \subseteq Vaults \union {NoEntry}
                 /\ j.orig \in Ids
                 /\ j.what \union j.bulk \union j.sent \union j.alone \subseteq Ciphers
                 /\ j.before \union j.base \subseteq Ids /\ j.mine \subseteq 1..used
                 /\ j.open \subseteq (1..used) \X Ciphers /\ j.failed \in BOOLEAN
      BY DEF MoveInv, Working, Jobs
    <2>3. /\ cipher \in [Ids -> Ciphers \union {NoEntry}] /\ used \in 0..MaxEntries
          /\ \A i \in Ids : i > used => cipher[i] = NoEntry
          /\ copies \in [Vaults -> [Ids -> Ciphers \union {NoEntry}]]
      BY DEF MoveInv, Stored, Copies
    <2>4. {mistaken, overtaken, partial} \subseteq BOOLEAN
      BY DEF MoveInv, Flags
    <2>. QED BY <2>1, <2>2, <2>3, <2>4
             DEF MoveTypeOK, MoveInv, Counted, Working, MoveSteps
  <1>. QED BY <1>1, MoveInvInvariant, PTL

-----------------------------------------------------------------------------
(* Entries on their way. What keeps a content from being lost.             *)
(*                                                                         *)
(* That every content is in some entry is not inductive: the removal of an *)
(* original would have to know of the copy. A command that has made a copy *)
(* is backed: what it copied was given up, or is in an entry that is newer *)
(* than its original. The order of ids matters, since commands may remove  *)
(* each other's copies: the newest entry of a content is never removed.    *)
(* The argument is the same for whole entries (w), where the copy counts   *)
(* from the moment it is filled.                                           *)

Has(i, c, w) ==
  cipher[i] # NoEntry /\ cipher[i].item = c /\ (w => cipher[i].whole)

Somewhere(c, k, w) == \E i \in Ids : i > k /\ Has(i, c, w)

Ready(j, w) == j.mine # {} /\ (w => Done(j) /\ ~j.failed)

Backed(p, w) ==
  job[p].kind \notin Mirrors /\ Ready(job[p], w) =>
    \A e \in job[p].what : (w => e.whole) =>
      e.item \in gone \/ Somewhere(e.item, job[p].orig, w)

\* What a command fills, and what it takes for its copy, it has made; and
\* that still has the content, unless the user gave that up.
Owned(p) ==
  /\ at[p] = "remove" => job[p].mine # {}
  /\ \A o \in job[p].open : o[1] \in job[p].mine
  /\ job[p].kind \notin Mirrors => \A m \in job[p].mine, e \in job[p].what :
       cipher[m] # NoEntry => cipher[m].item = e.item \/ e.item \in gone

Excused(w) == mistaken \/ overtaken \/ (w /\ partial)

Intact(w) ==
  /\ \A c \in 1..items \ gone : Somewhere(c, 0, w)
  /\ \A p \in Clis : Owned(p) /\ Backed(p, w)

Keeps(w) == Excused(w) \/ Intact(w)

LEMMA KeepsInit == ASSUME MoveInit, NEW w \in BOOLEAN PROVE Keeps(w)
  <1>1. /\ items = 2 /\ gone = {} /\ at = [p \in Clis |-> "idle"]
        /\ job = [p \in Clis |-> NoJob(NoEntry)]
    BY DEF MoveInit
  <1>2. \A p \in Clis : Owned(p) /\ Backed(p, w)
    BY <1>1 DEF Owned, Backed, Ready, NoJob
  <1>3. 1 \in Ids /\ 2 \in Ids
    BY BoundAssumption DEF Ids
  <1>4. /\ cipher[1] \in Ciphers /\ cipher[1].item = 1 /\ cipher[1].whole
        /\ cipher[2] \in Ciphers /\ cipher[2].item = 2 /\ cipher[2].whole
    BY <1>3, BoundAssumption DEF MoveInit, Ciphers, Items
  <1>5. \A c \in 1..items : Somewhere(c, 0, w)
    BY <1>1, <1>3, <1>4, NoEntryAssumption DEF Somewhere, Has
  <1>. QED BY <1>2, <1>5 DEF Keeps, Intact

\* What a step may do to the vaults.
LEMMA CipherSteps ==
  ASSUME MoveInv, [MoveNext]_moveVars
  PROVE  \/ UNCHANGED <<cipher, items, gone>>
         \/ /\ used < MaxEntries /\ gone' = gone
            /\ \E c \in Ciphers :
                 /\ cipher' = [cipher EXCEPT ![used + 1] = c]
                 /\ \/ items' = items
                    \/ items' = items + 1 /\ c.item = items + 1 /\ c.whole
         \/ \E i \in Ids : Edit(i)
         \/ \E p \in Clis : Purge(p) \/ Fill(p) \/ Remove(p)
  <1>. DEFINE Goal ==
         \/ UNCHANGED <<cipher, items, gone>>
         \/ /\ used < MaxEntries /\ gone' = gone
            /\ \E c \in Ciphers :
                 /\ cipher' = [cipher EXCEPT ![used + 1] = c]
                 /\ \/ items' = items
                    \/ items' = items + 1 /\ c.item = items + 1 /\ c.whole
         \/ \E i \in Ids : Edit(i)
         \/ \E p \in Clis : Purge(p) \/ Fill(p) \/ Remove(p)
  <1>1. ASSUME NEW p \in Clis, Begin(p) PROVE Goal
    BY <1>1, ZenonT(40) DEF Begin, Move, Mirror, Personal, moveHistory
  <1>2. ASSUME NEW p \in Clis,
               Snapshot(p) \/ Index(p) \/ BulkDone(p) \/ BulkFails(p) \/ FillFails(p)
               \/ AttachFails(p) \/ Imported(p) \/ Check(p) \/ RemoveFails(p) \/ Dies(p)
        PROVE  UNCHANGED <<cipher, items, gone>>
    BY <1>2 DEF Snapshot, Index, BulkDone, BulkFails, FillFails, AttachFails, Imported,
                Check, RemoveFails, Dies, moveHistory
  <1>3. ASSUME NEW p \in Clis, BulkOne(p) \/ AddOne(p) \/ AddFails(p) PROVE Goal
    <2>1. PICK e \in job[p].what :
            /\ UNCHANGED <<items, gone>> /\ at[p] = "import"
            /\ \/ UNCHANGED cipher
               \/ /\ used < MaxEntries
                  /\ cipher' = [cipher EXCEPT ![used + 1] = Copied(p, e)]
      <3>1. JobInv(at[p], job[p], used)
        BY AtWork
      <3>2. CASE BulkOne(p)
        BY <3>1, <3>2 DEF BulkOne, JobInv, moveHistory
      <3>3. CASE AddOne(p)
        BY <3>1, <3>3 DEF AddOne, JobInv, moveHistory
      <3>4. CASE AddFails(p)
        BY <3>1, <3>4 DEF AddFails, JobInv, moveHistory
      <3>. QED BY <1>3, <3>2, <3>3, <3>4
    <2>2. Copied(p, e) \in Ciphers
      BY <2>1, CopiedTyped
    <2>. QED BY <2>1, <2>2
  <1>4. ASSUME NEW a \in Vaults, SyncVault(a) PROVE Goal
    BY <1>4 DEF SyncVault, moveHistory
  <1>5. ASSUME NEW a \in Vaults, NEW u \in Users, Create(a, u) PROVE Goal
    <2>. DEFINE c == [acct |-> a, user |-> u, item |-> items + 1,
                      whole |-> TRUE, org |-> FALSE, bin |-> FALSE]
    <2>1. items + 1 \in Items
      BY <1>5, BoundAssumption DEF MoveInv, Counted, Create, Items
    <2>2. c \in Ciphers /\ c.item = items + 1 /\ c.whole
      BY <2>1 DEF Ciphers
    <2>. QED BY <1>5, <2>2 DEF Create, moveHistory
  <1>6. CASE UNCHANGED moveVars
    BY <1>6 DEF moveVars, moveHistory
  <1>. QED BY <1>1, <1>2, <1>3, <1>4, <1>5, <1>6, SMTT(40) DEF MoveNext, Import, Dispose

LEMMA MoveMonotone ==
  ASSUME MoveInv, [MoveNext]_moveVars, NEW w \in BOOLEAN, ~Excused(w)'
  PROVE  gone \subseteq gone' /\ ~Excused(w)
  <1>1. gone \subseteq gone'
    BY CipherSteps DEF Edit, Purge, Fill, Remove, moveHistory
  <1>2. (mistaken => mistaken') /\ (overtaken => overtaken') /\ (partial => partial')
    <2>1. ASSUME NEW p \in Clis, BulkDone(p) \/ Check(p) \/ Remove(p) \/ AttachFails(p)
          PROVE  (mistaken => mistaken') /\ (overtaken => overtaken')
                   /\ (partial => partial')
      <3>1. BulkDone(p) => (mistaken => mistaken') /\ UNCHANGED <<overtaken, partial>>
        BY DEF BulkDone
      <3>2. Check(p) => (mistaken => mistaken') /\ UNCHANGED <<overtaken, partial>>
        BY DEF Check
      <3>3. Remove(p) => (overtaken => overtaken') /\ UNCHANGED <<mistaken, partial>>
        BY DEF Remove
      <3>4. AttachFails(p) => partial' /\ UNCHANGED <<mistaken, overtaken>>
        BY DEF AttachFails
      <3>. QED BY <2>1, <3>1, <3>2, <3>3, <3>4
    <2>2. ASSUME NEW p \in Clis, Begin(p) \/ Snapshot(p) \/ Purge(p) \/ Index(p)
                                \/ BulkOne(p) \/ BulkFails(p) \/ AddOne(p) \/ AddFails(p)
                                \/ Fill(p) \/ FillFails(p) \/ Imported(p) \/ RemoveFails(p) \/ Dies(p)
          PROVE  UNCHANGED <<mistaken, overtaken, partial>>
      BY <2>2 DEF Begin, Move, Mirror, Personal, Snapshot, Purge, Index, BulkOne,
                  BulkFails, AddOne, AddFails, Fill, FillFails, Imported, RemoveFails,
                  Dies, moveHistory
    <2>3. ASSUME \/ \E a \in Vaults : SyncVault(a) \/ \E u \in Users : Create(a, u)
                 \/ \E i \in Ids : Edit(i)
                 \/ UNCHANGED moveVars
          PROVE  UNCHANGED <<mistaken, overtaken, partial>>
      BY <2>3 DEF SyncVault, Create, Edit, moveVars, moveHistory
    <2>. QED BY <2>1, <2>2, <2>3 DEF MoveNext, Import, Dispose
  <1>. QED BY <1>1, <1>2, SMTT(40) DEF Excused

\* A content that is somewhere and not given up stays, and stays above k.
LEMMA ContentStays ==
  ASSUME MoveInv, [MoveNext]_moveVars, NEW w \in BOOLEAN, Intact(w), ~Excused(w)',
         NEW c, NEW k \in Nat, c \notin gone', Somewhere(c, k, w)
  PROVE  Somewhere(c, k, w)'
  <1>1. PICK n \in Ids : n > k /\ Has(n, c, w)
    BY DEF Somewhere
  <1>0. /\ used \in Nat /\ cipher \in Copies /\ cipher[n] \in Ciphers
        /\ \A i \in Ids : i > used => cipher[i] = NoEntry
    BY <1>1, BoundAssumption DEF MoveInv, Stored, Copies, Has
  <1>2. SUFFICES ASSUME ~Has(n, c, w)' PROVE \E m \in Ids : m > k /\ Has(m, c, w)'
    BY <1>1 DEF Somewhere
  <1>3. CASE UNCHANGED <<cipher, items, gone>>
    BY <1>1, <1>2, <1>3 DEF Has
  <1>4. ASSUME NEW d \in Ciphers, cipher' = [cipher EXCEPT ![used + 1] = d] PROVE FALSE
    <2>1. n # used + 1
      BY <1>0, <1>1 DEF Has
    <2>. QED BY <1>0, <1>1, <1>2, <1>4, <2>1 DEF Has, Copies
  <1>5. ASSUME NEW i \in Ids, Edit(i) PROVE FALSE
    <2>1. i # n
      BY <1>1, <1>5 DEF Edit, Has
    <2>. QED BY <1>0, <1>1, <1>2, <1>5, <2>1 DEF Edit, Has, Copies
  <1>6. ASSUME NEW p \in Clis, Purge(p) PROVE FALSE
    <2>1. cipher'[n] = cipher[n]
      BY <1>0, <1>1, <1>6 DEF Purge, Has
    <2>. QED BY <1>1, <1>2, <2>1 DEF Has
  <1>7. ASSUME NEW p \in Clis, Fill(p) PROVE FALSE
    <2>1. PICK o \in job[p].open, brought \in BOOLEAN :
            cipher' = [cipher EXCEPT ![o[1]].whole = @ \/ (o[2].whole /\ brought)]
      BY <1>7 DEF Fill
    <2>2. CASE o[1] # n
      BY <1>0, <1>1, <1>2, <2>1, <2>2 DEF Has, Copies
    <2>3. CASE o[1] = n
      <3>. DEFINE v == cipher[n].whole \/ (o[2].whole /\ brought)
      <3>1. cipher'[n] = [cipher[n] EXCEPT !.whole = v]
        BY <1>0, <2>1, <2>3 DEF Copies
      <3>2. cipher[n].whole => v
        OBVIOUS
      <3>3. v \in BOOLEAN
        OBVIOUS
      <3>. HIDE DEF v
      <3>4. cipher'[n] \in Ciphers /\ cipher'[n].item = cipher[n].item /\ cipher'[n].whole = v
        BY <1>0, <3>1, <3>3 DEF Ciphers
      <3>. QED BY <1>1, <1>2, <3>2, <3>4, NoEntryAssumption DEF Has
    <2>. QED BY <2>2, <2>3
  <1>8. ASSUME NEW p \in Clis, Remove(p) PROVE \E m \in Ids : m > k /\ Has(m, c, w)'
    <2>. DEFINE i == job[p].orig
    <2>1. /\ at[p] = "remove" /\ cipher[i] # NoEntry
          /\ cipher' = [cipher EXCEPT ![i] =
               IF job[p].kind = "trash" THEN [@ EXCEPT !.bin = TRUE] ELSE NoEntry]
          /\ gone' = gone
      BY <1>8 DEF Remove
    <2>2. \E e \in job[p].what : e.item = cipher[i].item /\ (cipher[i].whole => e.whole)
      <3>1. ~overtaken'
        BY DEF Excused
      <3>. QED BY <1>8, <3>1 DEF Remove
    <2>3. i = n
      BY <1>0, <1>1, <1>2, <2>1 DEF Has, Copies
    <2>4. Done(job[p]) /\ ~job[p].failed /\ job[p].kind \notin Mirrors
      BY <2>1, AtWork DEF JobInv
    <2>5. Ready(job[p], w)
      BY <2>1, <2>4 DEF Intact, Owned, Ready
    <2>6. PICK e \in job[p].what : e.item = c /\ (w => e.whole)
      BY <1>1, <2>2, <2>3 DEF Has
    <2>7. PICK m \in Ids : m > n /\ Has(m, c, w)
      BY <2>1, <2>3, <2>4, <2>5, <2>6 DEF Intact, Backed, Somewhere
    <2>8. m # n /\ m > k
      BY <1>1, <2>7, BoundAssumption DEF Ids
    <2>9. cipher'[m] = cipher[m]
      BY <1>0, <2>1, <2>3, <2>8 DEF Copies
    <2>. QED BY <2>7, <2>8, <2>9 DEF Has
  <1>. QED BY <1>3, <1>4, <1>5, <1>6, <1>7, <1>8, CipherSteps

LEMMA ContentsStay ==
  ASSUME MoveInv, [MoveNext]_moveVars, NEW w \in BOOLEAN, Intact(w), ~Excused(w)'
  PROVE  \A c \in 1..items' \ gone' : Somewhere(c, 0, w)'
  <1>. SUFFICES ASSUME NEW c \in 1..items' \ gone' PROVE Somewhere(c, 0, w)'
    OBVIOUS
  <1>0. /\ gone \subseteq gone' /\ items \in Nat /\ used \in Nat /\ cipher \in Copies
    BY MoveMonotone, AtWork, BoundAssumption DEF MoveInv, Counted, Stored
  <1>1. CASE c \in 1..items
    BY <1>0, <1>1, ContentStays DEF Intact
  <1>2. CASE c \notin 1..items
    <2>1. ASSUME NEW d \in Ciphers, used < MaxEntries, d.item = items + 1, d.whole,
                 items' = items + 1, cipher' = [cipher EXCEPT ![used + 1] = d]
          PROVE  Somewhere(c, 0, w)'
      <3>1. used + 1 \in Ids /\ used + 1 > 0 /\ c = items + 1
        BY <1>0, <1>2, <2>1, BoundAssumption DEF Ids
      <3>2. cipher'[used + 1] = d
        BY <1>0, <2>1, <3>1 DEF Copies
      <3>. QED BY <2>1, <3>1, <3>2, NoEntryAssumption DEF Somewhere, Has
    <2>2. ASSUME NEW i \in Ids, Edit(i) PROVE Somewhere(c, 0, w)'
      <3>. DEFINE d == [cipher[i] EXCEPT !.item = items + 1, !.whole = TRUE]
      <3>1. items' = items + 1 /\ cipher' = [cipher EXCEPT ![i] = d] /\ cipher[i] # NoEntry
            /\ changes > 0
        BY <2>2 DEF Edit
      <3>2. i > 0 /\ c = items + 1 /\ items + 1 \in Items
        BY <1>0, <1>2, <3>1, BoundAssumption DEF Ids, Items, MoveInv, Counted
      <3>3. cipher[i] \in Ciphers
        BY <1>0, <3>1 DEF Copies
      <3>4. d \in Ciphers /\ d.item = items + 1 /\ d.whole
        BY <3>2, <3>3 DEF Ciphers
      <3>5. cipher'[i] = d
        BY <1>0, <3>1 DEF Copies
      <3>. HIDE DEF d
      <3>. QED BY <3>2, <3>4, <3>5, NoEntryAssumption DEF Somewhere, Has
    <2>3. ASSUME NEW p \in Clis, Purge(p) \/ Fill(p) \/ Remove(p) PROVE items' = items
      BY <2>3 DEF Purge, Fill, Remove
    <2>. QED BY <1>2, <2>1, <2>2, <2>3, CipherSteps
  <1>. QED BY <1>1, <1>2

\* The content of an entry there was changes only if it is given up.
LEMMA ItemStays ==
  ASSUME MoveInv, [MoveNext]_moveVars, NEW n \in 1..used, cipher'[n] # NoEntry
  PROVE  /\ cipher[n] # NoEntry
         /\ cipher'[n].item = cipher[n].item \/ cipher[n].item \in gone'
  <1>0. /\ used \in Nat /\ cipher \in Copies /\ n \in Ids
    BY BoundAssumption DEF MoveInv, Stored, Ids
  <1>1. CASE UNCHANGED <<cipher, items, gone>>
    BY <1>1
  <1>2. ASSUME NEW d \in Ciphers, cipher' = [cipher EXCEPT ![used + 1] = d]
        PROVE  cipher'[n] = cipher[n]
    BY <1>0, <1>2 DEF Copies
  <1>3. ASSUME NEW i \in Ids, Edit(i)
        PROVE  /\ cipher[n] # NoEntry
               /\ cipher'[n] = cipher[n] \/ cipher[n].item \in gone'
    BY <1>0, <1>3 DEF Edit, Copies
  <1>4. ASSUME NEW p \in Clis, Purge(p) PROVE cipher'[n] = cipher[n]
    BY <1>0, <1>4 DEF Purge
  <1>5. ASSUME NEW p \in Clis, Fill(p)
        PROVE  cipher[n] # NoEntry /\ cipher'[n].item = cipher[n].item
    <2>1. PICK o \in job[p].open, brought \in BOOLEAN :
            /\ cipher[o[1]] # NoEntry
            /\ cipher' = [cipher EXCEPT ![o[1]].whole = @ \/ (o[2].whole /\ brought)]
      BY <1>5 DEF Fill
    <2>2. CASE o[1] # n
      BY <1>0, <2>1, <2>2 DEF Copies
    <2>3. CASE o[1] = n
      <3>. DEFINE v == cipher[n].whole \/ (o[2].whole /\ brought)
      <3>1. cipher'[n] = [cipher[n] EXCEPT !.whole = v]
        BY <1>0, <2>1, <2>3 DEF Copies
      <3>2. cipher[n] \in Ciphers
        BY <1>0, <2>1, <2>3 DEF Copies
      <3>. HIDE DEF v
      <3>. QED BY <2>1, <2>3, <3>1, <3>2 DEF Ciphers
    <2>. QED BY <2>2, <2>3
  <1>6. ASSUME NEW p \in Clis, Remove(p)
        PROVE  cipher[n] # NoEntry /\ cipher'[n].item = cipher[n].item
    <2>. DEFINE i == job[p].orig
    <2>1. /\ cipher[i] # NoEntry
          /\ cipher' = [cipher EXCEPT ![i] =
               IF job[p].kind = "trash" THEN [@ EXCEPT !.bin = TRUE] ELSE NoEntry]
      BY <1>6 DEF Remove
    <2>2. CASE i # n
      BY <1>0, <2>1, <2>2 DEF Copies
    <2>3. CASE i = n
      <3>1. cipher'[n] = [cipher[n] EXCEPT !.bin = TRUE] /\ cipher[n] \in Ciphers
        BY <1>0, <2>1, <2>3 DEF Copies
      <3>. QED BY <2>1, <2>3, <3>1 DEF Ciphers
    <2>. QED BY <2>2, <2>3
  <1>. QED BY <1>1, <1>2, <1>3, <1>4, <1>5, <1>6, CipherSteps

\* A command that stays where it is keeps what it has, and its backing.
LEMMA CommandStays ==
  ASSUME MoveInv, [MoveNext]_moveVars, NEW w \in BOOLEAN, Intact(w), ~Excused(w)',
         NEW q \in Clis, job'[q] = job[q],
         at'[q] = "remove" => at[q] = "remove" \/ job[q].mine # {}
  PROVE  Owned(q)' /\ Backed(q, w)'
  <1>0. /\ job[q] \in Jobs(used) /\ gone \subseteq gone' /\ Owned(q) /\ Backed(q, w)
    BY MoveMonotone, AtWork DEF Intact
  <1>1. ASSUME job[q].kind \notin Mirrors, NEW m \in job[q].mine,
               NEW e \in job[q].what, cipher'[m] # NoEntry
        PROVE  cipher'[m].item = e.item \/ e.item \in gone'
    <2>1. m \in 1..used
      BY <1>0 DEF Jobs
    <2>2. /\ cipher[m] # NoEntry
          /\ cipher'[m].item = cipher[m].item \/ cipher[m].item \in gone'
      BY <1>1, <2>1, ItemStays
    <2>. QED BY <1>0, <1>1, <2>2 DEF Owned
  <1>2. Owned(q)'
    BY <1>0, <1>1 DEF Owned
  <1>3. ASSUME job[q].kind \notin Mirrors, Ready(job[q], w), NEW e \in job[q].what,
               w => e.whole, e.item \notin gone'
        PROVE  Somewhere(e.item, job[q].orig, w)'
    <2>1. job[q].orig \in Nat
      BY <1>0, BoundAssumption DEF Jobs, Ids
    <2>2. Somewhere(e.item, job[q].orig, w)
      BY <1>0, <1>3 DEF Backed
    <2>. QED BY <1>3, <2>1, <2>2, ContentStays
  <1>4. Backed(q, w)'
    <2>1. Ready(job[q], w)' <=> Ready(job[q], w)
      BY DEF Ready, Done
    <2>. QED BY <1>3, <2>1 DEF Backed, Somewhere, Has
  <1>. QED BY <1>2, <1>4

\* A command that has made nothing yet.
LEMMA CommandFresh ==
  ASSUME NEW w \in BOOLEAN, NEW p \in Clis, job'[p].mine = {}, job'[p].open = {},
         at'[p] # "remove"
  PROVE  Owned(p)' /\ Backed(p, w)'
  BY DEF Owned, Backed, Ready

\* A command that goes on with its import, and may have made one more entry.
LEMMA CommandOwns ==
  ASSUME MoveInv, [MoveNext]_moveVars, NEW w \in BOOLEAN, Intact(w), ~Excused(w)',
         NEW p \in Clis, at'[p] = "import", job'[p].kind = job[p].kind,
         job'[p].what = job[p].what,
         \A o \in job'[p].open : o[1] \in job'[p].mine,
         \/ job'[p].mine = job[p].mine
         \/ /\ job'[p].mine = job[p].mine \union {used + 1} /\ used < MaxEntries
            /\ \E e \in job[p].what : cipher' = [cipher EXCEPT ![used + 1] = Copied(p, e)]
  PROVE  Owned(p)'
  <1>0. /\ job[p] \in Jobs(used) /\ gone \subseteq gone' /\ Owned(p)
        /\ used \in Nat /\ cipher \in Copies /\ JobInv(at[p], job[p], used)
    BY MoveMonotone, AtWork DEF Intact
  <1>1. ASSUME job[p].kind \notin Mirrors, NEW m \in job'[p].mine,
               NEW e \in job[p].what, cipher'[m] # NoEntry
        PROVE  cipher'[m].item = e.item \/ e.item \in gone'
    <2>1. CASE m \in job[p].mine
      <3>1. m \in 1..used
        BY <1>0, <2>1 DEF Jobs
      <3>2. /\ cipher[m] # NoEntry
            /\ cipher'[m].item = cipher[m].item \/ cipher[m].item \in gone'
        BY <1>1, <3>1, ItemStays
      <3>. QED BY <1>0, <1>1, <2>1, <3>2 DEF Owned
    <2>2. CASE m \notin job[p].mine
      <3>1. PICK f \in job[p].what :
              m = used + 1 /\ cipher' = [cipher EXCEPT ![used + 1] = Copied(p, f)]
                /\ used < MaxEntries
        BY <1>1, <2>2
      <3>2. f = e
        BY <1>0, <1>1 DEF JobInv
      <3>3. used + 1 \in Ids
        BY <1>0, <3>1, BoundAssumption DEF Ids
      <3>4. cipher'[m] = Copied(p, e)
        BY <1>0, <3>1, <3>2, <3>3 DEF Copies
      <3>. QED BY <3>4 DEF Copied
    <2>. QED BY <2>1, <2>2
  <1>. QED BY <1>1 DEF Owned

LEMMA CommandBacked ==
  ASSUME MoveInv, [MoveNext]_moveVars, NEW w \in BOOLEAN, Intact(w), ~Excused(w)',
         NEW p \in Clis, at[p] = "import", job'[p].kind = job[p].kind,
         job'[p].what = job[p].what, job'[p].orig = job[p].orig,
         w => ~Done(job'[p]) \/ job'[p].failed,
         \/ job'[p].mine = job[p].mine
         \/ /\ job'[p].mine = job[p].mine \union {used + 1} /\ used < MaxEntries
            /\ \E e \in job[p].what : cipher' = [cipher EXCEPT ![used + 1] = Copied(p, e)]
  PROVE  Backed(p, w)'
  <1>0. /\ job[p] \in Jobs(used) /\ gone \subseteq gone' /\ Backed(p, w)
        /\ used \in Nat /\ cipher \in Copies /\ JobInv(at[p], job[p], used)
    BY MoveMonotone, AtWork DEF Intact
  <1>1. CASE w
    BY <1>1 DEF Backed, Ready
  <1>2. CASE ~w
    <2>1. ASSUME job[p].kind \notin Mirrors, job'[p].mine # {}, NEW e \in job[p].what,
                 e.item \notin gone'
          PROVE  Somewhere(e.item, job[p].orig, w)'
      <3>1. job[p].orig \in Nat
        BY <1>0, BoundAssumption DEF Jobs, Ids
      <3>2. CASE job'[p].mine = job[p].mine
        <4>1. Somewhere(e.item, job[p].orig, w)
          BY <1>0, <1>2, <2>1, <3>2 DEF Backed, Ready
        <4>. QED BY <2>1, <3>1, <4>1, ContentStays
      <3>3. CASE job'[p].mine # job[p].mine
        <4>1. PICK f \in job[p].what :
                cipher' = [cipher EXCEPT ![used + 1] = Copied(p, f)] /\ used < MaxEntries
          BY <3>3
        <4>2. f = e /\ job[p].orig <= used
          BY <1>0, <2>1 DEF JobInv
        <4>3. used + 1 \in Ids /\ used + 1 > job[p].orig
          BY <1>0, <3>1, <4>1, <4>2, BoundAssumption DEF Ids
        <4>4. cipher'[used + 1] = Copied(p, e)
          BY <1>0, <4>1, <4>2, <4>3 DEF Copies
        <4>5. Copied(p, e) \in Ciphers
          BY CopiedTyped
        <4>6. Copied(p, e).item = e.item
          BY DEF Copied
        <4>7. PICK n \in Ids : n = used + 1
          BY <4>3
        <4>8. Has(n, e.item, w)'
          BY <1>2, <4>4, <4>5, <4>6, <4>7, NoEntryAssumption DEF Has
        <4>. QED BY <4>3, <4>7, <4>8 DEF Somewhere
      <3>. QED BY <3>2, <3>3
    <2>. QED BY <1>2, <2>1 DEF Backed, Ready
  <1>. QED BY <1>1, <1>2

\* A command begins, gets to its import, or is over.
LEMMA CommandPrepares ==
  ASSUME MoveInv, [MoveNext]_moveVars, NEW w \in BOOLEAN, Intact(w), ~Excused(w)',
         NEW p \in Clis,
         \/ Begin(p) \/ Snapshot(p) \/ Purge(p) \/ Index(p)
         \/ Remove(p) \/ RemoveFails(p) \/ Dies(p)
  PROVE  Owned(p)' /\ Backed(p, w)'
  <1>0. /\ at \in [Clis -> MoveSteps] /\ job \in [Clis -> Jobs(used)]
        /\ JobInv(at[p], job[p], used)
    BY DEF MoveInv, Working
  <1>1. ASSUME Begin(p)
        PROVE  job'[p].mine = {} /\ job'[p].open = {} /\ at'[p] # "remove"
    <2>1. ASSUME NEW i \in Ids, Move(p, i)
          PROVE  \E j : j.mine = {} /\ j.open = {} /\ Set(p, j) /\ Proceeds(p, "snapshot")
      BY <2>1 DEF Move, NoJob
    <2>2. ASSUME NEW i \in Ids, Personal(p, i)
          PROVE  \E j : j.mine = {} /\ j.open = {} /\ Set(p, j) /\ Proceeds(p, "import")
      BY <2>2 DEF Personal, NoJob
    <2>3. ASSUME Mirror(p)
          PROVE  \E j : /\ j.mine = {} /\ j.open = {} /\ Set(p, j)
                        /\ Proceeds(p, "purge") \/ Proceeds(p, "index")
      BY <2>3 DEF Mirror, NoJob
    <2>4. \E j : /\ j.mine = {} /\ j.open = {} /\ Set(p, j)
                 /\ \E s \in MoveSteps \ {"remove"} : Proceeds(p, s)
      BY <1>1, <2>1, <2>2, <2>3 DEF Begin, MoveSteps
    <2>. QED BY <1>0, <2>4 DEF Set, Proceeds
  <1>2. ASSUME Snapshot(p)
        PROVE  job'[p].mine = {} /\ job'[p].open = {} /\ at'[p] # "remove"
    <2>1. job[p].mine = {} /\ job[p].open = {}
      BY <1>0, <1>2 DEF Snapshot, JobInv, Done
    <2>. QED BY <1>0, <1>2, <2>1 DEF Snapshot, Set, Proceeds, Jobs
  <1>3. ASSUME Index(p)
        PROVE  job'[p].mine = {} /\ job'[p].open = {} /\ at'[p] # "remove"
    <2>1. job[p].mine = {} /\ job[p].open = {}
      BY <1>0, <1>3, ZenonT(40) DEF Index, JobInv, Done
    <2>2. \E b, a, c : /\ Set(p, [job[p] EXCEPT !.base = b, !.alone = a, !.bulk = c])
                       /\ Proceeds(p, "import")
      BY <1>3 DEF Index
    <2>3. PICK b, a, c : /\ job' = [job EXCEPT ![p] =
                                     [job[p] EXCEPT !.base = b, !.alone = a, !.bulk = c]]
                        /\ Proceeds(p, "import")
      BY <2>2 DEF Set
    <2>4. job'[p] = [job[p] EXCEPT !.base = b, !.alone = a, !.bulk = c]
      BY <1>0, <2>3
    <2>. QED BY <1>0, <2>1, <2>3, <2>4, SMTT(40) DEF Proceeds, Jobs
  <1>4. ASSUME Remove(p) \/ RemoveFails(p) \/ Dies(p)
        PROVE  job'[p].mine = {} /\ job'[p].open = {} /\ at'[p] # "remove"
    <2>1. Stop(p)
      BY <1>4 DEF Remove, RemoveFails, Dies
    <2>. QED BY <1>0, <2>1 DEF Stop, Set, Proceeds, NoJob
  <1>5. ASSUME Purge(p) PROVE job'[p] = job[p] /\ at'[p] # "remove"
    BY <1>0, <1>5 DEF Purge, Proceeds
  <1>. QED BY <1>1, <1>2, <1>3, <1>4, <1>5, CommandFresh, CommandStays

\* A command goes over to its original only with an entry of its own: those
\* of another would be a mistake.
LEMMA CommandChecks ==
  ASSUME MoveInv, [MoveNext]_moveVars, NEW w \in BOOLEAN, Intact(w), ~Excused(w)',
         NEW p \in Clis, Imported(p) \/ Check(p)
  PROVE  Owned(p)' /\ Backed(p, w)'
  <1>0. /\ at \in [Clis -> MoveSteps] /\ job \in [Clis -> Jobs(used)]
        /\ JobInv(at[p], job[p], used)
    BY DEF MoveInv, Working
  <1>1. CASE Stop(p)
    <2>1. job'[p].mine = {} /\ job'[p].open = {} /\ at'[p] # "remove"
      BY <1>0, <1>1 DEF Stop, Set, Proceeds, NoJob
    <2>. QED BY <2>1, CommandFresh
  <1>2. CASE Check(p) /\ ~Stop(p)
    <2>1. job'[p] = job[p] /\ Gained(p) # {} /\ mistaken' = (mistaken \/ Mistakes(p))
      BY <1>2 DEF Check
    <2>2. job[p].mine # {}
      BY <2>1 DEF Excused, Mistakes
    <2>. QED BY <2>1, <2>2, CommandStays
  <1>3. CASE Imported(p) /\ ~Stop(p)
    <2>1. /\ job'[p] = job[p] /\ at[p] = "import" /\ job[p].alone = {}
          /\ job[p].kind = "personal" \/ at'[p] = "check"
      BY <1>0, <1>3 DEF Imported, Proceeds, Settled
    <2>2. job[p].kind = "personal" => job[p].mine # {}
      BY <1>0, <2>1 DEF JobInv
    <2>3. at'[p] = "remove" => at[p] = "remove" \/ job[p].mine # {}
      BY <2>1, <2>2
    <2>. QED BY <2>1, <2>3, CommandStays
  <1>. QED BY <1>1, <1>2, <1>3

\* Entries are made: in bulk, and one by one. Until nothing is left to do, a
\* copy need not be whole.
LEMMA CommandMakes ==
  ASSUME MoveInv, [MoveNext]_moveVars, NEW w \in BOOLEAN, Intact(w), ~Excused(w)',
         NEW p \in Clis, BulkOne(p) \/ BulkFails(p) \/ AddOne(p) \/ AddFails(p)
  PROVE  Owned(p)' /\ Backed(p, w)'
  <1>0. /\ at \in [Clis -> MoveSteps] /\ job \in [Clis -> Jobs(used)] /\ used \in Nat
        /\ JobInv(at[p], job[p], used) /\ Owned(p) /\ job[p] \in Jobs(used)
    BY AtWork DEF MoveInv, Working, Intact
  <1>. DEFINE Goes ==
         /\ at[p] = "import" /\ at'[p] = "import" /\ job'[p].kind = job[p].kind
         /\ job'[p].what = job[p].what /\ job'[p].orig = job[p].orig
         /\ w => ~Done(job'[p]) \/ job'[p].failed
         /\ \A o \in job'[p].open : o[1] \in job'[p].mine
         /\ \/ job'[p].mine = job[p].mine
            \/ /\ job'[p].mine = job[p].mine \union {used + 1} /\ used < MaxEntries
               /\ \E e \in job[p].what :
                    cipher' = [cipher EXCEPT ![used + 1] = Copied(p, e)]
  <1>1. ASSUME BulkOne(p) PROVE Goes
    <2>. DEFINE Part(e) == [job[p] EXCEPT !.bulk = @ \ {e}, !.sent = @ \union {e}]
    <2>1. PICK e \in job[p].bulk :
            /\ at[p] = "import" /\ at' = at /\ job[p].open = {}
            /\ \/ /\ used < MaxEntries
                  /\ cipher' = [cipher EXCEPT ![used + 1] = Copied(p, e)]
                  /\ Set(p, [Part(e) EXCEPT !.mine = @ \union {used + 1}])
               \/ Set(p, Part(e))
      BY <1>1 DEF BulkOne, Settled
    <2>2. e \in job[p].what
      BY <1>0, <2>1 DEF JobInv
    <2>. DEFINE j == Part(e)
                k == [j EXCEPT !.mine = @ \union {used + 1}]
    <2>3. /\ j.kind = job[p].kind /\ j.what = job[p].what /\ j.orig = job[p].orig
          /\ j.open = {} /\ e \in j.sent /\ j.mine = job[p].mine
      BY <1>0, <2>1 DEF Jobs
    <2>4. /\ k.kind = job[p].kind /\ k.what = job[p].what /\ k.orig = job[p].orig
          /\ k.open = {} /\ e \in k.sent /\ k.mine = job[p].mine \union {used + 1}
      BY <1>0, <2>1 DEF Jobs
    <2>5. \/ /\ used < MaxEntries /\ job'[p] = k
             /\ cipher' = [cipher EXCEPT ![used + 1] = Copied(p, e)]
          \/ job'[p] = j
      BY <1>0, <2>1 DEF Set
    <2>. HIDE DEF j, k
    <2>. QED BY <2>1, <2>2, <2>3, <2>4, <2>5, SMTT(40) DEF Done
  <1>2. ASSUME BulkFails(p) PROVE Goes
    <2>1. /\ job[p].bulk \union job[p].sent # {} /\ at[p] = "import" /\ at' = at
          /\ job[p].open = {}
          /\ Set(p, [job[p] EXCEPT !.bulk = {}, !.sent = {},
                                   !.alone = job[p].bulk \union job[p].sent])
      BY <1>2 DEF BulkFails, Settled
    <2>2. /\ job'[p].kind = job[p].kind /\ job'[p].what = job[p].what
          /\ job'[p].orig = job[p].orig /\ job'[p].open = {}
          /\ job'[p].mine = job[p].mine /\ job'[p].alone # {}
      BY <1>0, <2>1 DEF Set, Jobs
    <2>. QED BY <2>1, <2>2 DEF Done
  <1>3. ASSUME AddOne(p) PROVE Goes
    <2>1. PICK e \in job[p].alone :
            /\ at[p] = "import" /\ at' = at /\ used < MaxEntries
            /\ cipher' = [cipher EXCEPT ![used + 1] = Copied(p, e)]
            /\ Set(p, [job[p] EXCEPT !.alone = @ \ {e}, !.open = {<<used + 1, e>>},
                                     !.mine = @ \union {used + 1}])
      BY <1>3 DEF AddOne
    <2>2. e \in job[p].what
      BY <1>0, <2>1 DEF JobInv
    <2>3. /\ job'[p].kind = job[p].kind /\ job'[p].what = job[p].what
          /\ job'[p].orig = job[p].orig /\ job'[p].open = {<<used + 1, e>>}
          /\ job'[p].mine = job[p].mine \union {used + 1}
      BY <1>0, <2>1 DEF Set, Jobs
    <2>4. \A o \in job'[p].open : o[1] \in job'[p].mine
      BY <2>3
    <2>. QED BY <2>1, <2>2, <2>3, <2>4 DEF Done
  <1>4. ASSUME AddFails(p), ~Stop(p) PROVE Goes
    <2>1. PICK e \in job[p].alone, lost \in BOOLEAN :
            /\ at[p] = "import" /\ at' = at /\ job[p].open = {}
            /\ lost => /\ used < MaxEntries
                       /\ cipher' = [cipher EXCEPT ![used + 1] = Copied(p, e)]
            /\ Set(p, [job[p] EXCEPT !.alone = @ \ {e}, !.mine =
                         IF lost THEN @ \union {used + 1} ELSE @, !.failed = TRUE])
      BY <1>4 DEF AddFails
    <2>2. e \in job[p].what
      BY <1>0, <2>1 DEF JobInv
    <2>3. /\ job'[p].kind = job[p].kind /\ job'[p].what = job[p].what
          /\ job'[p].orig = job[p].orig /\ job'[p].open = {}
          /\ job'[p].mine = IF lost THEN job[p].mine \union {used + 1} ELSE job[p].mine
          /\ job'[p].failed
      BY <1>0, <2>1 DEF Set, Jobs
    <2>. QED BY <1>0, <2>1, <2>2, <2>3
  <1>5. CASE Stop(p)
    <2>1. job'[p].mine = {} /\ job'[p].open = {} /\ at'[p] # "remove"
      BY <1>0, <1>5 DEF Stop, Set, Proceeds, NoJob
    <2>. QED BY <2>1, CommandFresh
  <1>6. ASSUME Goes PROVE Owned(p)' /\ Backed(p, w)'
    BY <1>6, CommandOwns, CommandBacked
  <1>. QED BY <1>1, <1>2, <1>3, <1>4, <1>5, <1>6

\* What a bulk request made is found again, and every entry of it is then
\* either to be filled or to be made by itself.
LEMMA CommandFinds ==
  ASSUME MoveInv, [MoveNext]_moveVars, NEW w \in BOOLEAN, Intact(w), ~Excused(w)',
         NEW p \in Clis, BulkDone(p)
  PROVE  Owned(p)' /\ Backed(p, w)'
  <1>0. /\ at \in [Clis -> MoveSteps] /\ job \in [Clis -> Jobs(used)]
        /\ job[p] \in Jobs(used)
    BY AtWork, SMTT(40) DEF MoveInv, Working
  <1>. DEFINE new == Present(Held(job[p].to)) \ job[p].base
              named(u) == {i \in new : cipher[i].user = u}
              opens(f) == {o \in f \X job[p].sent : o[2].user = cipher[o[1]].user}
              alones == {e \in job[p].sent : named(e.user) = {}}
  <1>1. PICK found \in SUBSET new :
          /\ at[p] = "import" /\ job[p].sent # {}
          /\ \A e \in job[p].sent : Cardinality(found \cap named(e.user)) =
                                      IF named(e.user) = {} THEN 0 ELSE 1
          /\ Set(p, [job[p] EXCEPT !.sent = {}, !.open = opens(found), !.alone = alones])
          /\ mistaken' = (mistaken \/ ~(found \subseteq job[p].mine))
          /\ at' = at
    BY DEF BulkDone
  <1>. DEFINE os == opens(found)
  <1>2. /\ job'[p].kind = job[p].kind /\ job'[p].what = job[p].what
        /\ job'[p].orig = job[p].orig /\ job'[p].mine = job[p].mine
        /\ job'[p].open = os /\ job'[p].alone = alones
    <2>1. job' = [job EXCEPT ![p] = [job[p] EXCEPT !.sent = {}, !.open = os, !.alone = alones]]
      BY <1>1 DEF Set
    <2>. HIDE DEF os, alones
    <2>. QED BY <1>0, <2>1 DEF Jobs
  <1>3. \A o \in os : o[1] \in job'[p].mine
    <2>1. found \subseteq job[p].mine
      BY <1>1 DEF Excused
    <2>2. \A o \in os : o[1] \in found
      OBVIOUS
    <2>. QED BY <1>2, <2>1, <2>2
  <1>4. alones # {} \/ os # {}
    <2>1. PICK e \in job[p].sent : TRUE
      BY <1>1
    <2>2. CASE named(e.user) = {}
      BY <2>1, <2>2
    <2>3. CASE named(e.user) # {}
      <3>1. Cardinality(found \cap named(e.user)) = 1
        BY <1>1, <2>3
      <3>2. found \cap named(e.user) # {}
        <4>1. Cardinality({}) = 0
          BY FS_EmptySet
        <4>2. SUFFICES ASSUME found \cap named(e.user) = {} PROVE FALSE
          OBVIOUS
        <4>. HIDE DEF named
        <4>. QED BY <3>1, <4>1, <4>2
      <3>3. PICK i \in found : cipher[i].user = e.user
        BY <3>2
      <3>4. <<i, e>> \in found \X job[p].sent
        BY <2>1
      <3>. QED BY <3>3, <3>4
    <2>. QED BY <2>2, <2>3
  <1>. HIDE DEF os, alones
  <1>5. ~Done(job'[p])
    BY <1>2, <1>4 DEF Done
  <1>6. at'[p] = "import" /\ at[p] = "import"
    BY <1>1
  <1>7. \A o \in job'[p].open : o[1] \in job'[p].mine
    BY <1>2, <1>3
  <1>. QED BY <1>2, <1>5, <1>6, <1>7, CommandOwns, CommandBacked

\* The copy a command fills is newer than its original, and has the content
\* unless that was given up.
LEMMA CommandFills ==
  ASSUME MoveInv, [MoveNext]_moveVars, NEW w \in BOOLEAN, Intact(w), ~Excused(w)',
         NEW p \in Clis, Fill(p) \/ FillFails(p) \/ AttachFails(p)
  PROVE  Owned(p)' /\ Backed(p, w)'
  <1>0. /\ at \in [Clis -> MoveSteps] /\ job \in [Clis -> Jobs(used)]
        /\ job[p] \in Jobs(used) /\ JobInv(at[p], job[p], used) /\ Owned(p)
        /\ used \in Nat /\ cipher \in Copies
    BY AtWork DEF MoveInv, Working, Intact
  <1>1. CASE Stop(p)
    <2>1. job'[p].mine = {} /\ job'[p].open = {} /\ at'[p] # "remove"
      BY <1>0, <1>1 DEF Stop, Set, Proceeds, NoJob
    <2>. QED BY <2>1, CommandFresh
  <1>2. CASE ~Stop(p)
    <2>1. PICK o \in job[p].open, brought \in BOOLEAN :
            /\ at[p] = "import" /\ at' = at
            /\ brought \/ job[p].kind \in Mirrors
            /\ \/ Set(p, [job[p] EXCEPT !.open = @ \ {o}, !.failed = TRUE])
               \/ Set(p, [job[p] EXCEPT !.open = @ \ {o}]) /\ AttachFails(p)
               \/ /\ Set(p, [job[p] EXCEPT !.open = @ \ {o}])
                  /\ cipher[o[1]] # NoEntry
                  /\ cipher' = [cipher EXCEPT ![o[1]].whole =
                                  @ \/ (o[2].whole /\ brought)]
      <3>1. CASE Fill(p)
        BY <3>1 DEF Fill, Mirrors
      <3>2. CASE FillFails(p) \/ AttachFails(p)
        <4>1. PICK o \in job[p].open :
                /\ at[p] = "import" /\ at' = at
                /\ \/ Set(p, [job[p] EXCEPT !.open = @ \ {o}, !.failed = TRUE])
                   \/ Set(p, [job[p] EXCEPT !.open = @ \ {o}]) /\ AttachFails(p)
          BY <1>2, <3>2 DEF FillFails, AttachFails
        <4>. QED BY <4>1
      <3>. QED BY <3>1, <3>2
    <2>2. /\ job'[p].kind = job[p].kind /\ job'[p].what = job[p].what
          /\ job'[p].orig = job[p].orig /\ job'[p].mine = job[p].mine
          /\ job'[p].open = job[p].open \ {o}
      <3>1. \/ job'[p] = [job[p] EXCEPT !.open = @ \ {o}, !.failed = TRUE]
            \/ job'[p] = [job[p] EXCEPT !.open = @ \ {o}]
        BY <1>0, <2>1 DEF Set
      <3>. QED BY <1>0, <3>1 DEF Jobs
    <2>3. /\ at'[p] = "import"
          /\ \A q \in job'[p].open : q[1] \in job'[p].mine
      BY <1>0, <2>1, <2>2 DEF Owned
    <2>4. Owned(p)'
      BY <2>2, <2>3, CommandOwns
    <2>5. CASE w => ~Done(job'[p]) \/ job'[p].failed
      BY <2>1, <2>2, <2>4, <2>5, CommandBacked
    <2>6. CASE w /\ Done(job'[p]) /\ ~job'[p].failed
      <3>1. /\ cipher[o[1]] # NoEntry
            /\ cipher' = [cipher EXCEPT ![o[1]].whole = @ \/ (o[2].whole /\ brought)]
        <4>1. ~AttachFails(p)
          BY <2>6 DEF AttachFails, Excused
        <4>2. Set(p, [job[p] EXCEPT !.open = @ \ {o}, !.failed = TRUE]) => job'[p].failed
          BY <1>0 DEF Set, Jobs
        <4>. QED BY <2>1, <2>6, <4>1, <4>2
      <3>2. o[1] \in job[p].mine /\ o[1] \in Ids /\ o[2] \in job[p].what
        <4>1. o[1] \in job[p].mine /\ o[2] \in job[p].what
          BY <1>0, <2>1 DEF Owned, JobInv
        <4>2. o[1] \in 1..used
          BY <1>0, <4>1 DEF Jobs
        <4>. QED BY <4>1, <4>2, <1>0, BoundAssumption DEF MoveInv, Stored, Ids
      <3>. DEFINE v == cipher[o[1]].whole \/ (o[2].whole /\ brought)
      <3>3. cipher'[o[1]] = [cipher[o[1]] EXCEPT !.whole = v] /\ cipher[o[1]] \in Ciphers
        BY <1>0, <3>1, <3>2 DEF Copies
      <3>4. o[2].whole /\ job[p].kind \notin Mirrors => v
        BY <2>1
      <3>5. v \in BOOLEAN
        OBVIOUS
      <3>. HIDE DEF v
      <3>6. /\ cipher'[o[1]] \in Ciphers /\ cipher'[o[1]].item = cipher[o[1]].item
            /\ cipher'[o[1]].whole = v
        BY <3>3, <3>5 DEF Ciphers
      <3>7. ASSUME job[p].kind \notin Mirrors, NEW e \in job[p].what, e.whole,
                   e.item \notin gone'
            PROVE  \E n \in Ids : n > job[p].orig /\ Has(n, e.item, w)'
        <4>1. o[2] = e /\ o[1] > job[p].orig
          <5>1. o[2] = e /\ job[p].orig < o[1]
            BY <1>0, <3>2, <3>7 DEF JobInv
          <5>2. o[1] \in Nat /\ job[p].orig \in Nat
            BY <1>0, <3>2, BoundAssumption DEF Jobs, Ids
          <5>. QED BY <5>1, <5>2
        <4>2. e.item \notin gone
          BY <3>7, MoveMonotone
        <4>3. cipher[o[1]].item = e.item
          BY <1>0, <3>1, <3>2, <3>7, <4>2 DEF Owned
        <4>4. cipher'[o[1]] # NoEntry /\ cipher'[o[1]].whole /\ cipher'[o[1]].item = e.item
          BY <3>4, <3>6, <3>7, <4>1, <4>3, NoEntryAssumption
        <4>5. PICK n \in Ids : n = o[1]
          BY <3>2
        <4>6. Has(n, e.item, w)'
          BY <4>4, <4>5 DEF Has
        <4>. QED BY <4>1, <4>5, <4>6
      <3>8. Backed(p, w)'
        BY <2>2, <2>6, <3>7 DEF Backed, Somewhere
      <3>. QED BY <2>4, <3>8
    <2>. QED BY <2>5, <2>6
  <1>. QED BY <1>1, <1>2

\* Every step keeps every content, and the backing of every command.
LEMMA KeepsNext ==
  ASSUME MoveInv, [MoveNext]_moveVars, NEW w \in BOOLEAN, Keeps(w)
  PROVE  Keeps(w)'
  <1>. SUFFICES ASSUME ~Excused(w)' PROVE Intact(w)'
    BY DEF Keeps
  <1>1. Intact(w)
    BY MoveMonotone DEF Keeps
  <1>0. /\ at \in [Clis -> MoveSteps] /\ job \in [Clis -> Jobs(used)]
    BY DEF MoveInv, Working
  <1>2. \A c \in 1..items' \ gone' : Somewhere(c, 0, w)'
    BY <1>1, ContentsStay
  <1>3. ASSUME NEW q \in Clis PROVE Owned(q)' /\ Backed(q, w)'
    <2>1. CASE Begin(q) \/ Import(q) \/ Dispose(q) \/ Dies(q)
      BY <1>1, <2>1, CommandPrepares, CommandChecks, CommandMakes, CommandFinds,
         CommandFills, SMTT(40) DEF Import, Dispose
    <2>2. ASSUME NEW p \in Clis, p # q,
                 \/ Begin(p) \/ Snapshot(p) \/ Purge(p) \/ Index(p) \/ BulkOne(p)
                 \/ BulkFails(p) \/ AddOne(p) \/ AddFails(p)
          PROVE  job'[q] = job[q] /\ at'[q] = at[q]
      BY <1>0, <2>2, ZenonT(40) DEF Begin, Move, Mirror, Personal, Snapshot, Purge, Index, BulkOne,
         BulkFails, AddOne, AddFails, Set, Proceeds, Stop
    <2>3. ASSUME NEW p \in Clis, p # q,
                 \/ BulkDone(p) \/ Fill(p) \/ FillFails(p) \/ AttachFails(p)
                 \/ Imported(p) \/ Check(p) \/ Remove(p) \/ RemoveFails(p) \/ Dies(p)
          PROVE  job'[q] = job[q] /\ at'[q] = at[q]
      BY <1>0, <2>3 DEF BulkDone, Fill, FillFails, AttachFails, Imported, Check, Remove, RemoveFails,
         Dies, Set, Proceeds, Stop
    <2>4. ASSUME \/ \E a \in Vaults : SyncVault(a) \/ \E u \in Users : Create(a, u)
                 \/ \E i \in Ids : Edit(i)
                 \/ UNCHANGED moveVars
          PROVE  job'[q] = job[q] /\ at'[q] = at[q]
      BY <2>4 DEF SyncVault, Create, Edit, moveVars
    <2>5. CASE job'[q] = job[q] /\ at'[q] = at[q]
      BY <1>1, <2>5, CommandStays
    <2>. QED BY <2>1, <2>2, <2>3, <2>4, <2>5 DEF MoveNext, Import, Dispose
  <1>. QED BY <1>2, <1>3 DEF Intact

LEMMA KeepsInvariant == MoveSpec => [](Keeps(FALSE) /\ Keeps(TRUE))
  <1>1. MoveInit => Keeps(FALSE) /\ Keeps(TRUE)
    BY KeepsInit
  <1>2. MoveInv /\ Keeps(FALSE) /\ Keeps(TRUE) /\ [MoveNext]_moveVars
          => Keeps(FALSE)' /\ Keeps(TRUE)'
    BY KeepsNext
  <1>. QED BY <1>1, <1>2, MoveInvInvariant, PTL DEF MoveSpec

\* Whatever fails or is killed, and however commands meet, a content is in
\* some entry until its user gives it up; the copy that was found was not the
\* command's, or the original had been changed since it was read, else.
THEOREM NothingIsLost == MoveSpec => []NothingLost
  <1>1. Keeps(FALSE) => NothingLost
    <2>. SUFFICES ASSUME Keeps(FALSE), ~mistaken, ~overtaken PROVE NothingLost
      BY Zenon DEF NothingLost
    <2>1. Intact(FALSE)
      BY DEF Keeps, Excused
    <2>2. ASSUME NEW c, Somewhere(c, 0, FALSE)
          PROVE  \E i \in Ids : cipher[i] # NoEntry /\ cipher[i].item = c
      BY <2>2 DEF Somewhere, Has
    <2>. QED BY <2>1, <2>2, Zenon DEF Intact, NothingLost
  <1>. QED BY <1>1, KeepsInvariant, PTL

\* Unless an upload of attachments failed, each content is in an entry with
\* all its fields, history and attachments, also when the server dropped
\* entries of a bulk request, an answer was lost, or a command failed or was
\* killed (import_cmds.rs, collection_cmds.rs).
THEOREM CopiesStayWhole == MoveSpec => []CopiesAreWhole
  <1>1. Keeps(TRUE) => CopiesAreWhole
    <2>. SUFFICES ASSUME Keeps(TRUE), ~mistaken, ~overtaken, ~partial PROVE CopiesAreWhole
      BY Zenon DEF CopiesAreWhole
    <2>1. Intact(TRUE)
      BY DEF Keeps, Excused
    <2>2. ASSUME NEW c, Somewhere(c, 0, TRUE)
          PROVE  \E i \in Ids : cipher[i] # NoEntry /\ cipher[i].item = c /\ cipher[i].whole
      BY <2>2 DEF Somewhere, Has
    <2>. QED BY <2>1, <2>2, Zenon DEF Intact, CopiesAreWhole
  <1>. QED BY <1>1, KeepsInvariant, PTL

-----------------------------------------------------------------------------
(* The counter of a passkey.                                               *)

\* What a step of a process may change of its own. A process at s holds the
\* kind k; r is what it reserves or writes, e what it read, and c the counter
\* of its virtual authenticator.
Placed(s, k, r, e, c) ==
  /\ s \in {"lock", "reselect", "reserve"} => k \in Signers
  /\ s \in {"ready", "asserted", "left"} => k = "inject"
  /\ s = "sign" => k \in {"assert", "browser"}
  /\ s = "select" => k \notin Editors
  /\ s \in {"open", "edit", "reopen", "sync"} => k \in Editors
  /\ s = "confirm" => k \notin Editors \union {"browser"}
  /\ s \in {"write", "confirm", "ready"} /\ k \in Signers => r > 0
  /\ s \in {"write", "confirm", "ready"} /\ k = "inject" => c + 1 = r
  /\ s = "write" => /\ k \in Signers => r = e.counter + 1
                    /\ k \in {"set", "final"} => r >= e.counter

PlaceOf(p) == Placed(pc[p], kind[p], res[p], sel[p], count[p])

\* An entry that was read is outdated, or what the server has.
ReadFrom(e, s) == e.rev <= s.rev /\ (e.rev = s.rev => e = s)

\* Whoever signs holds the lock of its device from the moment it reads.
Holding == {"reselect", "reserve", "write", "confirm", "sign", "ready"}
Holds(p) == kind[p] \in Signers /\ pc[p] \in Holding => lock[DeviceOf[p]] = p

\* The server has taken the counter of p, and p has not signed it yet.
Claims(p) ==
  /\ kind[p] \in Signers /\ pc[p] \in {"confirm", "sign", "ready"}
  /\ res[p] # 0 /\ res[p] \notin loose

Claimed ==
  /\ \A p \in Procs : Claims(p) =>
       /\ res[p] <= server.counter /\ sigs[res[p]] = 0
       /\ last[DeviceOf[p]] < res[p]
  /\ \A p, q \in Procs : p # q /\ Claims(p) /\ Claims(q) => res[p] # res[q]

KeyInv ==
  /\ PasskeyTypeOK
  /\ \A p \in Procs : PlaceOf(p) /\ Holds(p) /\ ReadFrom(sel[p], server)
  /\ \A d \in Devices :
       ReadFrom(local[d], server) /\ (last[d] = 0 \/ last[d] <= server.counter)
  /\ ReadFrom(NewEntry, server)
  /\ Claimed
  /\ CountersAreReserved

LEMMA KeyInvInit == PasskeyInit => KeyInv
  <1>. SUFFICES ASSUME PasskeyInit PROVE KeyInv
    OBVIOUS
  <1>1. 0 \in Counters /\ NewEntry \in Entries /\ NewEntry.rev = 0 /\ NewEntry.counter = 0
    BY CounterAssumption DEF Counters, StoredCounters, NewEntry, Entries
  <1>2. PasskeyTypeOK
    BY <1>1, BudgetAssumption DEF PasskeyInit, PasskeyTypeOK, Steps, Kinds, Editors
  <1>3. \A p \in Procs : PlaceOf(p) /\ Holds(p) /\ ReadFrom(sel[p], server)
    BY <1>1 DEF PasskeyInit, PlaceOf, Placed, Holds, Holding, ReadFrom
  <1>4. \A d \in Devices :
          ReadFrom(local[d], server) /\ (last[d] = 0 \/ last[d] <= server.counter)
    BY <1>1 DEF PasskeyInit, ReadFrom
  <1>7. ReadFrom(NewEntry, server)
    BY <1>1 DEF PasskeyInit, ReadFrom
  <1>5. Claimed
    BY DEF PasskeyInit, Claimed, Claims
  <1>6. CountersAreReserved
    BY DEF PasskeyInit, CountersAreReserved
  <1>. QED BY <1>2, <1>3, <1>4, <1>5, <1>6, <1>7 DEF KeyInv

\* The values of a process have their types.
LEMMA ProcTyped ==
  ASSUME PasskeyTypeOK, NEW p \in Procs
  PROVE  /\ pc[p] \in Steps /\ kind[p] \in Kinds \union {"final"} /\ sel[p] \in Entries
         /\ sel[p].rev \in Nat /\ sel[p].counter \in StoredCounters
         /\ res[p] \in Counters /\ count[p] \in Counters /\ DeviceOf[p] \in Devices
         /\ local[DeviceOf[p]] \in Entries /\ Counters \subseteq Nat /\ StoredCounters \subseteq Int
         /\ server \in Entries /\ server.rev \in Nat /\ server.counter \in StoredCounters
  <1>1. \A e \in Entries : e.rev \in Nat /\ e.counter \in StoredCounters
    BY DEF Entries
  <1>2. Counters \subseteq Nat /\ StoredCounters \subseteq Int
    BY CounterAssumption DEF Counters, StoredCounters, Missing
  <1>3. /\ pc[p] \in Steps /\ kind[p] \in Kinds \union {"final"} /\ sel[p] \in Entries
        /\ res[p] \in Counters /\ count[p] \in Counters /\ server \in Entries
    BY DEF PasskeyTypeOK
  <1>4. DeviceOf[p] \in Devices /\ local[DeviceOf[p]] \in Entries
    BY DeviceAssumption DEF PasskeyTypeOK
  <1>. QED BY <1>1, <1>2, <1>3, <1>4

LEMMA ReservationsTyped ==
  ASSUME PasskeyTypeOK, NEW p \in Procs, NEW c \in Reservations(p)
  PROVE  /\ c \in Counters /\ (c = 0 \/ c = sel[p].counter + 1)
         /\ kind[p] = "inject" => c = sel[p].counter + 1 /\ c # 0
         /\ kind[p] = "inject" => c - 1 \in Counters
  <1>1. sel[p].counter \in Counters
    BY ProcTyped DEF Reservations, StoredCounters
  <1>. QED BY <1>1, CounterAssumption DEF Reservations, Counters

LEMMA WantedTyped ==
  ASSUME PasskeyTypeOK, NEW p \in Procs, NEW c \in Wanted(p)
  PROVE  /\ c \in Counters
         /\ kind[p] \in {"set", "final"} => c >= server.counter
  BY ProcTyped, CounterAssumption DEF Wanted, Counters, Larger

\* What a failure leaves of the process, and of the copy of its device.
LEMMA FailedTyped ==
  ASSUME PasskeyTypeOK, server' \in Entries, NEW p \in Procs, Failed(p)
  PROVE  /\ local' \in [Devices -> Entries] /\ lock' \in [Devices -> Procs \union {Free}]
         /\ pc' \in [Procs -> Steps] /\ kind' = kind /\ tried' \in [Procs -> BOOLEAN]
         /\ sel' \in [Procs -> Entries] /\ seen' \in [Procs -> Nat]
         /\ res' \in [Procs -> Counters] /\ count' \in [Procs -> Counters]
  <1>1. 0 \in Counters /\ NewEntry \in Entries
    BY CounterAssumption DEF Counters, StoredCounters, NewEntry, Entries
  <1>2. Unlocked(p) \in [Devices -> Procs \union {Free}]
    BY DEF PasskeyTypeOK, Unlocked
  <1>3. CASE End(p)
    BY <1>1, <1>2, <1>3 DEF End, Forget, Goto, PasskeyTypeOK, Steps
  <1>4. CASE Retry(p)
    BY <1>1, <1>2, <1>4 DEF Retry, Forget, Goto, PasskeyTypeOK, Steps
  <1>5. CASE Abandon(p)
    BY <1>1, <1>2, <1>5 DEF Abandon, Forget, Goto, PasskeyTypeOK, Steps
  <1>. QED BY <1>3, <1>4, <1>5 DEF Failed

\* What a write that the server takes does to the entry. A signer writes what
\* it reserved. Only the user takes a counter back, by a reset or by hand, and
\* what was reserved then is no longer the vault's.
LEMMA WrittenTyped ==
  ASSUME KeyInv, NEW p \in Procs, pc[p] = "write", Accepts(p), Written(p)
  PROVE  /\ server' \in Entries /\ server'.rev = server.rev + 1 /\ sel[p] = server
         /\ sigs' \in [Counters -> Nat] /\ loose' \subseteq Counters
         /\ last' \in [Devices -> Counters] /\ budget' \in 0..Budget
         /\ kind[p] \in Signers => server'.counter = res[p]
         /\ \/ /\ server'.counter >= server.counter
               /\ UNCHANGED <<sigs, loose, last>>
            \/ /\ kind[p] \notin Signers
               /\ sigs' = [c \in Counters |-> 0] /\ last' = [d \in Devices |-> 0]
               /\ loose' = InFlight
  <1>0. /\ PasskeyTypeOK /\ PlaceOf(p) /\ ReadFrom(sel[p], server)
        /\ server.rev \in Nat /\ server.counter \in StoredCounters /\ res[p] \in Counters
        /\ sel[p].counter \in StoredCounters /\ 0 \in Counters /\ Counters \subseteq Nat
        /\ StoredCounters \subseteq Int /\ Counters \subseteq StoredCounters
        /\ kind[p] \in Kinds \union {"final"}
    BY ProcTyped, CounterAssumption DEF KeyInv, Counters, StoredCounters
  <1>1. sel[p] = server
    BY <1>0 DEF Accepts, ReadFrom
  <1>2. PICK c \in NewCounters(p) :
          /\ server' = [rev |-> server.rev + 1, counter |-> c]
          /\ IF TakesBack(p, c)
               THEN /\ sigs' = [x \in Counters |-> 0]
                    /\ last' = [d \in Devices |-> 0]
                    /\ loose' = InFlight
               ELSE UNCHANGED history
    BY DEF Written
  <1>3. c \in StoredCounters
    BY <1>0 DEF NewCounters
  <1>4. server' \in Entries /\ server'.rev = server.rev + 1 /\ server'.counter = c
    BY <1>0, <1>2, <1>3 DEF Entries
  <1>5. kind[p] \in Signers => c = res[p]
    BY DEF NewCounters, Signers, Editors
  <1>6. CASE TakesBack(p, c)
    <2>1. InFlight \subseteq Counters
      BY <1>0, ProcTyped DEF InFlight
    <2>2. kind[p] \notin Signers
      BY <1>6 DEF TakesBack, Signers
    <2>3. /\ sigs' = [x \in Counters |-> 0] /\ last' = [d \in Devices |-> 0]
          /\ loose' = InFlight /\ budget' = budget
      BY <1>2, <1>6 DEF Written
    <2>4. budget \in 0..Budget
      BY <1>0 DEF PasskeyTypeOK
    <2>. QED BY <1>0, <1>1, <1>4, <2>1, <2>2, <2>3, <2>4
  <1>7. CASE ~TakesBack(p, c)
    <2>1. c >= server.counter
      <3>1. kind[p] \in {"edit", "reset"} => c >= server.counter
        <4>1. c \in Int /\ server.counter \in Int
          BY <1>0, <1>3
        <4>2. kind[p] \in {"edit", "reset"} => ~(c < server.counter)
          BY <1>1, <1>7 DEF TakesBack
        <4>. QED BY <4>1, <4>2
      <3>2. kind[p] \in Editors \ {"edit"} => c = server.counter
        BY <1>1 DEF NewCounters, Editors
      <3>3. kind[p] \in Signers => c = server.counter + 1
        BY <1>0, <1>1, <1>5 DEF PlaceOf, Placed
      <3>4. kind[p] \in {"set", "final"} => c >= server.counter
        BY <1>0, <1>1 DEF PlaceOf, Placed, NewCounters, Editors
      <3>5. server.counter \in Int
        BY <1>0
      <3>. QED BY <1>0, <3>1, <3>2, <3>3, <3>4, <3>5 DEF Kinds, Editors
    <2>2. UNCHANGED <<sigs, loose, last, budget>>
      BY <1>2, <1>7 DEF Written, history
    <2>3. /\ sigs \in [Counters -> Nat] /\ loose \subseteq Counters
          /\ last \in [Devices -> Counters] /\ budget \in 0..Budget
      BY <1>0 DEF PasskeyTypeOK
    <2>. QED BY <1>1, <1>4, <1>5, <2>1, <2>2, <2>3
  <1>. QED BY <1>6, <1>7

LEMMA PasskeyTypedNext ==
  ASSUME KeyInv, [PasskeyNext]_passkeyVars
  PROVE  PasskeyTypeOK'
  <1>0. PasskeyTypeOK
    BY DEF KeyInv
  <1>1. ASSUME NEW p \in Procs, NEW k \in Kinds, Start(p, k) PROVE PasskeyTypeOK'
    BY <1>0, <1>1, BudgetAssumption DEF Start, Goto, PasskeyTypeOK, Steps, entries, history
  <1>2. ASSUME NEW p \in Procs,
               \/ TryLock(p) \/ After(p) \/ Freeze(p) \/ Leave(p)
        PROVE  PasskeyTypeOK'
    <2>1. CASE TryLock(p)
      BY <1>0, <2>1, ProcTyped DEF TryLock, Goto, PasskeyTypeOK, Steps, entries, history
    <2>2. CASE After(p)
      BY <1>0, <2>2, ProcTyped DEF After, Goto, Synced, PasskeyTypeOK, Steps, history
    <2>3. CASE Freeze(p)
      BY <1>0, <2>3 DEF Freeze, Goto, PasskeyTypeOK, Steps, entries, history
    <2>4. CASE Leave(p)
      BY <1>0, <2>4 DEF Leave, Goto, PasskeyTypeOK, Steps, entries, history
    <2>. QED BY <1>2, <2>1, <2>2, <2>3, <2>4
  <1>3. ASSUME NEW p \in Procs, Reselect(p) \/ Open(p) \/ Reopen(p)
        PROVE  PasskeyTypeOK'
    <2>1. sel' \in [Procs -> Entries] /\ local' \in [Devices -> Entries]
      <3>1. \E e \in Entries : sel' = [sel EXCEPT ![p] = e]
        BY <1>0, <1>3, ProcTyped DEF Reselect, Open, Reopen, Fresh
      <3>2. local' = local \/ Synced(p)
        BY <1>3 DEF Reselect, Open, Reopen, Fresh
      <3>. QED BY <1>0, <3>1, <3>2, ProcTyped DEF Synced, PasskeyTypeOK
    <2>2. sel'[p].rev \in Nat
      BY <2>1 DEF Entries
    <2>3. CASE Reselect(p)
      BY <1>0, <2>1, <2>3 DEF Reselect, Goto, PasskeyTypeOK, Steps, history
    <2>4. CASE Open(p)
      BY <1>0, <2>1, <2>2, <2>4 DEF Open, Goto, PasskeyTypeOK, Steps, history
    <2>5. CASE Reopen(p)
      BY <1>0, <2>1, <2>5 DEF Reopen, Goto, PasskeyTypeOK, Steps, history
    <2>. QED BY <1>3, <2>3, <2>4, <2>5
  <1>4. ASSUME NEW p \in Procs, Select(p) PROVE PasskeyTypeOK'
    <2>1. CASE kind[p] \in Signers
      BY <1>0, <1>4, <2>1, ProcTyped DEF Select, Goto, Synced, PasskeyTypeOK, Steps,
         history
    <2>2. CASE kind[p] \notin Signers
      <3>1. sel' \in [Procs -> Entries] /\ local' \in [Devices -> Entries]
        BY <1>0, <1>4, <2>2, ProcTyped, ZenonT(40) DEF Select, Fresh, Synced, PasskeyTypeOK
      <3>2. PICK c \in Wanted(p) :
              /\ res' = [res EXCEPT ![p] = c]
              /\ Goto(p, IF c = server.counter THEN "confirm" ELSE "write")
        BY <1>4, <2>2 DEF Select
      <3>3. c \in Counters
        BY <1>0, WantedTyped
      <3>. QED BY <1>0, <1>4, <3>1, <3>2, <3>3 DEF Select, Goto, PasskeyTypeOK, Steps,
               history
    <2>. QED BY <2>1, <2>2
  <1>5. ASSUME NEW p \in Procs, Reserve(p) PROVE PasskeyTypeOK'
    <2>1. PICK c \in Reservations(p) :
            /\ res' = [res EXCEPT ![p] = c]
            /\ Goto(p, IF c = 0 THEN "sign" ELSE "write")
            /\ count' = [count EXCEPT ![p] = IF kind[p] = "inject" THEN c - 1 ELSE @]
      BY <1>5 DEF Reserve
    <2>2. c \in Counters /\ (kind[p] = "inject" => c - 1 \in Counters)
      BY <1>0, ReservationsTyped
    <2>. QED BY <1>0, <1>5, <2>1, <2>2 DEF Reserve, Goto, PasskeyTypeOK, Steps, entries,
             history
  <1>6. ASSUME NEW p \in Procs, Write(p) PROVE PasskeyTypeOK'
    <2>1. AfterWrite(p) \in Steps
      BY DEF AfterWrite, Steps
    <2>. QED BY <1>0, <1>6, <2>1, WrittenTyped DEF Write, Goto, PasskeyTypeOK
  <1>7. ASSUME NEW p \in Procs, AnswerLost(p) PROVE PasskeyTypeOK'
    BY <1>0, <1>7, WrittenTyped, FailedTyped DEF AnswerLost, PasskeyTypeOK
  <1>8. ASSUME NEW p \in Procs, Fail(p) PROVE PasskeyTypeOK'
    BY <1>0, <1>8, FailedTyped DEF Fail, PasskeyTypeOK, history
  <1>9. ASSUME NEW p \in Procs, Confirm(p) \/ Close(p) \/ Sync(p) \/ Sign(p)
        PROVE  PasskeyTypeOK'
    <2>1. /\ 0 \in Counters /\ NewEntry \in Entries
          /\ Unlocked(p) \in [Devices -> Procs \union {Free}]
      <3>1. 0 \in Counters /\ NewEntry \in Entries
        BY CounterAssumption DEF Counters, StoredCounters, NewEntry, Entries
      <3>. QED BY <1>0, <3>1 DEF PasskeyTypeOK, Unlocked
    <2>2. CASE Confirm(p)
      BY <1>0, <2>1, <2>2, ProcTyped, SMTT(40) DEF Confirm, Forget, Goto, Synced, PasskeyTypeOK,
         Steps, history
    <2>3. CASE Close(p)
      BY <1>0, <2>1, <2>3 DEF Close, End, Forget, Goto, PasskeyTypeOK, Steps, history
    <2>4. CASE Sync(p)
      BY <1>0, <2>1, <2>4, ProcTyped DEF Sync, Forget, Goto, Synced, PasskeyTypeOK,
         Steps, history
    <2>5. CASE Sign(p)
      BY <1>0, <2>1, <2>5, ProcTyped DEF Sign, Signed, Forget, Goto, PasskeyTypeOK,
         Steps, entries
    <2>. QED BY <1>9, <2>2, <2>3, <2>4, <2>5
  <1>11. ASSUME NEW p \in Procs, PageAsserts(p) PROVE PasskeyTypeOK'
    <2>1. count[p] + 1 \in Counters
      BY <1>0, <1>11, ProcTyped, CounterAssumption DEF PageAsserts, Counters
    <2>. QED BY <1>0, <1>11, <2>1, ProcTyped DEF PageAsserts, Signed, SignedLoose, Goto,
             PasskeyTypeOK, Steps, entries
  <1>12. CASE UNCHANGED passkeyVars
    BY <1>0, <1>12 DEF passkeyVars, PasskeyTypeOK, entries, history
  <1>. QED BY <1>1, <1>2, <1>3, <1>4, <1>5, <1>6, <1>7, <1>8, <1>9, <1>11, <1>12
       DEF PasskeyNext, Step

\* A step of one process changes nothing of another, and takes no lock away.
LEMMA ProcessesStay ==
  ASSUME PasskeyTypeOK, NEW p \in Procs, Step(p) \/ \E k \in Kinds : Start(p, k),
         NEW q \in Procs, q # p
  PROVE  /\ pc'[q] = pc[q] /\ kind'[q] = kind[q] /\ res'[q] = res[q]
         /\ sel'[q] = sel[q] /\ count'[q] = count[q]
         /\ lock[DeviceOf[q]] = q => lock'[DeviceOf[q]] = q
  <1>0. /\ pc \in [Procs -> Steps] /\ kind \in [Procs -> Kinds \union {"final"}]
        /\ res \in [Procs -> Counters] /\ sel \in [Procs -> Entries]
        /\ count \in [Procs -> Counters] /\ lock \in [Devices -> Procs \union {Free}]
        /\ DeviceOf[p] \in Devices /\ DeviceOf[q] \in Devices
    BY ProcTyped DEF PasskeyTypeOK
  <1>. DEFINE Goal ==
         /\ pc'[q] = pc[q] /\ kind'[q] = kind[q] /\ res'[q] = res[q]
         /\ sel'[q] = sel[q] /\ count'[q] = count[q]
         /\ lock[DeviceOf[q]] = q => lock'[DeviceOf[q]] = q
  <1>1. lock' = Unlocked(p) => (lock[DeviceOf[q]] = q => lock'[DeviceOf[q]] = q)
    BY <1>0 DEF Unlocked
  <1>2. ASSUME NEW k \in Kinds, Start(p, k) PROVE Goal
    BY <1>0, <1>2 DEF Start, Goto
  <1>3. CASE Select(p) \/ Reselect(p)
    BY <1>0, <1>3 DEF Select, Reselect, Fresh, Goto
  <1>4. CASE TryLock(p)
    BY <1>0, <1>4, FreeAssumption DEF TryLock, Goto
  <1>5. CASE Reserve(p) \/ Write(p) \/ After(p) \/ PageAsserts(p) \/ Freeze(p)
    BY <1>0, <1>5 DEF Reserve, Write, After, PageAsserts, Freeze, Goto
  <1>6. CASE Open(p) \/ Leave(p) \/ Reopen(p) \/ Sync(p)
    BY <1>0, <1>6 DEF Open, Leave, Reopen, Sync, Forget, Goto
  <1>7. CASE Confirm(p)
    BY <1>0, <1>1, <1>7 DEF Confirm, Forget, Goto
  <1>8. CASE Sign(p)
    BY <1>0, <1>1, <1>8 DEF Sign, Forget, Goto
  <1>9. CASE AnswerLost(p) \/ Fail(p) \/ Close(p)
    <2>1. End(p) \/ Retry(p) \/ Abandon(p)
      BY <1>9 DEF AnswerLost, Fail, Close, Failed
    <2>2. CASE End(p)
      BY <1>0, <1>1, <2>2 DEF End, Forget, Goto
    <2>3. CASE Retry(p)
      BY <1>0, <1>1, <2>3 DEF Retry, Forget, Goto
    <2>4. CASE Abandon(p)
      BY <1>0, <1>1, <2>4 DEF Abandon, Forget, Goto
    <2>. QED BY <2>1, <2>2, <2>3, <2>4
  <1>. QED BY <1>2, <1>3, <1>4, <1>5, <1>6, <1>7, <1>8, <1>9 DEF Step

\* A process that fails holds nothing.
LEMMA FailedPlace ==
  ASSUME PasskeyTypeOK, NEW p \in Procs, PlaceOf(p), Failed(p)
  PROVE  /\ PlaceOf(p)' /\ pc'[p] \in {"idle", "select", "left"} /\ sel'[p] = NewEntry
         /\ local' = local \/ local' = [local EXCEPT ![DeviceOf[p]] = server']
  <1>0. /\ pc \in [Procs -> Steps] /\ kind \in [Procs -> Kinds \union {"final"}]
        /\ res \in [Procs -> Counters] /\ sel \in [Procs -> Entries]
    BY DEF PasskeyTypeOK
  <1>1. CASE End(p)
    <2>1. pc'[p] = "idle" /\ sel'[p] = NewEntry /\ local' = local
      BY <1>0, <1>1 DEF End, Forget, Goto
    <2>. QED BY <2>1 DEF PlaceOf, Placed
  <1>2. CASE Retry(p)
    <2>1. /\ pc'[p] = "select" /\ kind'[p] = "browser" /\ sel'[p] = NewEntry
          /\ local' = [local EXCEPT ![DeviceOf[p]] = server']
      BY <1>0, <1>2 DEF Retry, Forget, Goto
    <2>. QED BY <2>1 DEF PlaceOf, Placed, Editors
  <1>3. CASE Abandon(p)
    <2>1. pc'[p] = "left" /\ kind'[p] = "inject" /\ sel'[p] = NewEntry /\ local' = local
      BY <1>0, <1>3 DEF Abandon, Forget, Goto
    <2>. QED BY <2>1 DEF PlaceOf, Placed
  <1>. QED BY <1>1, <1>2, <1>3 DEF Failed

\* What a command knows of its own at each of its steps.
LEMMA PlaceNext ==
  ASSUME KeyInv, NEW p \in Procs, Step(p) \/ \E k \in Kinds : Start(p, k)
  PROVE  PlaceOf(p)'
  <1>0. /\ pc \in [Procs -> Steps] /\ kind \in [Procs -> Kinds \union {"final"}]
        /\ res \in [Procs -> Counters] /\ sel \in [Procs -> Entries]
        /\ count \in [Procs -> Counters] /\ PasskeyTypeOK /\ PlaceOf(p)
    BY DEF KeyInv, PasskeyTypeOK
  <1>. USE DEF PlaceOf, Placed
  <1>1. ASSUME NEW k \in Kinds, Start(p, k) PROVE PlaceOf(p)'
    BY <1>0, <1>1 DEF Start, Goto, Kinds
  <1>2. CASE TryLock(p) \/ Reselect(p) \/ Freeze(p) \/ After(p)
    BY <1>0, <1>2 DEF TryLock, Reselect, Freeze, After, Goto, Signers, Editors
  <1>3. CASE Open(p) \/ Leave(p) \/ Reopen(p) \/ Sync(p)
    BY <1>0, <1>3 DEF Open, Leave, Reopen, Sync, Goto, Signers, Editors
  <1>4. CASE Select(p)
    <2>1. CASE kind[p] \in Signers
      BY <1>0, <1>4, <2>1 DEF Select, Goto
    <2>2. CASE kind[p] \notin Signers
      <3>1. PICK c \in Wanted(p) :
              /\ res' = [res EXCEPT ![p] = c] /\ sel' = [sel EXCEPT ![p] = server]
              /\ Goto(p, IF c = server.counter THEN "confirm" ELSE "write")
              /\ kind' = kind
        BY <1>4, <2>2 DEF Select, Fresh, Signers
      <3>2. kind[p] \in {"set", "final"} => c >= server.counter
        BY <1>0, WantedTyped
      <3>3. /\ res'[p] = c /\ sel'[p] = server /\ kind'[p] = kind[p]
            /\ pc'[p] \in {"confirm", "write"}
        BY <1>0, <3>1 DEF Goto
      <3>4. kind[p] \notin Editors
        BY <1>0, <1>4 DEF Select
      <3>. QED BY <2>2, <3>2, <3>3, <3>4 DEF Signers
    <2>. QED BY <2>1, <2>2
  <1>5. CASE Reserve(p)
    <2>1. PICK c \in Reservations(p) :
            /\ res' = [res EXCEPT ![p] = c]
            /\ Goto(p, IF c = 0 THEN "sign" ELSE "write")
            /\ count' = [count EXCEPT ![p] = IF kind[p] = "inject" THEN c - 1 ELSE @]
            /\ kind' = kind /\ sel' = sel /\ pc[p] = "reserve"
      BY <1>5 DEF Reserve
    <2>2. /\ c \in Counters /\ (c = 0 \/ c = sel[p].counter + 1)
          /\ kind[p] = "inject" => c = sel[p].counter + 1 /\ c # 0
      BY <1>0, ReservationsTyped
    <2>3. c \in Nat /\ sel[p].counter \in Int
      BY <1>0, <2>2, ProcTyped
    <2>4. kind[p] \in Signers /\ c # 0 => c > 0 /\ c = sel[p].counter + 1
      BY <2>2, <2>3
    <2>5. kind[p] = "inject" => c # 0 /\ (c - 1) + 1 = c
      BY <2>2, <2>3
    <2>6. /\ res'[p] = c /\ kind'[p] = kind[p] /\ sel'[p] = sel[p]
          /\ pc'[p] = IF c = 0 THEN "sign" ELSE "write"
          /\ kind[p] = "inject" => count'[p] = c - 1
      BY <1>0, <2>1 DEF Goto
    <2>7. kind[p] \in Signers
      BY <1>0, <2>1
    <2>. QED BY <2>4, <2>5, <2>6, <2>7 DEF Signers
  <1>6. CASE Write(p)
    <2>1. /\ pc'[p] = AfterWrite(p) /\ kind'[p] = kind[p] /\ res'[p] = res[p]
          /\ sel'[p] = sel[p] /\ count'[p] = count[p] /\ pc[p] = "write"
      BY <1>0, <1>6 DEF Write, Goto
    <2>. QED BY <1>0, <2>1 DEF AfterWrite, Signers, Editors
  <1>7. CASE AnswerLost(p) \/ Fail(p)
    BY <1>0, <1>7, FailedPlace DEF AnswerLost, Fail
  <1>8. CASE Close(p)
    BY <1>0, <1>8, FailedPlace DEF Close, Failed
  <1>9. CASE Confirm(p)
    BY <1>0, <1>9 DEF Confirm, Goto, Signers, Editors
  <1>10. CASE Sign(p) \/ PageAsserts(p)
    BY <1>0, <1>10 DEF Sign, PageAsserts, Goto
  <1>. QED BY <1>1, <1>2, <1>3, <1>4, <1>5, <1>6, <1>7, <1>8, <1>9, <1>10 DEF Step

\* The lock of the device is taken before the entry is read, and held until
\* the signature is made.
LEMMA HoldsNext ==
  ASSUME KeyInv, NEW p \in Procs, Step(p) \/ \E k \in Kinds : Start(p, k)
  PROVE  Holds(p)'
  <1>0. /\ pc \in [Procs -> Steps] /\ kind \in [Procs -> Kinds \union {"final"}]
        /\ lock \in [Devices -> Procs \union {Free}] /\ DeviceOf[p] \in Devices
        /\ PasskeyTypeOK /\ PlaceOf(p) /\ Holds(p)
    BY ProcTyped DEF KeyInv, PasskeyTypeOK
  <1>1. ASSUME NEW k \in Kinds, Start(p, k) PROVE Holds(p)'
    BY <1>0, <1>1 DEF Start, Goto, Holds, Holding
  <1>2. CASE TryLock(p)
    BY <1>0, <1>2 DEF TryLock, Goto, Holds
  <1>3. CASE Reselect(p) \/ Reserve(p) \/ Freeze(p) \/ After(p)
    BY <1>0, <1>3 DEF Reselect, Reserve, Freeze, After, Goto, Holds, Holding, Signers
  <1>4. CASE Open(p) \/ Leave(p) \/ Reopen(p) \/ Sync(p)
    <2>1. kind[p] \notin Signers
      BY <1>0, <1>4 DEF PlaceOf, Placed, Open, Leave, Reopen, Sync, Signers, Editors
    <2>. QED BY <1>4, <2>1 DEF Open, Leave, Reopen, Sync, Holds
  <1>5. CASE Select(p)
    BY <1>0, <1>5 DEF Select, Goto, Holds, Holding
  <1>6. CASE Write(p)
    BY <1>0, <1>6 DEF Write, Holds, Holding
  <1>7. CASE AnswerLost(p) \/ Fail(p)
    BY <1>0, <1>7, FailedPlace DEF AnswerLost, Fail, Holds, Holding
  <1>8. CASE Close(p)
    BY <1>0, <1>8, FailedPlace DEF Close, Failed, Holds, Holding
  <1>9. CASE Confirm(p)
    BY <1>0, <1>9 DEF Confirm, Goto, Holds, Holding
  <1>10. CASE Sign(p) \/ PageAsserts(p)
    BY <1>0, <1>10 DEF Sign, PageAsserts, Goto, Holds, Holding
  <1>. QED BY <1>1, <1>2, <1>3, <1>4, <1>5, <1>6, <1>7, <1>8, <1>9, <1>10 DEF Step

\* Where the entry of the server, and what was read of it, come from.
LEMMA ReadsNext ==
  ASSUME KeyInv, NEW p \in Procs, Step(p) \/ \E k \in Kinds : Start(p, k)
  PROVE  /\ server' = server \/ server'.rev = server.rev + 1
         /\ local' = local \/ local' = [local EXCEPT ![DeviceOf[p]] = server']
         /\ sel'[p] \in {sel[p], server, local[DeviceOf[p]], NewEntry}
  <1>0. /\ sel \in [Procs -> Entries] /\ PasskeyTypeOK /\ PlaceOf(p)
    BY DEF KeyInv, PasskeyTypeOK
  <1>. DEFINE Goal ==
         /\ server' = server \/ server'.rev = server.rev + 1
         /\ local' = local \/ local' = [local EXCEPT ![DeviceOf[p]] = server']
         /\ sel'[p] \in {sel[p], server, local[DeviceOf[p]], NewEntry}
  <1>1. ASSUME NEW k \in Kinds, Start(p, k) PROVE Goal
    BY <1>1 DEF Start, entries
  <1>2. CASE TryLock(p) \/ Reserve(p) \/ Freeze(p) \/ Leave(p) \/ PageAsserts(p)
    BY <1>2 DEF TryLock, Reserve, Freeze, Leave, PageAsserts, entries
  <1>3. CASE Select(p) \/ Reselect(p)
    BY <1>0, <1>3 DEF Select, Reselect, Fresh, Synced
  <1>4. CASE Open(p) \/ Reopen(p) \/ After(p)
    BY <1>0, <1>4 DEF Open, Reopen, After, Synced
  <1>5. CASE Sync(p) \/ Confirm(p) \/ Sign(p)
    BY <1>0, <1>5 DEF Sync, Confirm, Sign, Forget, Synced, entries
  <1>6. CASE Write(p)
    BY <1>6, WrittenTyped DEF Write
  <1>7. CASE AnswerLost(p)
    BY <1>0, <1>7, WrittenTyped, FailedPlace DEF AnswerLost
  <1>8. CASE Fail(p) \/ Close(p)
    BY <1>0, <1>8, FailedPlace DEF Fail, Close, Failed
  <1>. QED BY <1>1, <1>2, <1>3, <1>4, <1>5, <1>6, <1>7, <1>8 DEF Step

\* Of the revision the server has there is only what the server has.
LEMMA ReadFromNext ==
  ASSUME KeyInv, NEW p \in Procs, Step(p) \/ \E k \in Kinds : Start(p, k)
  PROVE  /\ \A q \in Procs : ReadFrom(sel[q], server)'
         /\ \A d \in Devices : ReadFrom(local[d], server)'
         /\ ReadFrom(NewEntry, server)'
  <1>0. /\ PasskeyTypeOK /\ server.rev \in Nat /\ NewEntry \in Entries
        /\ server' = server \/ server'.rev = server.rev + 1
        /\ DeviceOf[p] \in Devices
    BY ReadsNext, ProcTyped, CounterAssumption DEF KeyInv, NewEntry, Entries, Counters, StoredCounters
  <1>1. ASSUME NEW e \in Entries, ReadFrom(e, server)
        PROVE  e.rev <= server'.rev /\ (e.rev = server'.rev => e = server')
    <2>1. e.rev \in Nat
      BY DEF Entries
    <2>. QED BY <1>0, <1>1, <2>1 DEF ReadFrom
  <1>2. ReadFrom(server, server)
    BY <1>0 DEF ReadFrom
  <1>3. ASSUME NEW q \in Procs PROVE ReadFrom(sel[q], server)'
    <2>1. sel'[q] \in Entries /\ ReadFrom(sel'[q], server)
      <3>1. q # p => sel'[q] = sel[q]
        BY <1>0, ProcessesStay
      <3>2. sel'[p] \in {sel[p], server, local[DeviceOf[p]], NewEntry}
        BY ReadsNext
      <3>3. /\ ReadFrom(sel[q], server) /\ ReadFrom(NewEntry, server)
            /\ ReadFrom(local[DeviceOf[p]], server)
        BY <1>0 DEF KeyInv
      <3>4. /\ sel[q] \in Entries /\ server \in Entries /\ local[DeviceOf[p]] \in Entries
        BY <1>0, ProcTyped
      <3>. QED BY <1>0, <1>2, <3>1, <3>2, <3>3, <3>4
    <2>. QED BY <1>1, <2>1 DEF ReadFrom
  <1>4. ASSUME NEW d \in Devices PROVE ReadFrom(local[d], server)'
    <2>1. local[d] \in Entries /\ ReadFrom(local[d], server) /\ local \in [Devices -> Entries]
      BY <1>0 DEF KeyInv, PasskeyTypeOK
    <2>2. local'[d] = local[d] \/ local'[d] = server'
      BY <1>0, <2>1, ReadsNext
    <2>3. server'.rev \in Nat
      BY <1>0
    <2>. QED BY <1>1, <2>1, <2>2, <2>3 DEF ReadFrom
  <1>5. ReadFrom(NewEntry, server)'
    BY <1>0, <1>1 DEF KeyInv, ReadFrom, NewEntry
  <1>. QED BY <1>3, <1>4, <1>5

\* The part of the invariant that is about counters.
CountInv ==
  /\ \A d \in Devices : last[d] = 0 \/ last[d] <= server.counter
  /\ Claimed
  /\ CountersAreReserved

Ordered ==
  \A d \in Devices : last'[d] = last[d] \/ last'[d] > last[d] \/ last' = [e \in Devices |-> 0]

\* What the counters are compared with.
LEMMA CountersTyped ==
  ASSUME PasskeyTypeOK
  PROVE  /\ server.counter \in Int /\ Counters \subseteq Nat /\ 0 \in Counters
         /\ \A d \in Devices : last[d] \in Nat
         /\ \A q \in Procs : res[q] \in Nat /\ res[q] \in Counters /\ DeviceOf[q] \in Devices
         /\ \A c \in Counters : c \in Nat /\ sigs[c] \in Nat
  BY DeviceAssumption, CounterAssumption DEF PasskeyTypeOK, Entries, Counters, StoredCounters, Missing

\* Nothing is signed, and the counter of the server grows or stays.
LEMMA QuietStep ==
  ASSUME KeyInv, PasskeyTypeOK', UNCHANGED <<sigs, loose, last>>, NEW p \in Procs,
         server'.counter >= server.counter,
         \A q \in Procs : Claims(q)' =>
           \/ Claims(q) /\ res'[q] = res[q]
           \/ q = p /\ res'[p] = server'.counter /\ res'[p] = server.counter + 1
  PROVE  CountInv' /\ Ordered
  <1>0. /\ server.counter \in Int /\ server'.counter \in Int
        /\ \A d \in Devices : last[d] \in Nat /\ (last[d] = 0 \/ last[d] <= server.counter)
        /\ \A q \in Procs : /\ res[q] \in Nat /\ res'[q] \in Counters /\ res'[q] \in Nat
                            /\ DeviceOf[q] \in Devices
        /\ \A c \in Counters : c \in Nat /\ sigs[c] \in Nat
        /\ Claimed /\ CountersAreReserved
    <2>1. /\ server' \in Entries /\ res' \in [Procs -> Counters] /\ Counters \subseteq Nat
          /\ StoredCounters \subseteq Int
      BY CounterAssumption DEF PasskeyTypeOK, Counters, StoredCounters, Missing
    <2>2. server'.counter \in Int
      BY <2>1 DEF Entries
    <2>. QED BY <2>1, <2>2, CountersTyped DEF KeyInv
  <1>1. \A d \in Devices : last'[d] = 0 \/ last'[d] <= server'.counter
    BY <1>0
  <1>2. CountersAreReserved'
    BY <1>0 DEF CountersAreReserved
  <1>3. ASSUME NEW q \in Procs, Claims(q)'
        PROVE  /\ res'[q] <= server'.counter /\ sigs'[res'[q]] = 0
               /\ last'[DeviceOf[q]] < res'[q]
    <2>1. CASE Claims(q) /\ res'[q] = res[q]
      BY <1>0, <2>1 DEF Claimed
    <2>2. CASE res'[q] = server'.counter /\ res'[q] = server.counter + 1
      <3>1. res'[q] \notin loose /\ res'[q] # 0
        BY <1>3 DEF Claims
      <3>2. sigs[res'[q]] = 0
        BY <1>0, <2>2, <3>1 DEF CountersAreReserved
      <3>. QED BY <1>0, <2>2, <3>1, <3>2
    <2>. QED BY <1>3, <2>1, <2>2
  <1>4. ASSUME NEW q \in Procs, NEW r \in Procs, q # r, Claims(q)', Claims(r)'
        PROVE  res'[q] # res'[r]
    <2>1. CASE Claims(q) /\ res'[q] = res[q] /\ Claims(r) /\ res'[r] = res[r]
      BY <1>0, <1>4, <2>1 DEF Claimed
    <2>2. CASE res'[q] = server.counter + 1 /\ Claims(r) /\ res'[r] = res[r]
      BY <1>0, <2>2 DEF Claimed
    <2>3. CASE res'[r] = server.counter + 1 /\ Claims(q) /\ res'[q] = res[q]
      BY <1>0, <2>3 DEF Claimed
    <2>. QED BY <1>4, <2>1, <2>2, <2>3
  <1>5. Claimed'
    BY <1>3, <1>4 DEF Claimed
  <1>6. Ordered
    BY DEF Ordered
  <1>. QED BY <1>1, <1>2, <1>5, <1>6 DEF CountInv

\* A reset: what was signed before counts no more.
LEMMA ResetStep ==
  ASSUME KeyInv, PasskeyTypeOK', sigs' = [c \in Counters |-> 0],
         last' = [d \in Devices |-> 0], \A q \in Procs : ~Claims(q)'
  PROVE  CountInv' /\ Ordered
  <1>1. \A d \in Devices : last'[d] = 0
    OBVIOUS
  <1>2. CountersAreReserved'
    BY DEF CountersAreReserved
  <1>3. Claimed'
    BY DEF Claimed
  <1>. QED BY <1>1, <1>2, <1>3 DEF CountInv, Ordered

\* A counter is signed that its process has reserved.
LEMMA SignStep ==
  ASSUME KeyInv, PasskeyTypeOK', NEW p \in Procs, pc[p] \in {"sign", "ready"},
         kind[p] \in Signers, Signed(p, res[p]), server' = server,
         \A q \in Procs : Claims(q)' => q # p /\ Claims(q) /\ res'[q] = res[q]
  PROVE  CountInv' /\ Ordered
  <1>. DEFINE c == res[p]
  <1>0. /\ server.counter \in Int
        /\ \A d \in Devices : last[d] \in Nat /\ (last[d] = 0 \/ last[d] <= server.counter)
        /\ \A q \in Procs : res[q] \in Counters /\ res[q] \in Nat /\ DeviceOf[q] \in Devices
        /\ \A x \in Counters : x \in Nat /\ sigs[x] \in Nat
        /\ sigs \in [Counters -> Nat] /\ last \in [Devices -> Counters]
        /\ Claimed /\ CountersAreReserved
    BY CountersTyped DEF KeyInv, PasskeyTypeOK
  <1>1. CASE c = 0 \/ c \in loose
    <2>1. /\ last' = last /\ loose' = loose
          /\ \A x \in Counters \ loose : sigs'[x] <= sigs[x] /\ sigs'[x] \in Nat
      <3>1. last' = last
        BY <1>0, <1>1 DEF Signed
      <3>2. \A x \in Counters \ loose : sigs'[x] = sigs[x] \/ sigs'[x] = 0
        BY <1>0, <1>1 DEF Signed
      <3>. QED BY <1>0, <3>1, <3>2 DEF Signed
    <2>2. CountersAreReserved'
      BY <1>0, <2>1 DEF CountersAreReserved
    <2>3. ASSUME NEW q \in Procs, Claims(q)'
          PROVE  /\ Claims(q) /\ res'[q] = res[q] /\ sigs'[res[q]] = 0
      <3>1. Claims(q) /\ res'[q] = res[q] /\ res[q] \in Counters \ loose
        BY <1>0, <2>3 DEF Claims
      <3>2. sigs[res[q]] = 0
        BY <3>1, <1>0 DEF Claimed
      <3>. QED BY <1>0, <2>1, <3>1, <3>2
    <2>4. Claimed'
      BY <1>0, <2>1, <2>3 DEF Claimed
    <2>. QED BY <1>0, <2>1, <2>2, <2>4 DEF CountInv, Ordered
  <1>2. CASE c # 0 /\ c \notin loose
    <2>1. Claims(p)
      BY <1>2 DEF Claims
    <2>2. c <= server.counter /\ sigs[c] = 0 /\ last[DeviceOf[p]] < c
      BY <1>0, <2>1 DEF Claimed
    <2>3. /\ loose' = loose /\ sigs' = [sigs EXCEPT ![c] = 1]
          /\ last' = [last EXCEPT ![DeviceOf[p]] = c]
      <3>1. sigs[c] + 1 = 1
        BY <2>2
      <3>2. sigs' = [sigs EXCEPT ![c] = sigs[c] + 1]
        BY <1>2 DEF Signed
      <3>3. last' = [last EXCEPT ![DeviceOf[p]] = c] /\ loose' = loose
        BY <1>2 DEF Signed
      <3>. HIDE DEF c
      <3>. QED BY <3>1, <3>2, <3>3
    <2>. HIDE DEF c
    <2>4. CountersAreReserved'
      BY <1>0, <2>2, <2>3 DEF CountersAreReserved
    <2>5. ASSUME NEW q \in Procs, Claims(q)'
          PROVE  /\ Claims(q) /\ res'[q] = res[q] /\ sigs'[res[q]] = 0
                 /\ last'[DeviceOf[q]] = last[DeviceOf[q]]
      <3>1. Claims(q) /\ res'[q] = res[q] /\ q # p
        BY <2>5
      <3>2. res[q] # c
        BY <1>0, <2>1, <3>1 DEF Claimed, c
      <3>3. DeviceOf[q] # DeviceOf[p]
        <4>1. Holds(p) /\ Holds(q)
          BY DEF KeyInv
        <4>2. lock[DeviceOf[p]] = p /\ lock[DeviceOf[q]] = q
          BY <2>1, <3>1, <4>1 DEF Holds, Holding, Claims
        <4>. QED BY <3>1, <4>2
      <3>4. sigs[res[q]] = 0
        BY <1>0, <3>1 DEF Claimed
      <3>. QED BY <1>0, <2>3, <3>1, <3>2, <3>3, <3>4
    <2>6. Claimed'
      BY <1>0, <2>5 DEF Claimed
    <2>7. \A d \in Devices : /\ last'[d] = 0 \/ last'[d] <= server'.counter
                             /\ last'[d] = last[d] \/ last'[d] > last[d]
      <3>1. c \in Nat
        BY <1>0 DEF c
      <3>. QED BY <1>0, <2>2, <2>3, <3>1
    <2>. QED BY <2>4, <2>6, <2>7 DEF CountInv, Ordered
  <1>. QED BY <1>1, <1>2

\* A virtual authenticator signs a counter nobody reserved.
LEMMA LooseStep ==
  ASSUME KeyInv, PasskeyTypeOK', NEW c \in Counters, SignedLoose(c), server' = server,
         \A q \in Procs : Claims(q)' => Claims(q) /\ res'[q] = res[q]
  PROVE  CountInv' /\ Ordered
  <1>0. /\ \A d \in Devices : last[d] = 0 \/ last[d] <= server.counter
        /\ \A q \in Procs : res[q] \in Counters
        /\ sigs \in [Counters -> Nat] /\ Claimed /\ CountersAreReserved
    BY CountersTyped DEF KeyInv, PasskeyTypeOK
  <1>1. /\ last' = last /\ loose' = loose \union {c}
        /\ \A x \in Counters : x # c => sigs'[x] = sigs[x]
    BY <1>0 DEF SignedLoose
  <1>2. CountersAreReserved'
    BY <1>0, <1>1 DEF CountersAreReserved
  <1>3. ASSUME NEW q \in Procs, Claims(q)'
        PROVE  Claims(q) /\ res'[q] = res[q] /\ sigs'[res[q]] = sigs[res[q]]
    <2>1. res[q] # c
      BY <1>1, <1>3 DEF Claims
    <2>. QED BY <1>0, <1>1, <1>3, <2>1
  <1>4. Claimed'
    BY <1>1, <1>3, <1>0 DEF Claimed
  <1>. QED BY <1>0, <1>1, <1>2, <1>4 DEF CountInv, Ordered

\* A write that the server takes. Only the process that gets to know of it
\* may sign the new counter.
LEMMA WriteStep ==
  ASSUME KeyInv, PasskeyTypeOK', NEW p \in Procs, Write(p) \/ AnswerLost(p)
  PROVE  CountInv' /\ Ordered
  <1>0. /\ pc \in [Procs -> Steps] /\ kind \in [Procs -> Kinds \union {"final"}]
        /\ res \in [Procs -> Counters] /\ PasskeyTypeOK /\ PlaceOf(p)
    BY DEF KeyInv, PasskeyTypeOK
  <1>1. /\ pc[p] = "write" /\ Accepts(p) /\ Written(p)
    BY <1>0 DEF Write, AnswerLost
  <1>2. /\ sel[p] = server
        /\ kind[p] \in Signers => server'.counter = res[p]
        /\ \/ server'.counter >= server.counter /\ UNCHANGED <<sigs, loose, last>>
           \/ /\ kind[p] \notin Signers /\ sigs' = [c \in Counters |-> 0]
              /\ last' = [d \in Devices |-> 0] /\ loose' = InFlight
    BY <1>1, WrittenTyped
  <1>3. ASSUME NEW q \in Procs, q # p
        PROVE  pc'[q] = pc[q] /\ kind'[q] = kind[q] /\ res'[q] = res[q]
    BY <1>0, <1>3, ProcessesStay DEF Step
  <1>4. Claims(p)' => /\ kind[p] \in Signers /\ res'[p] = res[p]
    <2>1. CASE Write(p)
      BY <1>0, <2>1 DEF Write, Claims, Goto
    <2>2. CASE AnswerLost(p)
      <3>1. pc'[p] \in {"idle", "select", "left"}
        BY <1>0, <2>2, FailedPlace DEF AnswerLost
      <3>. QED BY <3>1 DEF Claims
    <2>. QED BY <2>1, <2>2
  <1>5. CASE server'.counter >= server.counter /\ UNCHANGED <<sigs, loose, last>>
    <2>1. ASSUME NEW q \in Procs, Claims(q)'
          PROVE  \/ Claims(q) /\ res'[q] = res[q]
                 \/ q = p /\ res'[p] = server'.counter /\ res'[p] = server.counter + 1
      <3>1. CASE q # p
        BY <1>2, <1>3, <1>5, <2>1, <3>1 DEF Claims
      <3>2. CASE q = p
        <4>1. kind[p] \in Signers /\ res'[p] = res[p]
          BY <1>4, <2>1, <3>2
        <4>2. res[p] = server.counter + 1
          BY <1>0, <1>1, <1>2, <4>1 DEF PlaceOf, Placed
        <4>3. server'.counter = res[p]
          BY <1>2, <4>1
        <4>. QED BY <3>2, <4>1, <4>2, <4>3
      <3>. QED BY <3>1, <3>2
    <2>. QED BY <1>2, <1>5, <2>1, QuietStep
  <1>6. CASE /\ kind[p] \notin Signers /\ sigs' = [c \in Counters |-> 0]
             /\ last' = [d \in Devices |-> 0] /\ loose' = InFlight
    <2>2. ASSUME NEW q \in Procs PROVE ~Claims(q)'
      <3>1. CASE q = p
        BY <1>4, <1>6, <3>1
      <3>2. CASE q # p
        <4>1. kind[q] \in Signers /\ pc[q] \in {"confirm", "sign", "ready"} => res[q] \in InFlight
          BY DEF InFlight
        <4>. QED BY <1>3, <1>6, <3>2, <4>1 DEF Claims
      <3>. QED BY <3>1, <3>2
    <2>. QED BY <1>6, <2>2, ResetStep
  <1>. QED BY <1>2, <1>5, <1>6

LEMMA CountNext ==
  ASSUME KeyInv, PasskeyTypeOK', NEW p \in Procs, Step(p) \/ \E k \in Kinds : Start(p, k)
  PROVE  CountInv' /\ Ordered
  <1>0. /\ pc \in [Procs -> Steps] /\ kind \in [Procs -> Kinds \union {"final"}]
        /\ res \in [Procs -> Counters] /\ PasskeyTypeOK /\ PlaceOf(p)
        /\ server.counter >= server.counter
    BY CountersTyped DEF KeyInv, PasskeyTypeOK
  <1>1. ASSUME NEW q \in Procs, q # p
        PROVE  pc'[q] = pc[q] /\ kind'[q] = kind[q] /\ res'[q] = res[q]
    BY <1>0, <1>1, ProcessesStay
  <1>2. ASSUME UNCHANGED <<server, sigs, loose, last>>,
               Claims(p)' => Claims(p) /\ res'[p] = res[p]
        PROVE  CountInv' /\ Ordered
    <2>1. \A q \in Procs : Claims(q)' => Claims(q) /\ res'[q] = res[q]
      BY <1>1, <1>2 DEF Claims
    <2>. QED BY <1>0, <1>2, <2>1, QuietStep
  <1>3. ASSUME NEW k \in Kinds, Start(p, k) PROVE ~Claims(p)' /\ UNCHANGED <<server, history>>
    BY <1>0, <1>3 DEF Start, Goto, Claims, entries
  <1>4. CASE TryLock(p) \/ Reselect(p) \/ Freeze(p) \/ After(p)
    <2>1. ~Claims(p)' /\ UNCHANGED <<server, history>>
      BY <1>0, <1>4 DEF TryLock, Reselect, Freeze, After, Goto, Claims, entries
    <2>. QED BY <1>2, <2>1 DEF history
  <1>5. CASE Open(p) \/ Leave(p) \/ Reopen(p) \/ Sync(p)
    <2>1. ~Claims(p)' /\ UNCHANGED <<server, history>>
      BY <1>0, <1>5 DEF Open, Leave, Reopen, Sync, Goto, Claims, entries
    <2>. QED BY <1>2, <2>1 DEF history
  <1>6. CASE Select(p)
    <2>1. ~Claims(p)' /\ UNCHANGED <<server, history>>
      BY <1>0, <1>6 DEF Select, Goto, Claims
    <2>. QED BY <1>2, <2>1 DEF history
  <1>7. CASE Reserve(p)
    <2>1. UNCHANGED <<server, history>>
      BY <1>7 DEF Reserve, entries
    <2>2. ~Claims(p)'
      <3>1. PICK c \in Reservations(p) :
              /\ res' = [res EXCEPT ![p] = c]
              /\ Goto(p, IF c = 0 THEN "sign" ELSE "write")
        BY <1>7 DEF Reserve
      <3>2. c \in Counters
        BY <1>0, ReservationsTyped
      <3>. QED BY <1>0, <3>1, <3>2 DEF Goto, Claims
    <2>. QED BY <1>2, <2>1, <2>2 DEF history
  <1>8. CASE Confirm(p)
    <2>1. UNCHANGED <<server, history>> /\ kind' = kind /\ pc[p] = "confirm"
      BY <1>8 DEF Confirm
    <2>2. Claims(p)' => Claims(p) /\ res'[p] = res[p]
      BY <1>0, <1>8, <2>1 DEF Confirm, Claims, Goto, history
    <2>. QED BY <1>2, <2>1, <2>2 DEF history
  <1>9. CASE Fail(p) \/ Close(p)
    <2>1. pc'[p] \in {"idle", "select", "left"} /\ UNCHANGED <<server, history>>
      BY <1>0, <1>9, FailedPlace DEF Fail, Close, Failed
    <2>2. ~Claims(p)'
      BY <2>1 DEF Claims
    <2>. QED BY <1>2, <2>1, <2>2 DEF history
  <1>10. CASE Write(p) \/ AnswerLost(p)
    BY <1>10, WriteStep
  <1>11. CASE Sign(p)
    <2>1. /\ pc[p] = "sign" /\ Signed(p, res[p]) /\ loose' = loose /\ server' = server
          /\ pc'[p] \in {"after", "idle"}
      BY <1>0, <1>11 DEF Sign, Signed, Goto, entries
    <2>2. kind[p] \in Signers
      BY <1>0, <2>1 DEF PlaceOf, Placed, Signers
    <2>3. \A q \in Procs : Claims(q)' => q # p /\ Claims(q) /\ res'[q] = res[q]
      BY <1>1, <2>1 DEF Claims
    <2>. QED BY <2>1, <2>2, <2>3, SignStep
  <1>12. CASE PageAsserts(p)
    <2>0. kind[p] = "inject" /\ kind[p] \in Signers /\ server' = server /\ res' = res
          /\ kind' = kind
      BY <1>0, <1>12 DEF PageAsserts, PlaceOf, Placed, Signers, entries
    <2>1. CASE pc[p] = "ready"
      <3>1. count[p] + 1 = res[p]
        BY <1>0, <2>0, <2>1 DEF PlaceOf, Placed
      <3>2. Signed(p, res[p]) /\ loose' = loose /\ pc'[p] = "asserted"
        BY <1>0, <1>12, <2>1, <3>1 DEF PageAsserts, Signed, Goto
      <3>3. \A q \in Procs : Claims(q)' => q # p /\ Claims(q) /\ res'[q] = res[q]
        BY <1>1, <3>2 DEF Claims
      <3>. QED BY <2>0, <2>1, <3>2, <3>3, SignStep
    <2>2. CASE pc[p] # "ready"
      <3>1. count[p] + 1 \in Counters
        BY <1>0, <1>12, ProcTyped, CounterAssumption DEF PageAsserts, Counters
      <3>2. SignedLoose(count[p] + 1) /\ pc' = pc
        BY <1>12, <2>2 DEF PageAsserts
      <3>3. loose \subseteq loose'
        BY <3>2 DEF SignedLoose
      <3>4. \A q \in Procs : Claims(q)' => Claims(q) /\ res'[q] = res[q]
        BY <2>0, <3>2, <3>3 DEF Claims
      <3>. QED BY <2>0, <3>1, <3>2, <3>4, LooseStep
    <2>. QED BY <2>1, <2>2
  <1>. QED BY <1>2, <1>3, <1>4, <1>5, <1>6, <1>7, <1>8, <1>9, <1>10, <1>11, <1>12
       DEF Step, history

LEMMA KeyInvNext ==
  ASSUME KeyInv, [PasskeyNext]_passkeyVars
  PROVE  KeyInv' /\ (Ordered \/ UNCHANGED passkeyVars)
  <1>1. CASE UNCHANGED passkeyVars
    BY <1>1 DEF passkeyVars, entries, history, KeyInv, PasskeyTypeOK, PlaceOf, Holds,
       ReadFrom, Claimed, Claims, CountersAreReserved
  <1>2. ASSUME NEW p \in Procs, Step(p) \/ \E k \in Kinds : Start(p, k)
        PROVE  KeyInv' /\ Ordered
    <2>1. PasskeyTypeOK'
      BY <1>2, PasskeyTypedNext DEF PasskeyNext
    <2>2. ASSUME NEW q \in Procs PROVE PlaceOf(q)' /\ Holds(q)'
      <3>1. CASE q = p
        BY <1>2, <3>1, PlaceNext, HoldsNext
      <3>2. CASE q # p
        <4>1. /\ pc'[q] = pc[q] /\ kind'[q] = kind[q] /\ res'[q] = res[q]
              /\ sel'[q] = sel[q] /\ count'[q] = count[q]
              /\ lock[DeviceOf[q]] = q => lock'[DeviceOf[q]] = q
          BY <1>2, <3>2, ProcessesStay DEF KeyInv
        <4>2. PlaceOf(q) /\ Holds(q)
          BY DEF KeyInv
        <4>. QED BY <4>1, <4>2 DEF PlaceOf, Holds
      <3>. QED BY <3>1, <3>2
    <2>3. /\ \A q \in Procs : ReadFrom(sel[q], server)'
          /\ \A d \in Devices : ReadFrom(local[d], server)'
          /\ ReadFrom(NewEntry, server)'
      BY <1>2, ReadFromNext
    <2>4. CountInv' /\ Ordered
      BY <1>2, <2>1, CountNext
    <2>. QED BY <2>1, <2>2, <2>3, <2>4 DEF KeyInv, CountInv
  <1>. QED BY <1>1, <1>2 DEF PasskeyNext

LEMMA KeyInvInvariant == PasskeySpec => []KeyInv
  BY KeyInvInit, KeyInvNext, PTL DEF PasskeySpec

\* Counters stay within a u32, and what processes hold is of its type, also
\* where a virtual authenticator counts by itself.
THEOREM PasskeyTypeCorrect == PasskeySpec => []PasskeyTypeOK
  <1>1. KeyInv => PasskeyTypeOK
    BY DEF KeyInv
  <1>. QED BY <1>1, KeyInvInvariant, PTL

\* No counter that was reserved is signed twice, by whichever device, and the
\* vault is never behind one that was signed, whoever edits or sets the entry
\* meanwhile. Loose counters are excepted, hence every assertion of a virtual
\* authenticator whose injection was given up (CountersNeverRepeat does not
\* hold), and what was signed before the user took the counter back.
THEOREM NoCounterTwice == PasskeySpec => []CountersAreReserved
  <1>1. KeyInv => CountersAreReserved
    BY DEF KeyInv
  <1>. QED BY <1>1, KeyInvInvariant, PTL

\* On one device signatures are made in the order of their counters, since
\* whoever signs holds the lock of the item from the moment it reads.
THEOREM SignaturesInOrder == PasskeySpec => SignedInOrder
  <1>1. KeyInv /\ [PasskeyNext]_passkeyVars => [Ordered]_passkeyVars
    BY KeyInvNext
  <1>. QED BY <1>1, KeyInvInvariant, PTL DEF PasskeySpec, SignedInOrder, Ordered

-----------------------------------------------------------------------------
(* The terminal interface. In an account whose entries all decrypt, the    *)
(* rows of a loaded copy are the entries there are, or none. What follows  *)
(* is about such accounts, whatever there is in the others.                *)

Clean(a) == \A k \in Broken : k[1] # a

GoodCopy(a, v) ==
  /\ v.entries \in [IdsOf(a) -> 0 .. Trash]
  /\ Clean(a) => v.rows = {} \/ v.rows = {i \in IdsOf(a) : v.entries[i] # 0}

GoodVault(V) ==
  /\ V = [a \in Accounts |-> V[a]]
  /\ \A a \in Accounts : V[a] = Nothing \/ GoodCopy(a, V[a])

\* The revision rev of e was read from the copies V, unless that of its
\* account is one of R, or has entries that do not decrypt.
Shown(V, R, e, rev) ==
  Clean(e[1]) => /\ e \in Keys /\ V[e[1]] # Nothing /\ rev \in 1 .. Trash
                 /\ rev = RevAt(V, e) \/ e[1] \in R

\* What the row k has in the cache.
GoodDetail(V, R, k, x) ==
  /\ x = <<x[1], x[2]>> /\ x[1][1] = k[1]
  /\ Clean(k[1]) => x[1] = k
  /\ Shown(V, R, x[1], x[2])

GoodCache(V, R, c) ==
  /\ c = [k \in Keys |-> c[k]]
  /\ \A k \in Keys : c[k] = Nothing \/ GoodDetail(V, R, k, c[k])

ModeKinds == {"List", "Edit", "Confirm", "Attachments", "Upload", "Accounts",
              "Locked", "Screen", "Expired"}
Typed(m) ==
  /\ m = Mode(m.kind, m.acct, m.of, m.rev, m.seen)
  /\ m.kind \in ModeKinds /\ m.acct \in Accounts \cup {Nothing} /\ m.seen \subseteq Accounts
  /\ m.of \in Keys \cup {Nothing} \/ ~Clean(m.of[1])

ListInv ==
  /\ unlocked \subseteq Accounts
  /\ remote \in [Keys -> 0 .. Trash] /\ db \in [Keys -> 0 .. Trash]
  /\ todo \subseteq Accounts \ {Target} /\ replaced \subseteq Accounts
  /\ left \in 0 .. MaxOthers
  /\ GoodVault(vault) /\ GoodCache(vault, replaced, cache)
  /\ cursor \in Rows(vault) \cup {Nothing}
  /\ \A m \in inbox : m.acct \in Accounts /\ (m.copy = Nothing \/ GoodCopy(m.acct, m.copy))

\* A form is of what was shown, and the question whether to delete of what the
\* cursor is on, unless the worker has replaced that list.
ModeInv ==
  /\ Typed(mode)
  /\ mode.kind = "Edit" /\ mode.of # Nothing => Shown(vault, replaced, mode.of, mode.rev)
  /\ mode.kind = "Confirm" =>
       \/ mode.acct \in replaced
       \/ cursor # Nothing /\ mode.of = cursor /\ mode.acct = cursor[1]
  /\ mode.kind \in Gates \cup {"Expired"} => mode.acct \in Accounts

EditorInv ==
  \/ editor = Nothing
  \/ editor = <<editor[1], editor[2]>> /\ Shown(vault, replaced, editor[1], editor[2])

TuiInv == ListInv /\ ModeInv /\ EditorInv

LEMMA KeysTyped ==
  ASSUME NEW k \in Keys
  PROVE  k[1] \in Accounts /\ k[2] \in Nat /\ k = <<k[1], k[2]>> /\ k # Nothing
         /\ k[2] \in IdsOf(k[1])
  BY TuiAssumption DEF IdsOf

LEMMA RevisionsTyped == MaxRev \in Nat /\ MaxRev >= 1 /\ Trash \in Nat /\ Trash = MaxRev + 1
  BY TuiAssumption DEF Trash

\* The position of an entry in a finite list tells which one it is.
LEMMA PositionsDiffer ==
  ASSUME NEW S \in SUBSET Nat, IsFiniteSet(S), NEW i \in S, NEW j \in S,
         Below(S, i) = Below(S, j)
  PROVE  i = j
  <1>1. ASSUME NEW m \in S, NEW n \in S, m < n PROVE Below(S, m) # Below(S, n)
    <2>. DEFINE M == {x \in S : x < m}
                N == {x \in S : x < n}
    <2>0. m \in Nat /\ n \in Nat
      OBVIOUS
    <2>1. M \subseteq N /\ M # N
      <3>1. \A x \in S : x \in Nat
        OBVIOUS
      <3>2. m \in N /\ m \notin M
        BY <1>1, <2>0
      <3>3. ASSUME NEW x \in M PROVE x \in N
        <4>1. x \in S /\ x < m
          OBVIOUS
        <4>2. x < n
          BY <1>1, <2>0, <3>1, <4>1
        <4>. QED BY <4>1, <4>2
      <3>. QED BY <3>2, <3>3
    <2>2. IsFiniteSet(N)
      BY FS_Subset
    <2>. HIDE DEF M, N
    <2>3. Cardinality(M) # Cardinality(N)
      BY <2>1, <2>2, FS_Subset
    <2>. QED BY <2>3 DEF Below, M, N
  <1>. QED BY <1>1

\* In a clean account a row stands for the entry it shows.
LEMMA RowIsEntry ==
  ASSUME NEW V, GoodVault(V), NEW k \in Rows(V), Clean(k[1])
  PROVE  EntryAt(V, k) = k /\ RevAt(V, k) \in 1 .. Trash /\ V[k[1]] # Nothing
  <1>. DEFINE v == V[k[1]]
              es == {i \in DOMAIN v.entries : v.entries[i] # 0}
  <1>1. k \in Keys /\ v # Nothing /\ k[2] \in v.rows
    BY DEF Rows
  <1>2. /\ k[1] \in Accounts /\ k[2] \in Nat /\ k = <<k[1], k[2]>> /\ GoodCopy(k[1], v)
    BY <1>1, KeysTyped DEF GoodVault
  <1>3. v.entries \in [IdsOf(k[1]) -> 0 .. Trash] /\ v.rows = es
    BY <1>1, <1>2 DEF GoodCopy
  <1>4. es \in SUBSET Nat /\ IsFiniteSet(es)
    <2>1. IsFiniteSet({x \in Keys : x[1] = k[1]})
      BY KeysAssumption, FS_Subset
    <2>2. IsFiniteSet(IdsOf(k[1]))
      <3>. DEFINE I == {x \in Keys : x[1] = k[1]}
                  f == [x \in I |-> x[2]]
      <3>1. f \in Surjection(I, IdsOf(k[1]))
        BY DEF Surjection, IdsOf
      <3>. HIDE DEF f
      <3>. QED BY <2>1, <3>1, FS_Surjection
    <2>3. IdsOf(k[1]) \subseteq Nat
      BY KeysTyped DEF IdsOf
    <2>. QED BY <1>3, <2>2, <2>3, FS_Subset
  <1>5. k[2] \in es
    BY <1>1, <1>3
  <1>6. \A i \in es : Below(es, i) = Below(v.rows, k[2]) <=> i = k[2]
    <2>. HIDE DEF es
    <2>. QED BY <1>3, <1>4, <1>5, PositionsDiffer
  <1>7. (CHOOSE i \in es : Below(es, i) = Below(v.rows, k[2])) = k[2]
    <2>. HIDE DEF es, v
    <2>. QED BY <1>5, <1>6
  <1>8. EntryAt(V, k) = k
    BY <1>2, <1>7 DEF EntryAt
  <1>9. RevAt(V, k) \in 1 .. Trash
    BY <1>3, <1>5, RevisionsTyped DEF RevAt
  <1>. QED BY <1>1, <1>8, <1>9

\* What is loaded from a database is a good copy.
LEMMA CopyGood ==
  ASSUME NEW a, NEW d \in [Keys -> 0 .. Trash], NEW u
  PROVE  GoodCopy(a, Copy(a, d, u))
  <1>1. \A i \in IdsOf(a) : <<a, i>> \in Keys
    <2>1. ASSUME NEW i \in IdsOf(a) PROVE <<a, i>> \in Keys
      <3>1. PICK k \in Keys : k[1] = a /\ k[2] = i
        BY DEF IdsOf
      <3>. QED BY <3>1, KeysTyped
    <2>. QED BY <2>1
  <1>. DEFINE es == [i \in IdsOf(a) |-> d[<<a, i>>]]
              rs == {i \in IdsOf(a) : a \in u /\ d[<<a, i>>] # 0 /\ <<a, i>> \notin Broken}
  <1>2. es \in [IdsOf(a) -> 0 .. Trash]
    BY <1>1
  <1>3. Clean(a) => rs = {} \/ rs = {i \in IdsOf(a) : es[i] # 0}
    <2>1. Clean(a) => \A i \in IdsOf(a) : <<a, i>> \notin Broken
      BY DEF Clean
    <2>. QED BY <1>1, <2>1
  <1>4. Copy(a, d, u).entries = es /\ Copy(a, d, u).rows = rs
    BY DEF Copy
  <1>. HIDE DEF es, rs
  <1>. QED BY <1>2, <1>3, <1>4 DEF GoodCopy

\* The details of a cache stay good when none of them is of an account whose
\* copy changes, or when that account is one of R.
LEMMA ShownStays ==
  ASSUME NEW V, NEW W, NEW Q, NEW R, NEW e, NEW rev, Shown(V, Q, e, rev), Q \subseteq R,
         W[e[1]] = V[e[1]] \/ (W[e[1]] # Nothing /\ e[1] \in R)
  PROVE  Shown(W, R, e, rev)
  BY DEF Shown, RevAt

\* What ensure_detail adds to the cache is what the row shows.
LEMMA EnsuredGood ==
  ASSUME NEW V, GoodVault(V), NEW R, NEW c, GoodCache(V, R, c),
         NEW s \in Rows(V) \cup {Nothing}, NEW u
  PROVE  GoodCache(V, R, Ensured(V, c, s, u))
  <1>1. CASE Ensured(V, c, s, u) = c
    BY <1>1
  <1>2. CASE Ensured(V, c, s, u) # c
    <2>. DEFINE e == EntryAt(V, s)
                r == RevAt(V, e)
                f == [c EXCEPT ![s] = <<e, r>>]
    <2>1. s # Nothing /\ Ensured(V, c, s, u) = f
      BY <1>2 DEF Ensured
    <2>2. s \in Rows(V) /\ s \in Keys /\ e[1] = s[1]
      BY <2>1 DEF Rows, EntryAt
    <2>3. Clean(s[1]) => e = s /\ r \in 1 .. Trash /\ V[s[1]] # Nothing
      BY <2>2, RowIsEntry
    <2>4. r = RevAt(V, e)
      OBVIOUS
    <2>5. f = [k \in Keys |-> f[k]] /\ f[s] = <<e, r>> /\ \A k \in Keys : k # s => f[k] = c[k]
      BY <2>2 DEF GoodCache
    <2>. HIDE DEF f, r, e
    <2>6. Shown(V, R, e, r)
      BY <2>2, <2>3, <2>4 DEF Shown
    <2>7. f[s] = <<f[s][1], f[s][2]>> /\ f[s][1] = e /\ f[s][2] = r
      BY <2>5
    <2>8. GoodDetail(V, R, s, f[s])
      <3>. DEFINE x == f[s]
      <3>. HIDE DEF x
      <3>1. x = <<x[1], x[2]>> /\ x[1] = e /\ x[2] = r
        BY <2>7 DEF x
      <3>2. GoodDetail(V, R, s, x)
        BY <2>2, <2>3, <2>6, <3>1 DEF GoodDetail
      <3>. QED BY <3>2 DEF x
    <2>9. \A k \in Keys : f[k] = Nothing \/ GoodDetail(V, R, k, f[k])
      BY <2>5, <2>8 DEF GoodCache
    <2>. QED BY <2>1, <2>5, <2>9 DEF GoodCache
  <1>. QED BY <1>1, <1>2

\* Whatever is shown anew, the cursor is on a row of it, or on none.
LEMMA ShowGood ==
  ASSUME NEW V, GoodVault(V), NEW R, NEW c, GoodCache(V, R, c), NEW u,
         NEW ps \in SUBSET (Rows(V) \cup {Nothing}), Show(V, c, ps, u)
  PROVE  /\ vault' = V /\ cursor' \in ps /\ cursor' \in Rows(V) \cup {Nothing}
         /\ GoodCache(V, R, cache')
  <1>1. PICK s \in ps : vault' = V /\ cursor' = s /\ cache' = Ensured(V, c, s, u)
    BY DEF Show
  <1>2. GoodCache(V, R, Ensured(V, c, s, u))
    BY EnsuredGood
  <1>. QED BY <1>1, <1>2

LEMMA NoDetailsGood ==
  ASSUME NEW V, NEW R
  PROVE  GoodCache(V, R, NoDetails)
  BY DEF GoodCache, NoDetails

LEMMA KeptGood ==
  ASSUME NEW V, NEW s
  PROVE  /\ Kept(s, V) \in SUBSET (Rows(V) \cup {Nothing})
         /\ Rows(V) \cup {Nothing} \in SUBSET (Rows(V) \cup {Nothing})
         /\ s \in Rows(V) => Kept(s, V) = {s}
  BY DEF Kept

\* An account is loaded anew, and its details are dropped.
LEMMA LoadedGood ==
  ASSUME ListInv, NEW a, NEW v, GoodCopy(a, v), NEW V, V = [vault EXCEPT ![a] = v]
  PROVE  GoodVault(V) /\ GoodCache(V, replaced, Without(cache, a))
  <1>1. /\ GoodVault(V) /\ \A b \in Accounts : b # a => V[b] = vault[b]
    <2>1. vault = [b \in Accounts |-> vault[b]]
          /\ \A b \in Accounts : vault[b] = Nothing \/ GoodCopy(b, vault[b])
      BY DEF ListInv, GoodVault
    <2>2. V = [b \in Accounts |-> IF b = a THEN v ELSE vault[b]]
      BY <2>1
    <2>3. \A b \in Accounts : V[b] = IF b = a THEN v ELSE vault[b]
      BY <2>2
    <2>4. V = [b \in Accounts |-> V[b]]
      BY <2>2
    <2>. QED BY <2>1, <2>3, <2>4 DEF GoodVault
  <1>. DEFINE c == Without(cache, a)
  <1>2. c = [k \in Keys |-> c[k]] /\ \A k \in Keys : c[k] = IF k[1] = a THEN Nothing ELSE cache[k]
    BY DEF Without
  <1>. HIDE DEF c
  <1>3. ASSUME NEW k \in Keys, c[k] # Nothing PROVE GoodDetail(V, replaced, k, c[k])
    <2>1. k[1] # a /\ c[k] = cache[k] /\ k[1] \in Accounts
      BY <1>2, <1>3, KeysTyped
    <2>2. GoodDetail(vault, replaced, k, cache[k])
      BY <1>3, <2>1 DEF ListInv, GoodCache
    <2>3. Shown(V, replaced, cache[k][1], cache[k][2])
      BY <1>1, <2>1, <2>2 DEF GoodDetail, Shown, RevAt
    <2>. QED BY <2>1, <2>2, <2>3 DEF GoodDetail
  <1>. QED BY <1>1, <1>2, <1>3 DEF GoodCache, c

\* The list as it is after a step that leaves the copies alone.
LEMMA ListStays ==
  ASSUME ListInv, UNCHANGED <<vault, cursor, replaced>>, todo' \subseteq todo,
         unlocked' \subseteq Accounts, left' \in 0 .. MaxOthers,
         remote' \in [Keys -> 0 .. Trash], db' \in [Keys -> 0 .. Trash],
         GoodCache(vault, replaced, cache'),
         \A m \in inbox' : m.acct \in Accounts /\ (m.copy = Nothing \/ GoodCopy(m.acct, m.copy))
  PROVE  ListInv'
  <1>1. GoodVault(vault') /\ cursor' \in Rows(vault') \cup {Nothing}
    BY DEF ListInv
  <1>2. GoodCache(vault', replaced', cache')
    OBVIOUS
  <1>. QED BY <1>1, <1>2 DEF ListInv

\* The list as it is after a step that shows new copies.
LEMMA ListShown ==
  ASSUME ListInv, Outside, unlocked' \subseteq Accounts, left' \in 0 .. MaxOthers,
         remote' \in [Keys -> 0 .. Trash], db' \in [Keys -> 0 .. Trash],
         NEW V, GoodVault(V), NEW c, GoodCache(V, replaced, c), NEW u,
         NEW ps \in SUBSET (Rows(V) \cup {Nothing}), Show(V, c, ps, u)
  PROVE  ListInv'
  <1>1. vault' = V /\ cursor' \in Rows(V) \cup {Nothing} /\ GoodCache(V, replaced, cache')
    BY ShowGood
  <1>2. replaced' = replaced /\ todo' = todo /\ inbox' = inbox
    BY DEF Outside
  <1>3. GoodVault(vault') /\ cursor' \in Rows(vault') \cup {Nothing}
        /\ GoodCache(vault', replaced', cache')
    BY <1>1, <1>2
  <1>. QED BY <1>2, <1>3 DEF ListInv

\* The modes that hold nothing of an entry which a new list could change.
Quiet(m) ==
  /\ Typed(m) /\ m.kind \notin {"Edit", "Confirm"}
  /\ m.kind \in Gates \cup {"Expired"} => m.acct \in Accounts

LEMMA QuietMode ==
  ASSUME Quiet(mode')
  PROVE  ModeInv'
  BY DEF Quiet, ModeInv

LEMMA ModeTyped ==
  ASSUME NEW which \in ModeKinds, NEW acct \in Accounts \cup {Nothing}, NEW of,
         of \in Keys \cup {Nothing} \/ ~Clean(of[1]), NEW rev, NEW us \in SUBSET Accounts
  PROVE  /\ Typed(Mode(which, acct, of, rev, us))
         /\ Mode(which, acct, of, rev, us).kind = which
         /\ Mode(which, acct, of, rev, us).acct = acct
         /\ Mode(which, acct, of, rev, us).of = of
         /\ Mode(which, acct, of, rev, us).rev = rev
  BY DEF Mode, Typed

LEMMA QuietModes ==
  /\ Quiet(List)
  /\ \A u \in SUBSET Accounts : Quiet(Panel(u))
  /\ \A a \in Accounts :
       Quiet(Prompt("Locked", a)) /\ Quiet(Prompt("Screen", a)) /\ Quiet(Prompt("Expired", a))
  <1>1. Quiet(List)
    BY ModeTyped DEF Quiet, List, Gates, ModeKinds
  <1>2. ASSUME NEW u \in SUBSET Accounts PROVE Quiet(Panel(u))
    BY <1>2, ModeTyped DEF Quiet, Panel, Gates, ModeKinds
  <1>3. ASSUME NEW a \in Accounts, NEW which \in {"Locked", "Screen", "Expired"}
        PROVE  Quiet(Prompt(which, a))
    BY <1>3, ModeTyped DEF Quiet, Prompt, Gates, ModeKinds
  <1>. QED BY <1>1, <1>2, <1>3

\* What the server makes of an entry is a revision, or the trash.
LEMMA ServerTyped ==
  ASSUME ListInv, NEW k, Bump(k) \/ Delete(k) \/ SaveAdd(k)
  PROVE  remote' \in [Keys -> 0 .. Trash]
  <1>1. ASSUME NEW x, NEW r \in 0 .. Trash, ServerWrites(x, r)
        PROVE  remote' \in [Keys -> 0 .. Trash]
    BY <1>1 DEF ListInv, ServerWrites
  <1>2. CASE Bump(k)
    <2>1. remote[k] + 1 \in 0 .. Trash /\ ServerWrites(k, remote[k] + 1)
      BY <1>2, RevisionsTyped DEF Bump
    <2>. QED BY <1>1, <2>1
  <1>3. CASE Delete(k)
    <2>1. Trash \in 0 .. Trash
      BY RevisionsTyped
    <2>. QED BY <1>1, <1>3, <2>1 DEF Delete
  <1>4. CASE SaveAdd(k)
    <2>1. 1 \in 0 .. Trash
      BY RevisionsTyped
    <2>. QED BY <1>1, <1>4, <2>1 DEF SaveAdd
  <1>. QED BY <1>2, <1>3, <1>4

\* A reload after a write, with the sync it follows.
LEMMA ReloadedGood ==
  ASSUME ListInv, NEW a, Reloaded(a), remote' \in [Keys -> 0 .. Trash]
  PROVE  ListInv'
  <1>. DEFINE V == [vault EXCEPT ![a] = Copy(a, db', unlocked)]
  <1>1. db' \in [Keys -> 0 .. Trash]
    BY DEF Reloaded, AsSynced, ListInv
  <1>2. GoodVault(V) /\ GoodCache(V, replaced, Without(cache, a))
    BY <1>1, CopyGood, LoadedGood
  <1>3. Kept(cursor, V) \in SUBSET (Rows(V) \cup {Nothing})
    BY KeptGood
  <1>4. /\ Show(V, Without(cache, a), Kept(cursor, V), unlocked)
        /\ Outside /\ unlocked' \subseteq Accounts /\ left' \in 0 .. MaxOthers
    BY DEF Reloaded, ListInv
  <1>. QED BY <1>1, <1>2, <1>3, <1>4, ListShown

LEMMA UnsyncedGood ==
  ASSUME ListInv, NEW m, Unsynced(m), remote' \in [Keys -> 0 .. Trash]
  PROVE  ListInv' /\ mode' = m /\ editor' = editor /\ vault' = vault /\ replaced' = replaced
         /\ cursor' = cursor
  <1>1. left' \in 0 .. MaxOthers
    BY TuiAssumption DEF Unsynced, Spend, ListInv
  <1>2. /\ UNCHANGED <<vault, cursor, replaced, todo, unlocked, db, cache, inbox, editor>>
        /\ mode' = m
    BY DEF Unsynced, Outside
  <1>3. ListInv'
    BY <1>1, <1>2, ListStays DEF ListInv
  <1>. QED BY <1>2, <1>3

LEMMA AccountTyped ==
  ASSUME ListInv
  PROVE  CurrentAccount \in Accounts
  BY TuiAssumption, KeysTyped DEF ListInv, Rows, CurrentAccount

\* The cursor's row, when there is one.
LEMMA CursorShown ==
  ASSUME ListInv, cursor # Nothing
  PROVE  /\ cursor \in Keys /\ cursor[1] \in Accounts /\ EntryAt(vault, cursor)[1] = cursor[1]
         /\ Clean(cursor[1]) => EntryAt(vault, cursor) = cursor
         /\ vault[cursor[1]] # Nothing
  <1>1. cursor \in Keys /\ cursor[1] \in Accounts /\ vault[cursor[1]] # Nothing
    BY KeysTyped DEF ListInv, Rows
  <1>2. EntryAt(vault, cursor)[1] = cursor[1]
    BY DEF EntryAt
  <1>3. Clean(cursor[1]) => EntryAt(vault, cursor) = cursor
    BY RowIsEntry DEF ListInv
  <1>. QED BY <1>1, <1>2, <1>3

\* What is in the cache was shown, and a form can be filled from it.
LEMMA CacheShown ==
  ASSUME NEW c, GoodCache(vault, replaced, c), NEW k \in Keys, c[k] # Nothing
  PROVE  /\ c[k][1] \in Keys \/ ~Clean(c[k][1][1])
         /\ Clean(k[1]) => c[k][1] = k
         /\ Shown(vault, replaced, c[k][1], c[k][2])
  BY DEF GoodCache, GoodDetail

\* A form, a question and an editor stay as true as they were when the copies,
\* the cursor and the account of what was replaced do.
LEMMA ModeStays ==
  ASSUME TuiInv, UNCHANGED <<vault, replaced, cursor, mode>>
  PROVE  ModeInv'
  BY DEF TuiInv, ModeInv, Shown

LEMMA EditorStays ==
  ASSUME TuiInv, UNCHANGED <<vault, replaced, editor>>
  PROVE  EditorInv'
  BY DEF TuiInv, EditorInv, Shown

LEMMA NoEditor ==
  ASSUME editor' = Nothing
  PROVE  EditorInv'
  BY DEF EditorInv

LEMMA TuiInvInit == TuiInit => TuiInv
  <1>. SUFFICES ASSUME TuiInit PROVE TuiInv
    OBVIOUS
  <1>1. /\ unlocked \subseteq Accounts /\ remote \in [Keys -> 0 .. Trash] /\ db = remote
        /\ left \in 0 .. MaxOthers
    BY TuiAssumption, RevisionsTyped DEF TuiInit
  <1>2. GoodVault(vault)
    <2>1. GoodCopy(Target, Copy(Target, db, unlocked))
      BY <1>1, CopyGood
    <2>2. vault = [a \in Accounts |-> IF a = Target THEN Copy(Target, db, unlocked) ELSE Nothing]
      BY DEF TuiInit
    <2>. DEFINE C == Copy(Target, db, unlocked)
    <2>. HIDE DEF C
    <2>. QED BY <2>1, <2>2 DEF GoodVault, C
  <1>3. GoodCache(vault, replaced, cache) /\ cursor \in Rows(vault) \cup {Nothing}
    BY <1>2, NoDetailsGood, EnsuredGood DEF TuiInit
  <1>4. ListInv
    BY <1>1, <1>2, <1>3 DEF ListInv, TuiInit
  <1>5. ModeInv
    BY QuietModes DEF TuiInit, ModeInv, Quiet
  <1>. QED BY <1>4, <1>5 DEF TuiInv, EditorInv, TuiInit

LEMMA SelectionKeeps ==
  ASSUME TuiInv, MoveCursor PROVE TuiInv'
  <1>1. /\ Show(vault, cache, Rows(vault) \cup {Nothing}, unlocked) /\ Outside
        /\ UNCHANGED <<unlocked, remote, db, mode, editor, left>>
        /\ mode.kind = "List" /\ editor = Nothing
    BY DEF MoveCursor, At, Idle
  <1>2. GoodVault(vault) /\ GoodCache(vault, replaced, cache) /\ ListInv /\ Typed(mode)
    BY DEF TuiInv, ListInv, ModeInv
  <1>3. ListInv'
    <2>1. /\ unlocked' \subseteq Accounts /\ left' \in 0 .. MaxOthers
          /\ remote' \in [Keys -> 0 .. Trash] /\ db' \in [Keys -> 0 .. Trash]
      BY <1>1, <1>2 DEF ListInv
    <2>. QED BY <1>1, <1>2, <2>1, ListShown, KeptGood
  <1>4. ModeInv'
    BY <1>1, <1>2, QuietMode DEF Quiet, Gates
  <1>. QED BY <1>1, <1>3, <1>4, NoEditor DEF TuiInv

LEMMA SyncAllKeeps ==
  ASSUME TuiInv, SyncAll PROVE TuiInv'
  <1>. DEFINE V(F) == [a \in Accounts |-> IF a \in Loaded \ F THEN Copy(a, db', unlocked)
                                          ELSE vault[a]]
  <1>0. /\ ListInv /\ Typed(mode) /\ mode.kind = "List" /\ editor' = Nothing /\ Outside
        /\ unlocked' = unlocked /\ remote' = remote
    BY DEF TuiInv, ModeInv, SyncAll, At, Idle
  <1>1. PICK F \in SUBSET Loaded, expired \in BOOLEAN :
          /\ IF F = {} THEN ~expired /\ UNCHANGED left ELSE Spend
          /\ db' = [k \in Keys |-> IF k[1] \in Loaded \ F THEN remote[k] ELSE db[k]]
          /\ Show(V(F), NoDetails, Kept(cursor, V(F)), unlocked)
          /\ \/ ~expired /\ UNCHANGED mode
             \/ expired /\ \E a \in F : mode' = Prompt("Expired", a)
    BY DEF SyncAll
  <1>2. db' \in [Keys -> 0 .. Trash] /\ left' \in 0 .. MaxOthers
    BY <1>0, <1>1, TuiAssumption DEF ListInv, Spend
  <1>3. GoodVault(V(F))
    <2>1. ASSUME NEW a \in Accounts PROVE V(F)[a] = Nothing \/ GoodCopy(a, V(F)[a])
      <3>1. CASE a \in Loaded \ F
        <4>1. GoodCopy(a, Copy(a, db', unlocked))
          BY <1>2, CopyGood
        <4>. QED BY <3>1, <4>1
      <3>2. CASE a \notin Loaded \ F
        BY <1>0, <3>2 DEF ListInv, GoodVault
      <3>. QED BY <3>1, <3>2
    <2>. QED BY <2>1 DEF GoodVault
  <1>4. Kept(cursor, V(F)) \in SUBSET (Rows(V(F)) \cup {Nothing})
        /\ GoodCache(V(F), replaced, NoDetails)
    BY KeptGood, NoDetailsGood
  <1>5. ListInv'
    <2>1. unlocked' \subseteq Accounts /\ remote' \in [Keys -> 0 .. Trash]
      BY <1>0 DEF ListInv
    <2>. HIDE DEF V
    <2>. QED BY <1>0, <1>1, <1>2, <1>3, <1>4, <2>1, ListShown
  <1>6. Quiet(mode')
    <2>1. CASE UNCHANGED mode
      BY <1>0, <2>1 DEF Quiet, Gates
    <2>2. CASE \E a \in F : mode' = Prompt("Expired", a)
      BY <1>1, <2>2, QuietModes DEF Loaded
    <2>. QED BY <1>1, <2>1, <2>2
  <1>. QED BY <1>0, <1>5, <1>6, QuietMode, NoEditor DEF TuiInv

\* Loading an account that has been unlocked, from any of the modes it is done in.
LEMMA UnlockKeeps ==
  ASSUME TuiInv, editor = Nothing, NEW a \in Accounts,
         mode.kind \in Gates \cup {"Expired", "Accounts"}, UnlockAccount(a, mode)
  PROVE  TuiInv'
  <1>. DEFINE V == [vault EXCEPT ![a] = Copy(a, db, unlocked')]
  <1>0. ListInv /\ Typed(mode) /\ Quiet(mode)
    BY DEF TuiInv, ModeInv, Quiet, Gates
  <1>1. /\ unlocked' = unlocked \cup {a} /\ UNCHANGED <<remote, db, editor, left>> /\ Outside
        /\ Show(V, Without(cache, a), Kept(cursor, V), unlocked')
        /\ mode' = IF mode.kind \in Gates /\ mode.acct = a THEN List
                   ELSE Refreshed(mode, unlocked')
    BY DEF UnlockAccount
  <1>2. GoodVault(V) /\ GoodCache(V, replaced, Without(cache, a))
    <2>1. GoodCopy(a, Copy(a, db, unlocked'))
      BY <1>0, CopyGood DEF ListInv
    <2>. DEFINE C == Copy(a, db, unlocked')
    <2>. HIDE DEF C
    <2>2. [vault EXCEPT ![a] = C] = V
      BY DEF C
    <2>. QED BY <1>0, <2>1, <2>2, LoadedGood DEF C
  <1>3. Kept(cursor, V) \in SUBSET (Rows(V) \cup {Nothing})
    BY KeptGood
  <1>4. unlocked' \subseteq Accounts /\ left' \in 0 .. MaxOthers
        /\ remote' \in [Keys -> 0 .. Trash] /\ db' \in [Keys -> 0 .. Trash]
    BY <1>0, <1>1 DEF ListInv
  <1>5. ListInv'
    <2>. HIDE DEF V
    <2>. QED BY <1>0, <1>1, <1>2, <1>3, <1>4, ListShown
  <1>6. Quiet(mode')
    BY <1>0, <1>1, <1>4, QuietModes DEF Refreshed
  <1>. QED BY <1>1, <1>5, <1>6, QuietMode, NoEditor DEF TuiInv

LEMMA SyncAccountKeeps ==
  ASSUME TuiInv, editor = Nothing, NEW a, mode.kind = "Accounts", SyncAccount(a)
  PROVE  TuiInv'
  <1>. DEFINE V == [vault EXCEPT ![a] = Copy(a, db', unlocked)]
  <1>0. ListInv /\ Typed(mode)
    BY DEF TuiInv, ModeInv
  <1>1. /\ UNCHANGED <<unlocked, remote, editor, left>> /\ Outside
        /\ Show(V, NoDetails, Rows(V) \cup {Nothing}, unlocked)
        /\ db' = AsSynced(db, a) /\ mode' = Refreshed(mode, unlocked)
    BY DEF SyncAccount
  <1>2. db' \in [Keys -> 0 .. Trash]
    BY <1>0, <1>1 DEF AsSynced, ListInv
  <1>3. GoodVault(V) /\ GoodCache(V, replaced, NoDetails)
    BY <1>0, <1>2, CopyGood, LoadedGood, NoDetailsGood
  <1>4. Rows(V) \cup {Nothing} \in SUBSET (Rows(V) \cup {Nothing})
    OBVIOUS
  <1>5. unlocked' \subseteq Accounts /\ left' \in 0 .. MaxOthers
        /\ remote' \in [Keys -> 0 .. Trash]
    BY <1>0, <1>1 DEF ListInv
  <1>6. ListInv'
    <2>. HIDE DEF V
    <2>. QED BY <1>0, <1>1, <1>2, <1>3, <1>4, <1>5, ListShown
  <1>7. Quiet(mode')
    BY <1>0, <1>1, QuietModes DEF Refreshed, ListInv
  <1>. QED BY <1>1, <1>6, <1>7, QuietMode, NoEditor DEF TuiInv

LEMMA PanelKeeps ==
  ASSUME TuiInv, PanelUnlock \/ PanelSync \/ AcceptPrompt
  PROVE  TuiInv'
  <1>0. /\ Typed(mode) /\ mode.seen \subseteq Accounts /\ ListInv
        /\ mode.kind \in Gates \cup {"Expired"} => mode.acct \in Accounts
    BY DEF TuiInv, ModeInv, Typed
  <1>1. CASE PanelUnlock
    BY <1>1, UnlockKeeps DEF PanelUnlock, At, Idle
  <1>2. CASE PanelSync
    <2>0. editor = Nothing /\ mode.kind = "Accounts"
      BY <1>2 DEF PanelSync, At, Idle
    <2>1. PICK a \in mode.seen :
            SyncAccount(a) \/ (UNCHANGED remote /\ Unsynced(Prompt("Expired", a)))
      BY <1>2 DEF PanelSync
    <2>2. CASE SyncAccount(a)
      BY <2>0, <2>2, SyncAccountKeeps
    <2>3. CASE UNCHANGED remote /\ Unsynced(Prompt("Expired", a))
      <3>1. ListInv' /\ mode' = Prompt("Expired", a) /\ editor' = editor
        <4>1. remote' \in [Keys -> 0 .. Trash]
          BY <1>0, <2>3 DEF ListInv
        <4>. QED BY <1>0, <2>3, <4>1, UnsyncedGood
      <3>2. Quiet(mode')
        BY <1>0, <3>1, QuietModes
      <3>. QED BY <2>0, <3>1, <3>2, QuietMode, NoEditor DEF TuiInv
    <2>. QED BY <2>1, <2>2, <2>3
  <1>3. CASE AcceptPrompt
    BY <1>0, <1>3, UnlockKeeps DEF AcceptPrompt, Idle
  <1>. QED BY <1>1, <1>2, <1>3

\* The steps that only change the mode to one that holds no entry's text.
LEMMA QuietKeeps ==
  ASSUME TuiInv, OpenAccounts \/ CloseMode \/ LockScreen \/ PollAgentLock \/ ArmAttachment
  PROVE  TuiInv'
  <1>0. ListInv /\ Typed(mode)
    BY DEF TuiInv, ModeInv
  <1>1. /\ UNCHANGED <<remote, db, vault, cursor, editor, left>> /\ Outside
        /\ unlocked' \subseteq Accounts /\ editor = Nothing
    BY <1>0 DEF OpenAccounts, CloseMode, LockScreen, PollAgentLock, ArmAttachment, At, Idle,
                ListInv
  <1>2. GoodCache(vault, replaced, cache')
    BY <1>0, NoDetailsGood
    DEF OpenAccounts, CloseMode, LockScreen, PollAgentLock, ArmAttachment, ListInv
  <1>3. Quiet(mode')
    <2>1. CASE OpenAccounts
      BY <1>0, <2>1, QuietModes DEF OpenAccounts, ListInv
    <2>2. CASE CloseMode
      BY <2>2, QuietModes DEF CloseMode
    <2>3. CASE LockScreen \/ PollAgentLock
      BY <1>0, <2>3, QuietModes, AccountTyped DEF LockScreen, PollAgentLock
    <2>4. CASE ArmAttachment
      <3>1. mode' = [mode EXCEPT !.rev = 1] /\ mode.kind = "Attachments"
        BY <2>4 DEF ArmAttachment, At
      <3>2. mode' = Mode(mode.kind, mode.acct, mode.of, 1, mode.seen)
        BY <1>0, <3>1 DEF Typed, Mode
      <3>3. Typed(mode') /\ mode'.kind = "Attachments"
        BY <1>0, <3>1, <3>2, ModeTyped DEF Typed
      <3>. QED BY <3>3 DEF Quiet, Gates
    <2>. QED BY <2>1, <2>2, <2>3, <2>4
  <1>4. ListInv'
    BY <1>0, <1>1, <1>2, ListStays DEF ListInv, Outside
  <1>. QED BY <1>1, <1>3, <1>4, QuietMode, NoEditor DEF TuiInv

\* The steps that take down what is shown: a form, a question, an editor, and
\* what is done with attachments.
LEMMA ShownKeeps ==
  ASSUME TuiInv,
         StartEdit \/ StartAdd \/ AskDelete \/ OpenEditor \/ LeaveEditor \/ OpenAttachments
           \/ StartUpload
  PROVE  TuiInv'
  <1>0. ListInv /\ Typed(mode)
    BY DEF TuiInv, ModeInv
  <1>1. /\ UNCHANGED <<unlocked, remote, db, vault, cursor, left>> /\ Outside
        /\ GoodCache(vault, replaced, cache')
    <2>1. UNCHANGED <<unlocked, remote, db, vault, cursor, left>> /\ Outside
      BY DEF StartEdit, StartAdd, AskDelete, OpenEditor, LeaveEditor, OpenAttachments, StartUpload
    <2>2. cache' = cache \/ cache' = Ensured(vault, cache, cursor, unlocked)
      BY DEF StartEdit, StartAdd, AskDelete, OpenEditor, LeaveEditor, OpenAttachments, StartUpload
    <2>. QED BY <1>0, <2>1, <2>2, EnsuredGood DEF ListInv
  <1>2. ListInv' /\ vault' = vault /\ replaced' = replaced /\ cursor' = cursor
    BY <1>0, <1>1, ListStays DEF ListInv, Outside
  <1>3. {"Edit", "Confirm", "Attachments", "Upload"} \subseteq ModeKinds
    BY DEF ModeKinds
  <1>4. CASE StartEdit
    <2>1. /\ cursor # Nothing /\ cache[cursor] # Nothing /\ editor' = Nothing
          /\ mode' = Mode("Edit", cursor[1], cache[cursor][1], cache[cursor][2], {})
      BY <1>4 DEF StartEdit, At, Idle
    <2>2. /\ cursor[1] \in Accounts
          /\ cache[cursor][1] \in Keys \/ ~Clean(cache[cursor][1][1])
          /\ Shown(vault, replaced, cache[cursor][1], cache[cursor][2])
      BY <1>0, <2>1, CursorShown, CacheShown DEF ListInv
    <2>3. /\ Typed(mode') /\ mode'.kind = "Edit" /\ mode'.of = cache[cursor][1]
          /\ mode'.rev = cache[cursor][2]
      BY <1>3, <2>1, <2>2, ModeTyped
    <2>4. Shown(vault', replaced', mode'.of, mode'.rev)
      BY <1>2, <2>2, <2>3
    <2>5. ModeInv'
      BY <2>3, <2>4 DEF ModeInv, Gates
    <2>. QED BY <1>2, <2>1, <2>5, NoEditor DEF TuiInv
  <1>5. CASE StartAdd
    <2>1. mode' = Mode("Edit", CurrentAccount, Nothing, 0, {}) /\ editor' = Nothing
      BY <1>5 DEF StartAdd, At, Idle
    <2>2. Typed(mode') /\ mode'.kind = "Edit" /\ mode'.of = Nothing
      BY <1>0, <1>3, <2>1, AccountTyped, ModeTyped
    <2>3. ModeInv'
      BY <2>2 DEF ModeInv, Gates
    <2>. QED BY <1>2, <2>1, <2>3, NoEditor DEF TuiInv
  <1>6. CASE AskDelete
    <2>1. cursor # Nothing /\ mode' = Mode("Confirm", cursor[1], cursor, 0, {}) /\ editor' = Nothing
      BY <1>6 DEF AskDelete, At, Idle
    <2>2. /\ Typed(mode') /\ mode'.kind = "Confirm" /\ mode'.of = cursor
          /\ mode'.acct = cursor[1]
      BY <1>0, <1>3, <2>1, CursorShown, ModeTyped
    <2>3. ModeInv'
      BY <1>2, <2>1, <2>2 DEF ModeInv, Gates
    <2>. QED BY <1>2, <2>1, <2>3, NoEditor DEF TuiInv
  <1>7. CASE OpenEditor
    <2>. DEFINE c == Ensured(vault, cache, cursor, unlocked)
                e == EntryAt(vault, cursor)
    <2>1. /\ cursor # Nothing /\ c[e] # Nothing /\ editor' = <<e, c[e][2]>> /\ mode' = mode
      BY <1>7 DEF OpenEditor
    <2>2. e[1] = cursor[1] /\ (Clean(cursor[1]) => e = cursor /\ e \in Keys)
      BY <1>0, <2>1, CursorShown
    <2>3. GoodCache(vault, replaced, c)
      BY <1>0, EnsuredGood DEF ListInv
    <2>. HIDE DEF c, e
    <2>4. Shown(vault, replaced, e, c[e][2])
      <3>1. CASE Clean(e[1])
        BY <2>1, <2>2, <2>3, <3>1, CacheShown
      <3>2. CASE ~Clean(e[1])
        BY <3>2 DEF Shown
      <3>. QED BY <3>1, <3>2
    <2>5. editor' = <<editor'[1], editor'[2]>> /\ editor'[1] = e /\ editor'[2] = c[e][2]
      BY <2>1
    <2>6. EditorInv'
      BY <1>2, <2>4, <2>5 DEF EditorInv
    <2>. QED BY <1>2, <2>1, <2>6, ModeStays DEF TuiInv
  <1>8. CASE LeaveEditor
    <2>1. editor' = Nothing /\ mode' \in {List, mode}
      BY <1>8 DEF LeaveEditor
    <2>2. ModeInv'
      <3>1. CASE mode' = List
        BY <3>1, QuietModes, QuietMode
      <3>2. CASE mode' = mode
        BY <1>2, <3>2, ModeStays
      <3>. QED BY <2>1, <3>1, <3>2
    <2>. QED BY <1>2, <2>1, <2>2, NoEditor DEF TuiInv
  <1>9. CASE OpenAttachments
    <2>1. /\ cursor # Nothing /\ cache'[cursor] # Nothing /\ editor' = Nothing
          /\ mode' = Mode("Attachments", cursor[1], cache'[cursor][1], 0, {})
      BY <1>9 DEF OpenAttachments, At, Idle
    <2>2. /\ cursor[1] \in Accounts
          /\ cache'[cursor][1] \in Keys \/ ~Clean(cache'[cursor][1][1])
      BY <1>0, <1>1, <2>1, CursorShown, CacheShown
    <2>3. Quiet(mode')
      BY <1>3, <2>1, <2>2, ModeTyped DEF Quiet, Gates
    <2>. QED BY <1>2, <2>1, <2>3, QuietMode, NoEditor DEF TuiInv
  <1>10. CASE StartUpload
    <2>1. /\ cursor # Nothing /\ editor' = Nothing
          /\ mode' = Mode("Upload", cursor[1], EntryAt(vault, cursor), 0, {})
      BY <1>10 DEF StartUpload, At, Idle
    <2>2. /\ cursor[1] \in Accounts
          /\ EntryAt(vault, cursor) \in Keys \/ ~Clean(EntryAt(vault, cursor)[1])
      BY <1>0, <2>1, CursorShown
    <2>3. Quiet(mode')
      BY <1>3, <2>1, <2>2, ModeTyped DEF Quiet, Gates
    <2>. QED BY <1>2, <2>1, <2>3, QuietMode, NoEditor DEF TuiInv
  <1>. QED BY <1>4, <1>5, <1>6, <1>7, <1>8, <1>9, <1>10

\* A write that is done with: its form or question is closed or kept, and the
\* account loaded anew unless the sync fails.
LEMMA WriteKeeps ==
  ASSUME TuiInv, editor = Nothing, NEW a,
         NEW k, Bump(k) \/ Delete(k) \/ SaveAdd(k),
         \/ Reload(a, List) \/ Unsynced(List) \/ Unsynced(mode)
  PROVE  TuiInv'
  <1>0. ListInv /\ remote' \in [Keys -> 0 .. Trash]
    BY ServerTyped DEF TuiInv
  <1>1. CASE Reload(a, List)
    <2>1. Reloaded(a) /\ mode' = List /\ editor' = Nothing
      BY <1>1 DEF Reload
    <2>2. ListInv'
      BY <1>0, <2>1, ReloadedGood
    <2>. QED BY <2>1, <2>2, QuietModes, QuietMode, NoEditor DEF TuiInv
  <1>2. CASE Unsynced(List)
    <2>1. ListInv' /\ mode' = List /\ editor' = Nothing
      BY <1>0, <1>2, UnsyncedGood
    <2>. QED BY <2>1, QuietModes, QuietMode, NoEditor DEF TuiInv
  <1>3. CASE Unsynced(mode)
    <2>1. ListInv' /\ UNCHANGED <<vault, replaced, cursor, mode>> /\ editor' = Nothing
      BY <1>0, <1>3, UnsyncedGood
    <2>. QED BY <2>1, ModeStays, NoEditor DEF TuiInv
  <1>. QED BY <1>1, <1>2, <1>3

LEMMA WritesKeep ==
  ASSUME TuiInv,
         SubmitEdit \/ SubmitAdd \/ ConfirmDelete \/ ToggleArchived \/ SubmitUpload
  PROVE  TuiInv'
  <1>1. CASE SubmitEdit
    BY <1>1, WriteKeeps DEF SubmitEdit, At, Idle, SaveEdit
  <1>2. CASE SubmitAdd
    BY <1>2, WriteKeeps DEF SubmitAdd, At, Idle
  <1>3. CASE ConfirmDelete
    BY <1>3, WriteKeeps DEF ConfirmDelete, At, Idle
  <1>4. CASE ToggleArchived
    BY <1>4, WriteKeeps DEF ToggleArchived, At, Idle, Archive
  <1>5. CASE SubmitUpload
    BY <1>5, WriteKeeps DEF SubmitUpload, At, Idle, AttachmentCreate
  <1>. QED BY <1>1, <1>2, <1>3, <1>4, <1>5

LEMMA EditorSaveKeeps ==
  ASSUME TuiInv, SaveFromEditor
  PROVE  TuiInv'
  <1>0. /\ ListInv /\ editor' = Nothing /\ SaveEdit(editor[1])
        /\ \/ Reloaded(editor[1][1]) /\ mode' = List
           \/ Spend /\ UNCHANGED <<unlocked, db, vault, cache, cursor, mode>> /\ Outside
    BY DEF TuiInv, SaveFromEditor
  <1>1. remote' \in [Keys -> 0 .. Trash]
    BY <1>0, ServerTyped DEF SaveEdit
  <1>2. CASE Reloaded(editor[1][1]) /\ mode' = List
    BY <1>0, <1>1, <1>2, ReloadedGood, QuietModes, QuietMode, NoEditor DEF TuiInv
  <1>3. CASE Spend /\ UNCHANGED <<unlocked, db, vault, cache, cursor, mode>> /\ Outside
    <2>1. left' \in 0 .. MaxOthers /\ UNCHANGED <<vault, replaced, cursor, mode>>
      BY <1>0, <1>3, TuiAssumption DEF Spend, Outside, ListInv
    <2>2. ListInv'
      BY <1>0, <1>1, <1>3, <2>1, ListStays DEF ListInv, Outside
    <2>. QED BY <1>0, <2>1, <2>2, ModeStays, NoEditor DEF TuiInv
  <1>. QED BY <1>0, <1>2, <1>3

LEMMA DeleteAttachmentKeeps ==
  ASSUME TuiInv, DeleteAttachment
  PROVE  TuiInv'
  <1>0. /\ ListInv /\ editor = Nothing /\ Typed(mode) /\ mode.kind = "Attachments"
        /\ remote' \in [Keys -> 0 .. Trash]
    BY ServerTyped DEF TuiInv, ModeInv, DeleteAttachment, AttachmentDelete, At, Idle
  <1>1. CASE Unsynced(mode)
    <2>1. ListInv' /\ UNCHANGED <<vault, replaced, cursor, mode>> /\ editor' = Nothing
      BY <1>0, <1>1, UnsyncedGood
    <2>. QED BY <2>1, ModeStays, NoEditor DEF TuiInv
  <1>2. CASE /\ Reloaded(cursor[1])
             /\ mode' = IF cursor' = Nothing \/ cache'[cursor'] = Nothing THEN mode
                        ELSE Mode("Attachments", cursor'[1], cache'[cursor'][1], 0, {})
             /\ UNCHANGED editor
    <2>1. ListInv'
      BY <1>0, <1>2, ReloadedGood
    <2>2. Quiet(mode')
      <3>1. CASE mode' = mode
        BY <1>0, <3>1 DEF Quiet, Gates
      <3>2. CASE /\ cursor' # Nothing /\ cache'[cursor'] # Nothing
                 /\ mode' = Mode("Attachments", cursor'[1], cache'[cursor'][1], 0, {})
        <4>1. cursor' \in Keys
          BY <2>1, <3>2 DEF ListInv, Rows
        <4>2. /\ cache'[cursor'][1] \in Keys \/ ~Clean(cache'[cursor'][1][1])
              /\ cursor'[1] \in Accounts
          BY <2>1, <3>2, <4>1, KeysTyped DEF ListInv, GoodCache, GoodDetail
        <4>3. "Attachments" \in ModeKinds
          BY DEF ModeKinds
        <4>. QED BY <3>2, <4>2, <4>3, ModeTyped DEF Quiet, Gates
      <3>. QED BY <1>2, <3>1, <3>2
    <2>. QED BY <1>0, <1>2, <2>1, <2>2, QuietMode, NoEditor DEF TuiInv
  <1>. QED BY <1>1, <1>2 DEF DeleteAttachment

LEMMA WorkerKeeps ==
  ASSUME TuiInv, WorkerStep
  PROVE  TuiInv'
  <1>0. ListInv
    BY DEF TuiInv
  <1>1. PICK a \in todo :
          /\ todo' = todo \ {a}
          /\ unlocked' \in {unlocked, unlocked \cup (Proactive \cap {a})}
          /\ inbox' = inbox \cup
               {[acct |-> a,
                 copy |-> IF a \in unlocked' THEN Copy(a, db, unlocked') ELSE Nothing]}
          /\ UNCHANGED <<remote, db, vault, cache, cursor, mode, editor, replaced, left>>
    BY DEF WorkerStep
  <1>2. ASSUME NEW m \in inbox'
        PROVE  m.acct \in Accounts /\ (m.copy = Nothing \/ GoodCopy(m.acct, m.copy))
    <2>1. CASE m \in inbox
      BY <1>0, <2>1 DEF ListInv
    <2>2. CASE m \notin inbox
      <3>1. GoodCopy(a, Copy(a, db, unlocked'))
        BY <1>0, CopyGood DEF ListInv
      <3>2. m.acct = a /\ (m.copy = Nothing \/ m.copy = Copy(a, db, unlocked'))
        BY <1>1, <2>2
      <3>. DEFINE C == Copy(a, db, unlocked')
      <3>. HIDE DEF C
      <3>3. GoodCopy(a, C) /\ (m.copy = Nothing \/ m.copy = C)
        BY <3>1, <3>2 DEF C
      <3>. QED BY <1>0, <1>1, <3>2, <3>3 DEF ListInv
    <2>. QED BY <2>1, <2>2
  <1>3. ListInv'
    BY <1>0, <1>1, <1>2, TuiAssumption, ListStays DEF ListInv
  <1>. QED BY <1>1, <1>3, ModeStays, EditorStays DEF TuiInv

LEMMA ElsewhereKeeps ==
  ASSUME TuiInv, Elsewhere
  PROVE  TuiInv'
  <1>0. ListInv /\ UNCHANGED <<vault, cache, cursor, mode, editor, todo, inbox, replaced>>
    BY DEF TuiInv, Elsewhere
  <1>1. unlocked' \subseteq Accounts /\ left' \in 0 .. MaxOthers
    BY <1>0, TuiAssumption DEF Elsewhere, ListInv, Spend
  <1>2. remote' \in [Keys -> 0 .. Trash]
    <2>1. CASE remote' = remote
      BY <1>0, <2>1 DEF ListInv
    <2>2. ASSUME NEW k \in Keys, remote[k] < MaxRev, ServerWrites(k, remote[k] + 1)
          PROVE  remote' \in [Keys -> 0 .. Trash]
      <3>1. remote[k] + 1 \in 0 .. Trash
        BY <1>0, <2>2, RevisionsTyped DEF ListInv
      <3>. QED BY <1>0, <2>2, <3>1 DEF ListInv, ServerWrites
    <2>3. ASSUME NEW k \in Keys, ServerWrites(k, Trash) PROVE remote' \in [Keys -> 0 .. Trash]
      <3>1. Trash \in 0 .. Trash
        BY RevisionsTyped
      <3>. QED BY <1>0, <2>3, <3>1 DEF ListInv, ServerWrites
    <2>. QED BY <2>1, <2>2, <2>3 DEF Elsewhere
  <1>3. db' \in [Keys -> 0 .. Trash]
    BY <1>0 DEF Elsewhere, ListInv
  <1>4. ListInv'
    BY <1>0, <1>1, <1>2, <1>3, ListStays DEF ListInv
  <1>. QED BY <1>0, <1>4, ModeStays, EditorStays DEF TuiInv

\* What the worker has loaded: a copy it replaces is counted among the replaced,
\* and the cursor leaves a row only when the row's account is.
LEMMA MessageKeeps ==
  ASSUME TuiInv, TakeMessage
  PROVE  TuiInv'
  <1>0. /\ ListInv /\ Typed(mode) /\ editor = Nothing
        /\ UNCHANGED <<unlocked, remote, db, editor, todo, left>>
    BY DEF TuiInv, ModeInv, TakeMessage, Idle
  <1>1. PICK m \in inbox :
          /\ inbox' = inbox \ {m}
          /\ mode' = Refreshed(mode, unlocked)
          /\ \/ /\ m.copy = Nothing
                /\ UNCHANGED <<vault, cache, cursor, replaced>>
             \/ /\ m.copy # Nothing
                /\ replaced' = IF m.acct \in Loaded THEN replaced \cup {m.acct} ELSE replaced
                /\ Show([vault EXCEPT ![m.acct] = m.copy], cache,
                        Kept(cursor, [vault EXCEPT ![m.acct] = m.copy]), unlocked)
    BY DEF TakeMessage
  <1>. DEFINE b == m.acct
              V == [vault EXCEPT ![b] = m.copy]
  <1>2. Quiet(mode') \/ mode' = mode
    BY <1>0, <1>1, QuietModes DEF Refreshed, ListInv
  <1>3. CASE UNCHANGED <<vault, cache, cursor, replaced>>
    <2>1. ListInv'
      BY <1>0, <1>1, <1>3, ListStays DEF ListInv
    <2>2. ModeInv'
      BY <1>2, <1>3, ModeStays, QuietMode
    <2>. QED BY <1>0, <2>1, <2>2, NoEditor DEF TuiInv
  <1>4. CASE /\ m.copy # Nothing
             /\ replaced' = IF b \in Loaded THEN replaced \cup {b} ELSE replaced
             /\ Show(V, cache, Kept(cursor, V), unlocked)
    <2>1. b \in Accounts /\ GoodCopy(b, m.copy)
      BY <1>0, <1>4 DEF ListInv
    <2>2. /\ GoodVault(V) /\ V[b] # Nothing
          /\ \A a \in Accounts : a # b => V[a] = vault[a]
      <3>1. GoodVault(V)
        BY <1>0, <2>1, LoadedGood
      <3>2. V = [a \in Accounts |-> IF a = b THEN m.copy ELSE vault[a]]
        BY <1>0 DEF ListInv, GoodVault
      <3>. QED BY <1>4, <2>1, <3>1, <3>2
    <2>3. replaced \subseteq replaced' /\ replaced' \subseteq Accounts
      BY <1>0, <1>4, <2>1 DEF ListInv
    <2>4. ASSUME NEW e, NEW rev, Shown(vault, replaced, e, rev)
          PROVE  Shown(V, replaced', e, rev)
      <3>1. CASE ~Clean(e[1])
        BY <3>1 DEF Shown
      <3>2. CASE Clean(e[1])
        <4>1. e[1] \in Accounts /\ vault[e[1]] # Nothing
          BY <2>4, <3>2, KeysTyped DEF Shown
        <4>2. V[e[1]] = vault[e[1]] \/ (V[e[1]] # Nothing /\ e[1] \in replaced')
          BY <1>4, <2>1, <2>2, <4>1 DEF Loaded
        <4>. HIDE DEF V, b
        <4>. QED BY <2>3, <2>4, <4>2, ShownStays
      <3>. QED BY <3>1, <3>2
    <2>. HIDE DEF V, b
    <2>5. GoodCache(V, replaced', cache)
      BY <1>0, <2>4 DEF ListInv, GoodCache, GoodDetail
    <2>6. Kept(cursor, V) \in SUBSET (Rows(V) \cup {Nothing})
      BY KeptGood
    <2>7. /\ vault' = V /\ cursor' \in Kept(cursor, V) /\ cursor' \in Rows(V) \cup {Nothing}
          /\ GoodCache(V, replaced', cache')
      BY <1>4, <2>2, <2>5, <2>6, ShowGood
    <2>8. ListInv'
      <3>1. GoodVault(vault') /\ GoodCache(vault', replaced', cache')
            /\ cursor' \in Rows(vault') \cup {Nothing}
        BY <2>2, <2>7
      <3>2. inbox' \subseteq inbox
        BY <1>1
      <3>. QED BY <1>0, <2>3, <3>1, <3>2 DEF ListInv
    <2>9. ModeInv'
      <3>1. CASE Quiet(mode')
        BY <3>1, QuietMode
      <3>2. CASE mode' = mode
        <4>1. ModeInv
          BY DEF TuiInv
        <4>2. mode.kind = "Edit" /\ mode.of # Nothing => Shown(V, replaced', mode.of, mode.rev)
          BY <2>4, <4>1 DEF ModeInv
        <4>3. ASSUME mode.kind = "Confirm", mode.acct \notin replaced'
              PROVE  cursor # Nothing /\ mode.of = cursor /\ mode.acct = cursor[1]
                     /\ cursor' = cursor
          <5>1. cursor # Nothing /\ mode.of = cursor /\ mode.acct = cursor[1]
            BY <2>3, <4>1, <4>3 DEF ModeInv
          <5>2. cursor \in Rows(vault) /\ cursor[1] \in Accounts /\ vault[cursor[1]] # Nothing
            BY <1>0, <5>1, CursorShown DEF ListInv
          <5>3. cursor[1] # b
            BY <1>4, <4>3, <5>1, <5>2 DEF Loaded
          <5>4. cursor \in Rows(V)
            <6>1. V[cursor[1]] = vault[cursor[1]]
              BY <2>2, <5>2, <5>3
            <6>. QED BY <5>2, <6>1 DEF Rows
          <5>. QED BY <2>7, <5>1, <5>4, KeptGood
        <4>4. mode.kind = "Edit" /\ mode.of # Nothing
                => Shown(vault', replaced', mode.of, mode.rev)
          BY <2>7, <4>2
        <4>. QED BY <3>2, <4>1, <4>3, <4>4 DEF ModeInv
      <3>. QED BY <1>2, <3>1, <3>2
    <2>. QED BY <1>0, <2>8, <2>9, NoEditor DEF TuiInv
  <1>. QED BY <1>1, <1>3, <1>4

LEMMA TuiInvNext == TuiInv /\ [TuiNext]_tuiVars => TuiInv'
  <1>. SUFFICES ASSUME TuiInv, [TuiNext]_tuiVars PROVE TuiInv'
    OBVIOUS
  <1>1. CASE MoveCursor
    BY <1>1, SelectionKeeps
  <1>2. CASE SyncAll
    BY <1>2, SyncAllKeeps
  <1>3. CASE StartEdit \/ StartAdd \/ AskDelete \/ OpenEditor \/ LeaveEditor
               \/ OpenAttachments \/ StartUpload
    BY <1>3, ShownKeeps
  <1>4. CASE SubmitEdit \/ SubmitAdd \/ ConfirmDelete \/ ToggleArchived \/ SubmitUpload
    BY <1>4, WritesKeep
  <1>5. CASE SaveFromEditor
    BY <1>5, EditorSaveKeeps
  <1>6. CASE DeleteAttachment
    BY <1>6, DeleteAttachmentKeeps
  <1>7. CASE PanelUnlock \/ PanelSync \/ AcceptPrompt
    BY <1>7, PanelKeeps
  <1>8. CASE OpenAccounts \/ CloseMode \/ LockScreen \/ PollAgentLock \/ ArmAttachment
    BY <1>8, QuietKeeps
  <1>9. CASE WorkerStep
    BY <1>9, WorkerKeeps
  <1>10. CASE TakeMessage
    BY <1>10, MessageKeeps
  <1>11. CASE Elsewhere
    BY <1>11, ElsewhereKeeps
  <1>12. CASE UNCHANGED tuiVars
    <2>1. UNCHANGED <<unlocked, remote, db, vault, cache, cursor, mode, editor, todo, inbox,
                      replaced, left>>
      BY <1>12 DEF tuiVars
    <2>2. ListInv
      BY DEF TuiInv
    <2>3. ListInv'
      BY <2>1, <2>2, ListStays DEF ListInv
    <2>. QED BY <2>1, <2>3, ModeStays, EditorStays DEF TuiInv
  <1>. QED BY <1>1, <1>2, <1>3, <1>4, <1>5, <1>6, <1>7, <1>8, <1>9, <1>10, <1>11, <1>12 DEF TuiNext

LEMMA TuiInvariant == TuiSpec => []TuiInv
  <1>1. TuiInit => TuiInv
    BY TuiInvInit
  <1>2. TuiInv /\ [TuiNext]_tuiVars => TuiInv'
    BY TuiInvNext
  <1>. QED BY <1>1, <1>2, PTL DEF TuiSpec

\* A save of an entry at the server makes one revision, of that entry alone.
LEMMA SaveWrites ==
  ASSUME TuiInv, NEW e, SaveEdit(e), NEW k \in Keys
  PROVE  /\ k # e => remote'[k] = remote[k]
         /\ k = e => remote'[k] # Trash /\ RevAt(vault, k) = remote[k]
  <1>1. /\ remote' = [remote EXCEPT ![e] = remote[e] + 1] /\ remote[e] \in 1 .. MaxRev - 1
        /\ RevAt(vault, e) = remote[e] /\ remote \in [Keys -> 0 .. Trash]
    BY DEF SaveEdit, Bump, ServerWrites, ServerAccepts, TuiInv, ListInv
  <1>2. k = e => remote'[k] = remote[e] + 1
    BY <1>1
  <1>. QED BY <1>1, <1>2, RevisionsTyped

\* The steps that write nothing at the server.
LEMMA Writers ==
  ASSUME [TuiNext]_tuiVars
  PROVE  \/ remote' = remote
         \/ SubmitEdit \/ SubmitAdd \/ ConfirmDelete \/ ToggleArchived \/ SaveFromEditor
         \/ DeleteAttachment \/ SubmitUpload \/ Elsewhere
  <1>1. CASE \/ MoveCursor \/ SyncAll \/ StartEdit \/ StartAdd \/ AskDelete \/ OpenEditor
             \/ LeaveEditor \/ OpenAttachments \/ ArmAttachment \/ StartUpload
             \/ OpenAccounts \/ CloseMode
    BY <1>1 DEF MoveCursor, SyncAll, StartEdit, StartAdd, AskDelete, OpenEditor, LeaveEditor,
                OpenAttachments, ArmAttachment, StartUpload, OpenAccounts, CloseMode
  <1>2. CASE \/ PanelUnlock \/ PanelSync \/ LockScreen \/ AcceptPrompt \/ PollAgentLock
             \/ WorkerStep \/ TakeMessage \/ UNCHANGED tuiVars
    BY <1>2 DEF PanelUnlock, PanelSync, LockScreen, AcceptPrompt, PollAgentLock, WorkerStep,
                TakeMessage, UnlockAccount, SyncAccount, tuiVars
  <1>. QED BY <1>1, <1>2 DEF TuiNext

Confirmed ==
  \A k \in Keys :
    (/\ Clean(k[1]) /\ remote'[k] = Trash /\ remote[k] # Trash
     /\ mode.kind = "Confirm" /\ mode' # mode)
    => mode.of = k \/ mode.acct \in replaced

LEMMA ConfirmedNext == ASSUME TuiInv, [TuiNext]_tuiVars PROVE Confirmed
  <1>. SUFFICES ASSUME NEW k \in Keys, Clean(k[1]), remote'[k] = Trash, remote[k] # Trash,
                       mode.kind = "Confirm", mode' # mode, mode.acct \notin replaced
                PROVE  mode.of = k
    BY DEF Confirmed
  <1>1. CASE ConfirmDelete
    <2>1. cursor # Nothing /\ mode.of = cursor
      BY DEF TuiInv, ModeInv
    <2>2. remote' = [remote EXCEPT ![EntryAt(vault, cursor)] = Trash]
      BY <1>1 DEF ConfirmDelete, Delete, ServerWrites
    <2>3. k # EntryAt(vault, cursor) => remote'[k] = remote[k]
      BY <2>2 DEF TuiInv, ListInv
    <2>4. k = EntryAt(vault, cursor)
      BY <2>3
    <2>5. EntryAt(vault, cursor) = cursor
      BY <2>1, <2>4, CursorShown DEF TuiInv
    <2>. QED BY <2>1, <2>4, <2>5
  <1>2. CASE SaveFromEditor
    BY <1>2, SaveWrites DEF SaveFromEditor
  <1>3. CASE Elsewhere
    BY <1>3 DEF Elsewhere
  <1>. QED BY <1>1, <1>2, <1>3, Writers
           DEF At, SubmitEdit, SubmitAdd, ToggleArchived, DeleteAttachment, SubmitUpload

\* In an account whose entries all decrypt, a deletion moves to the trash the
\* entry the question named, for any accounts and entries, and whatever the
\* worker, the agent's lock and other clients do (confirm_delete acts on the row
\* of the cursor), unless the worker has replaced the list of the account.
THEOREM ConfirmedDeletions == TuiSpec => [][Confirmed]_tuiVars
  <1>1. TuiInv /\ [TuiNext]_tuiVars => [Confirmed]_tuiVars
    BY ConfirmedNext
  <1>. QED BY <1>1, TuiInvariant, PTL DEF TuiSpec

\* The same for all entries when all of them decrypt. Without that confirm_delete
\* may take another one, since a row is looked up by its position.
THEOREM DeletionsAsConfirmed ==
  ASSUME Broken = {}
  PROVE  TuiSpec => DeletesWhatWasConfirmed
  <1>1. \A k \in Keys : Clean(k[1])
    BY DEF Clean
  <1>2. [Confirmed]_tuiVars =>
          [\A k \in Keys :
             (/\ remote'[k] = Trash /\ remote[k] # Trash
              /\ mode.kind = "Confirm" /\ mode' # mode)
             => mode.of = k \/ mode.acct \in replaced]_tuiVars
    BY <1>1 DEF Confirmed
  <1>. QED BY <1>2, ConfirmedDeletions, PTL DEF DeletesWhatWasConfirmed

ReplacesSeen ==
  \A k \in Keys :
    Clean(k[1]) /\ remote'[k] = remote[k] + 1 =>
      /\ (mode.kind = "Edit" /\ mode' # mode /\ mode.of = k)
           => mode.rev = remote[k] \/ k[1] \in replaced
      /\ (editor # Nothing /\ editor' = Nothing)
           => editor = <<k, remote[k]>> \/ k[1] \in replaced

LEMMA ReplacesSeenNext == ASSUME TuiInv, [TuiNext]_tuiVars PROVE ReplacesSeen
  <1>. SUFFICES ASSUME NEW k \in Keys, Clean(k[1]), remote'[k] = remote[k] + 1,
                       k[1] \notin replaced
                PROVE  /\ (mode.kind = "Edit" /\ mode' # mode /\ mode.of = k)
                            => mode.rev = remote[k]
                       /\ (editor # Nothing /\ editor' = Nothing) => editor = <<k, remote[k]>>
    BY DEF ReplacesSeen
  <1>1. remote'[k] # remote[k] /\ k # Nothing
    <2>1. remote[k] \in Nat
      BY RevisionsTyped DEF TuiInv, ListInv
    <2>. QED BY <2>1, KeysTyped
  <1>2. ASSUME NEW e, SaveEdit(e) PROVE k = e /\ RevAt(vault, k) = remote[k]
    BY <1>1, <1>2, SaveWrites
  <1>3. ASSUME mode.kind = "Edit", mode' # mode, mode.of = k PROVE mode.rev = remote[k]
    <2>1. mode.rev = RevAt(vault, k)
      BY <1>1, <1>3 DEF TuiInv, ModeInv, Shown
    <2>2. \E e : SaveEdit(e)
      <3>1. CASE SubmitEdit
        BY <3>1 DEF SubmitEdit
      <3>2. CASE SaveFromEditor
        BY <3>2 DEF SaveFromEditor
      <3>3. CASE SubmitAdd
        BY <1>1, <1>3, <3>3 DEF SubmitAdd
      <3>4. CASE Elsewhere
        BY <1>3, <3>4 DEF Elsewhere
      <3>. QED BY <1>1, <1>3, <3>1, <3>2, <3>3, <3>4, Writers
               DEF At, ConfirmDelete, ToggleArchived, DeleteAttachment, SubmitUpload
    <2>. QED BY <1>2, <2>1, <2>2
  <1>4. ASSUME editor # Nothing, editor' = Nothing PROVE editor = <<k, remote[k]>>
    <2>1. SaveEdit(editor[1])
      <3>1. CASE SaveFromEditor
        BY <3>1 DEF SaveFromEditor
      <3>2. CASE Elsewhere
        BY <1>4, <3>2 DEF Elsewhere
      <3>. QED BY <1>1, <1>4, <3>1, <3>2, Writers
               DEF At, Idle, SubmitEdit, SubmitAdd, ConfirmDelete, ToggleArchived,
                   DeleteAttachment, SubmitUpload
    <2>2. editor = <<editor[1], editor[2]>> /\ Shown(vault, replaced, editor[1], editor[2])
      BY <1>4 DEF TuiInv, EditorInv
    <2>3. k = editor[1] /\ RevAt(vault, k) = remote[k]
      BY <1>2, <2>1
    <2>. QED BY <2>2, <2>3 DEF Shown
  <1>. QED BY <1>3, <1>4

\* In an account whose entries all decrypt, a form or an editor that is saved
\* replaces the revision it was filled from, whatever others write, lock or load
\* meanwhile (submit_form, edit_in_editor and the server's check of the
\* revision), unless the worker replaced the copy under it.
THEOREM SavesAreOfWhatWasSeen == TuiSpec => [][ReplacesSeen]_tuiVars
  <1>1. TuiInv /\ [TuiNext]_tuiVars => [ReplacesSeen]_tuiVars
    BY ReplacesSeenNext
  <1>. QED BY <1>1, TuiInvariant, PTL DEF TuiSpec

\* The same for all entries when all of them decrypt: edit_in_editor looks up the
\* entry as confirm_delete does.
THEOREM SavesReplaceTheSeen ==
  ASSUME Broken = {}
  PROVE  TuiSpec => SavesReplaceWhatWasSeen
  <1>1. \A k \in Keys : Clean(k[1])
    BY DEF Clean
  <1>2. [ReplacesSeen]_tuiVars =>
          [\A k \in Keys :
             remote'[k] = remote[k] + 1 =>
               /\ (mode.kind = "Edit" /\ mode' # mode /\ mode.of = k)
                    => mode.rev = remote[k] \/ k[1] \in replaced
               /\ (editor # Nothing /\ editor' = Nothing)
                    => editor = <<k, remote[k]>> \/ k[1] \in replaced]_tuiVars
    BY <1>1 DEF ReplacesSeen
  <1>. QED BY <1>2, SavesAreOfWhatWasSeen, PTL DEF SavesReplaceWhatWasSeen

\* Every variable of the terminal interface keeps its shape, as long as
\* everything decrypts: the cursor is on a row of the list or on none, whatever
\* is loaded, and details and forms are of entries there are.
THEOREM TuiTypeCorrect ==
  ASSUME Broken = {}
  PROVE  TuiSpec => []TuiTypeOK
  <1>1. TuiInv => TuiTypeOK
    <2>. SUFFICES ASSUME TuiInv PROVE TuiTypeOK
      OBVIOUS
    <2>0. \A a : Clean(a)
      BY DEF Clean
    <2>1. ASSUME NEW k \in Keys, cache[k] # Nothing PROVE cache[k] \in Keys \X (1 .. Trash)
      <3>. DEFINE x == cache[k]
      <3>1. GoodDetail(vault, replaced, k, x)
        BY <2>1 DEF TuiInv, ListInv, GoodCache
      <3>. HIDE DEF x
      <3>2. x = <<x[1], x[2]>> /\ x[1] \in Keys /\ x[2] \in 1 .. Trash
        BY <2>0, <3>1 DEF GoodDetail, Shown
      <3>3. x \in Keys \X (1 .. Trash)
        BY <3>2
      <3>. QED BY <3>3 DEF x
    <2>2. editor = Nothing \/ (editor[1] \in Keys /\ editor[2] \in 1 .. Trash)
      BY <2>0 DEF TuiInv, EditorInv, Shown
    <2>3. /\ mode.kind \in {"List", "Edit", "Confirm", "Attachments", "Upload", "Accounts",
                            "Locked", "Screen", "Expired"}
          /\ mode.acct \in Accounts \cup {Nothing} /\ mode.of \in Keys \cup {Nothing}
      BY <2>0 DEF TuiInv, ModeInv, Typed, ModeKinds
    <2>. QED BY <2>1, <2>2, <2>3 DEF TuiInv, ListInv, TuiTypeOK
  <1>. QED BY <1>1, TuiInvariant, PTL
=============================================================================
