------------------------------ MODULE Unlockd ------------------------------
(***************************************************************************)
(* rbw-unlockd, the root service that keeps a user's unlock credential and *)
(* hands it out after a scan of a finger (bin/rbw-unlockd/server.rs, with  *)
(* the scan in desktop.rs and the files in creds.rs). Every connection is  *)
(* a task of its own with one request. The credential of an enrolment may  *)
(* lie in two files, one per store; the failures of a user are counted in  *)
(* memory, and there is one fingerprint reader.                            *)
(*                                                                         *)
(* One user and one enrolment: files and failures of others are apart.     *)
(* Durations are in units of 30 seconds.                                   *)
(***************************************************************************)
EXTENDS Integers, FiniteSets

CONSTANTS
  Conns,         \* bound: connections at once
  Passwords,     \* passwords to enrol
  Nothing,       \* no credential in a file
  Unknown,       \* nothing is promised about the files
  Nobody,        \* the reader is free
  FreeFailures,  \* FREE_FAILURES
  MaxLockout,    \* MAX_LOCKOUT
  MaxCount,      \* bound: failures that are counted
  Budget         \* bound: requests and restarts

ASSUME ValueAssumption ==
  /\ Passwords # {}
  /\ Nothing \notin Passwords /\ Unknown \notin Passwords
  /\ Nothing # Unknown
  /\ Nobody \notin Conns
ASSUME ConnsAssumption == IsFiniteSet(Conns)
ASSUME BoundAssumption ==
  /\ FreeFailures \in Nat \ {0} /\ MaxLockout \in Nat \ {0}
  /\ MaxCount \in Nat /\ Budget \in Nat

VARIABLES
  tpm2, file,  \* content of the two files of the enrolment
  count,       \* failures counted
  wait,        \* what is left of the lockout
  reader,      \* whose claim the reader is under
  budget,
  pc, op,      \* per connection: its step, and what is asked
  store,       \* per connection: the store of an enrolment, or where a
               \* credential was found
  secret,      \* per connection: the password to enrol
  attempt,     \* per connection: fingers that did not match
  matched,     \* per connection: the scan succeeded
  acked,       \* history: the credential the last change promised
  alone,       \* history, per connection: no other change met this one
  overrun      \* history: failures counted during the lockout

files    == <<tpm2, file>>
lockVars == <<count, wait, overrun>>
history  == <<acked, alone>>
connVars == <<pc, op, store, secret, attempt, matched>>
vars == <<files, lockVars, reader, budget, connVars, history>>

Ops     == {"enroll", "unlock", "remove", "status"}
Stores  == {"tpm2", "file"}
PCs     == {"idle", "begin", "claim", "verify", "cleanup", "record",
            "write", "other", "read", "remove", "reply"}
\* The steps between the check of the lockout and the record of the scan.
Scanning == {"claim", "verify", "cleanup", "record"}
\* The steps at which a request changes the files.
Changing == {"other", "remove"}
Content == Passwords \union {Nothing}

TypeOK ==
  /\ tpm2 \in Content /\ file \in Content
  /\ count \in 0..MaxCount
  /\ wait \in 0..MaxLockout
  /\ overrun \in 0..MaxCount
  /\ reader \in Conns \union {Nobody}
  /\ budget \in 0..Budget
  /\ pc \in [Conns -> PCs]
  /\ op \in [Conns -> Ops]
  /\ store \in [Conns -> Stores]
  /\ secret \in [Conns -> Passwords]
  /\ attempt \in [Conns -> 0..2]
  /\ matched \in [Conns -> BOOLEAN]
  /\ acked \in Content \union {Unknown}
  /\ alone \in [Conns -> BOOLEAN]

AnyPassword == CHOOSE p \in Passwords : TRUE

Init ==
  /\ tpm2 = Nothing /\ file = Nothing
  /\ count = 0 /\ wait = 0 /\ overrun = 0
  /\ reader = Nobody
  /\ budget = Budget
  /\ pc = [c \in Conns |-> "idle"]
  /\ op = [c \in Conns |-> "status"]
  /\ store = [c \in Conns |-> "tpm2"]
  /\ secret = [c \in Conns |-> AnyPassword]
  /\ attempt = [c \in Conns |-> 0]
  /\ matched = [c \in Conns |-> FALSE]
  /\ acked = Nothing
  /\ alone = [c \in Conns |-> FALSE]

Spend == budget > 0 /\ budget' = budget - 1
Goto(c, p) == pc' = [pc EXCEPT ![c] = p]
-----------------------------------------------------------------------------
(* The lockout.                                                            *)

\* How long a user waits after the n-th failure in a row.
LockedFor_Uncapped(n) ==
  IF n < FreeFailures THEN 0 ELSE 2 ^ (n - FreeFailures)

LockedFor(n) ==
  LET excess  == n - FreeFailures
      doubled == 2 ^ (IF excess > 10 THEN 10 ELSE excess)
  IN IF n < FreeFailures THEN 0
     ELSE IF doubled < MaxLockout THEN doubled ELSE MaxLockout

\* 30 seconds pass.
Elapse ==
  /\ wait > 0
  /\ wait' = wait - 1
  /\ overrun' = IF wait = 1 THEN 0 ELSE overrun
  /\ UNCHANGED <<files, count, reader, budget, connVars, history>>

\* `record`.
Record(success) ==
  IF success THEN count' = 0 /\ wait' = 0 /\ overrun' = 0
  ELSE /\ count < MaxCount
       /\ count' = count + 1
       /\ wait' = LockedFor(count + 1)
       /\ overrun' = IF wait > 0 THEN overrun + 1 ELSE 0
-----------------------------------------------------------------------------
(* The files.                                                              *)

Held(s) == IF s = "tpm2" THEN tpm2 ELSE file
Other(s) == IF s = "tpm2" THEN "file" ELSE "tpm2"

Put(s, content) ==
  IF s = "tpm2" THEN tpm2' = content /\ UNCHANGED file
                ELSE file' = content /\ UNCHANGED tpm2

\* Where the credential is saved, if anywhere: the sealed one comes first.
Find == IF tpm2 # Nothing THEN tpm2 ELSE file

\* Connection c changes the files: nothing is promised until it is done, and
\* whoever else is changing them has company.
Disturb(c) ==
  /\ acked' = Unknown
  /\ alone' = [d \in Conns |->
                 d = c /\ \A e \in Conns \ {c} : pc[e] \notin Changing]

\* The change that c has made is acknowledged.
Promise(c, content) ==
  /\ acked' = IF alone[c] THEN content ELSE acked
  /\ alone' = [alone EXCEPT ![c] = FALSE]
-----------------------------------------------------------------------------
(* A connection.                                                           *)

\* A request arrives in time and names a proper id.
Accept(c) ==
  /\ pc[c] = "idle"
  /\ Spend
  /\ \E o \in Ops : op' = [op EXCEPT ![c] = o]
  /\ \E s \in Stores, p \in Passwords :
       /\ op'[c] # "enroll" => s = "tpm2" /\ p = secret[c]
       /\ store' = [store EXCEPT ![c] = s]
       /\ secret' = [secret EXCEPT ![c] = p]
  /\ Goto(c, "begin")
  /\ UNCHANGED <<files, lockVars, reader, attempt, matched, history>>

Status(c) ==
  /\ pc[c] = "begin" /\ op[c] = "status"
  /\ Goto(c, "reply")
  /\ UNCHANGED <<files, lockVars, reader, budget, op, store, secret, attempt,
                 matched, history>>

\* `check_lockout` of an enrolment, and of an unlock that has found where the
\* credential is. Otherwise the request is refused.
CheckLockout_Skipped(c) ==
  /\ pc[c] = "begin" /\ op[c] \in {"enroll", "unlock"}
  /\ LET found == op[c] = "enroll" \/ Find # Nothing
     IN Goto(c, IF found THEN "claim" ELSE "reply")
  /\ store' = [store EXCEPT ![c] =
                 IF op[c] = "enroll" THEN @
                 ELSE IF tpm2 # Nothing THEN "tpm2" ELSE "file"]
  /\ UNCHANGED <<files, lockVars, reader, budget, op, secret, attempt,
                 matched, history>>

CheckLockout(c) ==
  /\ pc[c] = "begin" /\ op[c] \in {"enroll", "unlock"}
  /\ LET found == op[c] = "enroll" \/ Find # Nothing
     IN Goto(c, IF found /\ wait = 0 THEN "claim" ELSE "reply")
  /\ store' = [store EXCEPT ![c] =
                 IF op[c] = "enroll" THEN @
                 ELSE IF tpm2 # Nothing THEN "tpm2" ELSE "file"]
  /\ UNCHANGED <<files, lockVars, reader, budget, op, secret, attempt,
                 matched, history>>

Claim(c) ==
  /\ pc[c] = "claim"
  /\ reader = Nobody
  /\ reader' = c
  /\ Goto(c, "verify")
  /\ UNCHANGED <<files, lockVars, budget, op, store, secret, attempt,
                 matched, history>>

\* There is no reader, another scan has it, or the client is gone.
ClaimFails(c) ==
  /\ pc[c] = "claim"
  /\ Goto(c, "record")
  /\ UNCHANGED <<files, lockVars, reader, budget, op, store, secret, attempt,
                 matched, history>>

Match(c) ==
  /\ pc[c] = "verify"
  /\ matched' = [matched EXCEPT ![c] = TRUE]
  /\ Goto(c, "cleanup")
  /\ UNCHANGED <<files, lockVars, reader, budget, op, store, secret, attempt,
                 history>>

\* The third finger that does not match ends the scan.
NoMatch_Unlimited(c) ==
  /\ pc[c] = "verify"
  /\ attempt' = [attempt EXCEPT ![c] = (@ + 1) % 3]
  /\ UNCHANGED <<files, lockVars, reader, budget, pc, op, store, secret,
                 matched, history>>

NoMatch(c) ==
  /\ pc[c] = "verify"
  /\ IF attempt[c] < 2
     THEN attempt' = [attempt EXCEPT ![c] = @ + 1] /\ UNCHANGED pc
     ELSE Goto(c, "cleanup") /\ UNCHANGED attempt
  /\ UNCHANGED <<files, lockVars, reader, budget, op, store, secret, matched,
                 history>>

\* 60 seconds are over, the reader fails, or the client closes its end.
Interrupt(c) ==
  /\ pc[c] = "verify"
  /\ Goto(c, "cleanup")
  /\ UNCHANGED <<files, lockVars, reader, budget, op, store, secret, attempt,
                 matched, history>>

\* VerifyStop and Release. Either may fail, and with it the scan; the claim
\* ends with the bus connection all the same.
Cleanup_Leaks(c) ==
  /\ pc[c] = "cleanup"
  /\ \E ok \in BOOLEAN :
       /\ matched' = [matched EXCEPT ![c] = @ /\ ok]
       /\ reader' = IF ok THEN Nobody ELSE reader
  /\ Goto(c, "record")
  /\ UNCHANGED <<files, lockVars, budget, op, store, secret, attempt, history>>

Cleanup(c) ==
  /\ pc[c] = "cleanup"
  /\ reader' = Nobody
  /\ \E ok \in BOOLEAN : matched' = [matched EXCEPT ![c] = @ /\ ok]
  /\ Goto(c, "record")
  /\ UNCHANGED <<files, lockVars, budget, op, store, secret, attempt, history>>

RecordScan(c) ==
  /\ pc[c] = "record"
  /\ Record(matched[c])
  /\ Goto(c, IF ~matched[c] THEN "reply"
             ELSE IF op[c] = "enroll" THEN "write" ELSE "read")
  /\ UNCHANGED <<files, reader, budget, op, store, secret, attempt, matched,
                 history>>

\* `creds::encrypt` or `write_private`: the file is replaced by a rename.
Write(c) ==
  /\ pc[c] = "write"
  /\ Put(store[c], secret[c])
  /\ Disturb(c)
  /\ Goto(c, "other")
  /\ UNCHANGED <<lockVars, reader, budget, op, store, secret, attempt,
                 matched>>

WriteFails(c) ==
  /\ pc[c] = "write"
  /\ Goto(c, "reply")
  /\ UNCHANGED <<files, lockVars, reader, budget, op, store, secret, attempt,
                 matched, history>>

\* The enrolment in the other store goes when the new one is written.
RemoveOther_Kept(c) ==
  /\ pc[c] = "other"
  /\ UNCHANGED files
  /\ Promise(c, secret[c])
  /\ Goto(c, "reply")
  /\ UNCHANGED <<lockVars, reader, budget, op, store, secret, attempt,
                 matched>>

RemoveOther(c) ==
  /\ pc[c] = "other"
  /\ Put(Other(store[c]), Nothing)
  /\ Promise(c, secret[c])
  /\ Goto(c, "reply")
  /\ UNCHANGED <<lockVars, reader, budget, op, store, secret, attempt,
                 matched>>

\* If it cannot be removed the new one goes, and the enrolment has failed.
RemoveOtherFails_Strips(c) ==
  /\ pc[c] = "other"
  /\ Held(Other(store[c])) # Nothing
  /\ tpm2' = Nothing /\ file' = Nothing
  /\ Disturb(c)
  /\ Goto(c, "reply")
  /\ UNCHANGED <<lockVars, reader, budget, op, store, secret, attempt,
                 matched>>

RemoveOtherFails(c) ==
  /\ pc[c] = "other"
  /\ Held(Other(store[c])) # Nothing
  /\ Put(store[c], Nothing)
  /\ Disturb(c)
  /\ Goto(c, "reply")
  /\ UNCHANGED <<lockVars, reader, budget, op, store, secret, attempt,
                 matched>>

\* The path was found before the scan; the file is read after it.
Read(c) ==
  /\ pc[c] = "read"
  /\ Goto(c, "reply")
  /\ UNCHANGED <<files, lockVars, reader, budget, op, store, secret, attempt,
                 matched, history>>

\* A removal needs no finger. It deletes the sealed file, and then the other.
RemoveSealed(c) ==
  /\ pc[c] = "begin" /\ op[c] = "remove"
  /\ tpm2' = Nothing
  /\ Disturb(c)
  /\ Goto(c, "remove")
  /\ UNCHANGED <<file, lockVars, reader, budget, op, store, secret, attempt,
                 matched>>

RemoveFile(c) ==
  /\ pc[c] = "remove"
  /\ file' = Nothing
  /\ Promise(c, Nothing)
  /\ Goto(c, "reply")
  /\ UNCHANGED <<tpm2, lockVars, reader, budget, op, store, secret, attempt,
                 matched>>

\* One of the two files cannot be deleted.
RemoveFails(c) ==
  /\ op[c] = "remove" /\ pc[c] \in {"begin", "remove"}
  /\ Held(IF pc[c] = "begin" THEN "tpm2" ELSE "file") # Nothing
  /\ Goto(c, "reply")
  /\ UNCHANGED <<files, lockVars, reader, budget, op, store, secret, attempt,
                 matched, history>>

\* The answer is sent, or nobody is there to read it.
Reply(c) ==
  /\ pc[c] = "reply"
  /\ Goto(c, "idle")
  /\ op' = [op EXCEPT ![c] = "status"]
  /\ store' = [store EXCEPT ![c] = "tpm2"]
  /\ secret' = [secret EXCEPT ![c] = AnyPassword]
  /\ attempt' = [attempt EXCEPT ![c] = 0]
  /\ matched' = [matched EXCEPT ![c] = FALSE]
  /\ UNCHANGED <<files, lockVars, reader, budget, history>>

\* The service is killed and started again: connections, failures and the
\* claim on the reader are gone, the files stay.
Restart ==
  /\ Spend
  /\ count' = 0 /\ wait' = 0 /\ overrun' = 0
  /\ reader' = Nobody
  /\ pc' = [c \in Conns |-> "idle"]
  /\ op' = [c \in Conns |-> "status"]
  /\ store' = [c \in Conns |-> "tpm2"]
  /\ secret' = [c \in Conns |-> AnyPassword]
  /\ attempt' = [c \in Conns |-> 0]
  /\ matched' = [c \in Conns |-> FALSE]
  /\ UNCHANGED <<files, history>>
-----------------------------------------------------------------------------
ScanStep(c) == ClaimFails(c) \/ Claim(c) \/ Match(c) \/ NoMatch(c)
               \/ Interrupt(c) \/ Cleanup(c) \/ RecordScan(c)
FileStep(c) == Write(c) \/ WriteFails(c) \/ RemoveOther(c)
               \/ RemoveOtherFails(c) \/ Read(c) \/ RemoveSealed(c)
               \/ RemoveFile(c) \/ RemoveFails(c)
Step(c) == Status(c) \/ CheckLockout(c) \/ ScanStep(c) \/ FileStep(c)
           \/ Reply(c)

Next == Elapse \/ Restart \/ \E c \in Conns : Accept(c) \/ Step(c)

Spec == Init /\ [][Next]_vars

\* The runtime polls every connection, a scan has a deadline of 60 seconds,
\* and so have its clean-up and the calls of systemd-creds.
FairSpec == Spec /\ WF_vars(Elapse) /\ \A c \in Conns : WF_vars(Step(c))
-----------------------------------------------------------------------------
(* Properties.                                                             *)

\* After an acknowledged enrolment the next unlock gives that password, and
\* after an acknowledged removal none, whatever failed, was cancelled or was
\* killed before: server.rs looks into the sealed store first, so a file it
\* forgot there would hide the new enrolment. Changes that overlapped with
\* another promise nothing.
AckedIsServed == acked # Unknown => Find = acked

\* The check of the lockout and the record of the scan are apart, so scans
\* that were under way when the lockout began still count; but they are the
\* only ones: however the connections interleave, a lockout is overrun by at
\* most one failure per connection.
OverrunBounded ==
  wait > 0 => overrun + Cardinality({c \in Conns : pc[c] \in Scanning})
                <= Cardinality(Conns) - 1

\* An enrolment only disappears while it is being removed: replacing it by
\* another, in either store, keeps the old one until the new one is there,
\* unless two replacements meet.
OnlyRemovalForgets ==
  [][Find # Nothing /\ Find' = Nothing =>
       \E c \in Conns : \/ op[c] = "remove" /\ pc[c] \in {"begin", "remove"}
                        \/ pc[c] = "other" /\ ~alone[c]]_vars

\* Every connection is answered, whatever the reader and the client do.
RequestsEnd == \A c \in Conns : pc[c] # "idle" ~> pc[c] = "idle"

\* The reader is given back after every scan, also after one that failed.
ReaderReturns == []<>(reader = Nobody)
=============================================================================
