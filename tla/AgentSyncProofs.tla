-------------------------- MODULE AgentSyncProofs --------------------------
(***************************************************************************)
(* The invariants of AgentSync for every set of accounts and of tasks.     *)
(***************************************************************************)
EXTENDS AgentSync, SequenceTheorems, TLAPS

----------------------------------------------------------------------------
(* Types. A task at work has an account before it, or Current would be      *)
(* undefined: the two are inductive together.                              *)

Busy == \A t \in Tasks : pc[t] # "idle" => todo[t] # <<>>

LEMMA TypeInit == Init => TypeOK /\ Busy
<1>1. ASSUME Init PROVE TypeOK
  <2>1. server \in [Accounts -> Revs] /\ snap \in [Tasks -> Revs] /\ db \in [Accounts -> Revs]
    BY <1>1, RevAssumption DEF Init, Revs
  <2>2. todo \in [Tasks -> Seq(Accounts)]
    BY <1>1 DEF Init
  <2>3. timerReqs \in Nat
    BY <1>1 DEF Init
  <2>4. QED
    BY <1>1, <2>1, <2>2, <2>3 DEF Init, TypeOK, PCs
<1>2. ASSUME Init PROVE Busy
  BY <1>2 DEF Init, Busy
<1>3. QED
  BY <1>1, <1>2

LEMMA CurrentType ==
  ASSUME TypeOK, Busy, NEW t \in Tasks, pc[t] # "idle"
  PROVE  Current(t) \in Accounts
BY HeadTailProperties DEF TypeOK, Busy, Current

LEMMA SpawnType ==
  ASSUME TypeOK, Busy, NEW t \in Tasks, NEW s \in Seq(Accounts), s # <<>>, Spawn(t, s)
  PROVE  /\ pc' \in [Tasks -> PCs]
         /\ todo' \in [Tasks -> Seq(Accounts)]
         /\ Busy'
BY DEF TypeOK, Busy, Spawn, PCs

LEMMA GotoType ==
  ASSUME TypeOK, Busy, NEW t \in Tasks, pc[t] # "idle", NEW step \in PCs, Goto(t, step)
  PROVE  /\ pc' \in [Tasks -> PCs]
         /\ todo' \in [Tasks -> Seq(Accounts)]
         /\ Busy'
BY DEF TypeOK, Busy, Goto

LEMMA NextAccountType ==
  ASSUME TypeOK, Busy, NEW t \in Tasks, pc[t] # "idle", NextAccount(t)
  PROVE  /\ pc' \in [Tasks -> PCs]
         /\ todo' \in [Tasks -> Seq(Accounts)]
         /\ Busy'
<1>1. todo[t] \in Seq(Accounts) /\ todo[t] # <<>>
  BY DEF TypeOK, Busy
<1>2. Tail(todo[t]) \in Seq(Accounts)
  BY <1>1, HeadTailProperties
<1>3. Len(todo[t]) # 1 => Tail(todo[t]) # <<>>
  <2>1. Len(todo[t]) \in Nat /\ Len(Tail(todo[t])) = Len(todo[t]) - 1
    BY <1>1, HeadTailProperties
  <2>2. \A n \in Nat : n - 1 = 0 => n = 1
    OBVIOUS
  <2>3. QED
    BY <2>1, <2>2, EmptySeq
<1>4. todo' \in [Tasks -> Seq(Accounts)]
  BY <1>2 DEF TypeOK, NextAccount
<1>5. pc' \in [Tasks -> PCs]
  BY DEF TypeOK, NextAccount, PCs
<1>6. Busy'
  BY <1>3 DEF TypeOK, Busy, NextAccount
<1>7. QED
  BY <1>4, <1>5, <1>6

LEMMA TypeNext ==
  ASSUME TypeOK, Busy, [Next]_vars
  PROVE  TypeOK' /\ Busy'
<1> USE DEF pushVars, timerVars, taskVars
<1>1. CASE Deliver
  BY <1>1 DEF Deliver, TypeOK, Busy
<1>2. CASE ConnectionLost
  BY <1>2 DEF ConnectionLost, TypeOK, Busy
<1>3. CASE TimerRequest
  BY <1>3 DEF TimerRequest, TypeOK, Busy
<1>4. CASE TimerFire
  BY <1>4 DEF TimerFire, TypeOK, Busy
<1>5. CASE SetSyncTimeout
  BY <1>5 DEF SetSyncTimeout, TypeOK, Busy
<1>6. ASSUME NEW a \in Accounts, Change(a) PROVE TypeOK' /\ Busy'
  <2>1. server' \in [Accounts -> Revs] /\ wire' \in Nat
    BY <1>6, RevAssumption DEF Change, TypeOK, Revs
  <2>2. QED
    BY <1>6, <2>1 DEF Change, TypeOK, Busy
<1>7. ASSUME NEW a \in Accounts, Lock(a) \/ Consult(a) PROVE TypeOK' /\ Busy'
  BY <1>7 DEF Lock, Consult, TypeOK, Busy
<1>8. ASSUME NEW t \in Tasks, TaskStep(t) PROVE TypeOK' /\ Busy'
  <2>0. ASSUME NEW others, NEW place \in Accounts \union {Dialing}, Meet(others, place)
        PROVE  met' \subseteq Accounts \union {Dialing}
    BY <2>0 DEF Meet, TypeOK
  <2>1. pc[t] # "idle"
    BY <1>8 DEF TaskStep, Fetch, FetchFails, Save, SetReprompt, CheckConnected, Dial, Dialed
  <2>2. Current(t) \in Accounts
    BY <2>1, CurrentType
  <2>3. ASSUME NextAccount(t)
        PROVE pc' \in [Tasks -> PCs] /\ todo' \in [Tasks -> Seq(Accounts)] /\ Busy'
    BY <2>1, <2>3, NextAccountType
  <2>4. ASSUME NEW step \in PCs, Goto(t, step)
        PROVE pc' \in [Tasks -> PCs] /\ todo' \in [Tasks -> Seq(Accounts)] /\ Busy'
    BY <2>1, <2>4, GotoType
  <2>5. CASE Fetch(t)
    BY <2>2, <2>4, <2>5 DEF Fetch, TypeOK, PCs
  <2>6. CASE FetchFails(t)
    BY <2>3, <2>6 DEF FetchFails, TypeOK
  <2>7. CASE Save(t)
    BY <2>2, <2>4, <2>7, <2>0 DEF Save, TypeOK, PCs
  <2>8. CASE SetReprompt(t)
    BY <2>4, <2>8 DEF SetReprompt, TypeOK, PCs
  <2>9. CASE CheckConnected(t)
    BY <2>3, <2>4, <2>9, <2>0 DEF CheckConnected, TypeOK, PCs
  <2>10. CASE Dial(t)
    <3>1. conn' \in Accounts \union {None} /\ channels' \subseteq {"agent"} /\ wire' \in Nat
      <4>1. CASE conn # None
        BY <2>10, <4>1 DEF Dial
      <4>2. CASE conn = None
        BY <2>10, <4>2 DEF Dial, TypeOK
      <4>3. QED
        BY <4>1, <4>2
    <3>2. QED
      BY <2>4, <2>10, <3>1 DEF Dial, TypeOK, PCs
  <2>11. CASE Dialed(t)
    BY <2>2, <2>3, <2>11 DEF Dialed, TypeOK
  <2>12. QED
    BY <1>8, <2>5, <2>6, <2>7, <2>8, <2>9, <2>10, <2>11 DEF TaskStep
<1>9. ASSUME NEW t \in Tasks, TakeEvent(t) PROVE TypeOK' /\ Busy'
  <2>1. ASSUME Spawn(t, AccountList)
        PROVE  pc' \in [Tasks -> PCs] /\ todo' \in [Tasks -> Seq(Accounts)] /\ Busy'
    BY <2>1, ListAssumption, SpawnType
  <2>2. CASE TakeTick(t)
    BY <2>1, <2>2 DEF TakeTick, TypeOK, Spawn
  <2>3. CASE TakeNotification(t)
    BY <2>1, <2>3 DEF TakeNotification, TypeOK, Spawn
  <2>4. QED
    BY <1>9, <2>2, <2>3 DEF TakeEvent
<1>10. ASSUME NEW t \in Tasks, NEW a \in Accounts, ClientSync(t, a) PROVE TypeOK' /\ Busy'
  <2>1. <<a>> \in Seq(Accounts) /\ <<a>> # <<>>
    OBVIOUS
  <2>2. pc' \in [Tasks -> PCs] /\ todo' \in [Tasks -> Seq(Accounts)] /\ Busy'
    BY <1>10, <2>1, SpawnType DEF ClientSync
  <2>3. QED
    BY <1>10, <2>2 DEF ClientSync, TypeOK, Spawn
<1>11. CASE UNCHANGED vars
  BY <1>11 DEF vars, TypeOK, Busy
<1>12. QED
  BY <1>1, <1>2, <1>3, <1>4, <1>5, <1>6, <1>7, <1>8, <1>9, <1>10, <1>11 DEF Next

\* Every variable keeps its type, and no task at work has run out of accounts
\* (sync_all).
THEOREM TypeCorrect == Spec => [](TypeOK /\ Busy)
<1>1. QED
  BY TypeInit, TypeNext, PTL DEF Spec

----------------------------------------------------------------------------
(* The chain of background syncs.                                          *)

LEMMA ChainNext ==
  ASSUME TypeOK, SyncStaysScheduled, [Next]_vars
  PROVE  SyncStaysScheduled'
<1> USE DEF SyncStaysScheduled, SyncPending
<1>1. CASE UNCHANGED <<timerVars, loop>>
  BY <1>1 DEF timerVars
<1>2. CASE TimerRequest
  BY <1>2 DEF TimerRequest
<1>3. CASE TimerFire
  <2>1. ticks' > 0
    BY <1>3 DEF TimerFire, TypeOK
  <2>2. QED
    BY <2>1
<1>4. CASE SetSyncTimeout
  <2>1. timerReqs' > 0
    BY <1>4 DEF SetSyncTimeout, TypeOK
  <2>2. QED
    BY <2>1
<1>5. ASSUME NEW t \in Tasks, TakeEvent(t) PROVE SyncStaysScheduled'
  BY <1>5 DEF TakeEvent, TakeTick, TakeNotification
<1>6. ASSUME NEW t \in Tasks, TaskStep(t) PROVE SyncStaysScheduled'
  BY <1>1, <1>6 DEF TaskStep, Fetch, FetchFails, Save, SetReprompt, CheckConnected, Dial, Dialed
<1>7. CASE Deliver \/ ConnectionLost
  BY <1>1, <1>7 DEF Deliver, ConnectionLost
<1>8. ASSUME NEW a \in Accounts, Change(a) \/ Lock(a) \/ Consult(a)
      PROVE  SyncStaysScheduled'
  BY <1>1, <1>8 DEF Change, Lock, Consult
<1>9. ASSUME NEW t \in Tasks, NEW a \in Accounts, ClientSync(t, a)
      PROVE  SyncStaysScheduled'
  BY <1>1, <1>9 DEF ClientSync
<1>10. CASE UNCHANGED vars
  BY <1>1, <1>10 DEF vars, timerVars
<1>11. QED
  BY <1>2, <1>3, <1>4, <1>5, <1>6, <1>7, <1>8, <1>9, <1>10 DEF Next

\* With a positive interval the next background sync is always on its way,
\* however many syncs, notifications and clients there are (Agent::run,
\* State::set_sync_timeout, timeout.rs).
THEOREM SyncChain == Spec => []SyncStaysScheduled
<1>1. Init => SyncStaysScheduled
  BY DEF Init, SyncStaysScheduled, SyncPending
<1>2. QED
  BY <1>1, TypeCorrect, ChainNext, PTL DEF Spec

----------------------------------------------------------------------------
(* Two pairs of steps between which the mutex is free, and what the second  *)
(* step of each relies on: those of subscribe_to_notifications, and those   *)
(* of sync.                                                                 *)

LEMMA MeetMet ==
  ASSUME NEW others, NEW place, Meet(others, place)
  PROVE  met \subseteq met' /\ (place \notin met' => others = {})
BY DEF Meet

LEMMA MetGrows == [Next]_vars => met \subseteq met'
<1> USE DEF taskVars
<1>1. ASSUME NEW t \in Tasks, TaskStep(t) PROVE met \subseteq met'
  BY <1>1, MeetMet DEF TaskStep, Fetch, FetchFails, Save, SetReprompt, CheckConnected, Dial, Dialed
<1>2. ASSUME NEW t \in Tasks, TakeEvent(t) \/ \E a \in Accounts : ClientSync(t, a)
      PROVE  met \subseteq met'
  BY <1>2 DEF TakeEvent, TakeTick, TakeNotification, ClientSync, Spawn
<1>3. CASE Deliver \/ ConnectionLost \/ TimerRequest \/ TimerFire \/ SetSyncTimeout
  BY <1>3 DEF Deliver, ConnectionLost, TimerRequest, TimerFire, SetSyncTimeout
<1>4. ASSUME NEW a \in Accounts, Change(a) \/ Lock(a) \/ Consult(a) PROVE met \subseteq met'
  BY <1>4 DEF Change, Lock, Consult
<1>5. QED
  BY <1>1, <1>2, <1>3, <1>4 DEF Next, vars

OnTheLine == {t \in Tasks : pc[t] \in {"dial", "dialing"}}

\* The connection a task found missing is still missing when it dials.
NobodyElseDials ==
  Dialing \notin met =>
    /\ channels = {"agent"}
    /\ OnTheLine # {} => conn = None
    /\ \A t, u \in OnTheLine : t = u

LEMMA GotoStep ==
  ASSUME TypeOK, NEW t \in Tasks, NEW step, Goto(t, step)
  PROVE  /\ pc'[t] = step
         /\ todo' = todo
         /\ \A u \in Tasks \ {t} : pc'[u] = pc[u]
BY DEF Goto, TypeOK

LEMMA NextAccountStep ==
  ASSUME TypeOK, NEW t \in Tasks, NextAccount(t)
  PROVE  /\ pc'[t] \in {"idle", "fetch"}
         /\ \A u \in Tasks \ {t} : pc'[u] = pc[u] /\ todo'[u] = todo[u]
BY DEF NextAccount, TypeOK

LEMMA DialNext ==
  ASSUME TypeOK, NobodyElseDials, [Next]_vars
  PROVE  NobodyElseDials'
<1> SUFFICES ASSUME Dialing \notin met'
             PROVE  /\ channels' = {"agent"}
                    /\ OnTheLine' # {} => conn' = None
                    /\ \A t, u \in OnTheLine' : t = u
  BY DEF NobodyElseDials
<1> DEFINE Goal == /\ channels' = {"agent"}
                   /\ OnTheLine' # {} => conn' = None
                   /\ \A t, u \in OnTheLine' : t = u
<1>0. /\ channels = {"agent"}
      /\ OnTheLine # {} => conn = None
      /\ \A t, u \in OnTheLine : t = u
  BY MetGrows DEF NobodyElseDials
<1>1. ASSUME UNCHANGED channels, conn' \in {conn, None}, OnTheLine' \subseteq OnTheLine
      PROVE  Goal
  BY <1>0, <1>1
<1>2. ASSUME NEW t \in Tasks, pc'[t] \notin {"dial", "dialing"},
             \A u \in Tasks \ {t} : pc'[u] = pc[u]
      PROVE  OnTheLine' \subseteq OnTheLine \ {t}
  BY <1>2 DEF OnTheLine
<1>3. ASSUME NEW t \in Tasks, TaskStep(t) PROVE Goal
  <2>1. CASE Fetch(t) \/ Save(t) \/ SetReprompt(t)
    <3>1. pc'[t] \notin {"dial", "dialing"} /\ \A u \in Tasks \ {t} : pc'[u] = pc[u]
      BY <2>1, GotoStep DEF Fetch, Save, SetReprompt
    <3>2. QED
      BY <1>1, <1>2, <2>1, <3>1 DEF Fetch, Save, SetReprompt, pushVars
  <2>2. CASE FetchFails(t)
    BY <1>1, <1>2, <2>2, NextAccountStep DEF FetchFails, pushVars
  <2>3. CASE CheckConnected(t)
    <3>1. UNCHANGED <<channels, conn>>
      BY <2>3 DEF CheckConnected, pushVars
    <3>2. CASE NextAccount(t)
      BY <1>1, <1>2, <3>1, <3>2, NextAccountStep
    <3>3. CASE conn = None /\ Goto(t, "dial") /\ Meet(Dialers(t), Dialing)
      <4>1. Dialers(t) = {}
        BY <3>3, MeetMet
      <4>2. OnTheLine' \subseteq {t}
        BY <3>3, <4>1, GotoStep DEF Dialers, OnTheLine
      <4>3. QED
        BY <1>0, <3>1, <3>3, <4>2
    <3>4. QED
      BY <2>3, <3>2, <3>3 DEF CheckConnected
  <2>4. CASE Dial(t)
    <3>1. t \in OnTheLine
      BY <2>4 DEF Dial, OnTheLine
    <3>2. UNCHANGED <<channels, conn>>
      BY <1>0, <2>4, <3>1 DEF Dial
    <3>3. OnTheLine' \subseteq OnTheLine
      BY <2>4, <3>1, GotoStep DEF Dial, OnTheLine
    <3>4. QED
      BY <1>1, <3>2, <3>3
  <2>5. CASE Dialed(t)
    <3>1. t \in OnTheLine
      BY <2>5 DEF Dialed, OnTheLine
    <3>2. OnTheLine' = {}
      BY <1>0, <1>2, <2>5, <3>1, NextAccountStep DEF Dialed
    <3>3. QED
      BY <1>0, <2>5, <3>2 DEF Dialed
  <2>6. QED
    BY <1>3, <2>1, <2>2, <2>3, <2>4, <2>5 DEF TaskStep
<1>4. ASSUME NEW t \in Tasks, NEW s, Spawn(t, s), UNCHANGED <<channels, conn>> PROVE Goal
  BY <1>1, <1>2, <1>4 DEF Spawn, TypeOK
<1>5. ASSUME NEW t \in Tasks, TakeEvent(t) \/ \E a \in Accounts : ClientSync(t, a) PROVE Goal
  BY <1>4, <1>5 DEF TakeEvent, TakeTick, TakeNotification, ClientSync, pushVars
<1>6. ASSUME UNCHANGED <<channels, pc>>, conn' \in {conn, None} PROVE Goal
  BY <1>1, <1>6 DEF OnTheLine
<1>7. CASE Deliver \/ TimerRequest \/ TimerFire \/ SetSyncTimeout
  BY <1>6, <1>7 DEF Deliver, TimerRequest, TimerFire, SetSyncTimeout, pushVars, taskVars
<1>8. CASE ConnectionLost
  BY <1>6, <1>8 DEF ConnectionLost, taskVars
<1>9. ASSUME NEW a \in Accounts, Change(a) \/ Lock(a) \/ Consult(a) PROVE Goal
  BY <1>6, <1>9 DEF Change, Lock, Consult, pushVars, taskVars
<1>10. CASE UNCHANGED vars
  BY <1>6, <1>10 DEF vars, pushVars, taskVars
<1>11. QED
  BY <1>3, <1>5, <1>7, <1>8, <1>9, <1>10 DEF Next

\* The agent goes on hearing the notifications of its server, however many syncs
\* run at once, as long as no two are between check and connection
\* (subscribe_to_notifications, Handler::connect).
THEOREM SyncsKeepListening == Spec => []AgentListens
<1>1. Init => NobodyElseDials
  BY DEF Init, NobodyElseDials, OnTheLine
<1>2. NobodyElseDials => AgentListens
  BY DEF NobodyElseDials, AgentListens
<1>3. QED
  BY <1>1, <1>2, DialNext, TypeCorrect, PTL DEF Spec

AtReprompt(a) == {t \in Tasks : pc[t] = "reprompt" /\ Current(t) = a}

\* What a task saved is still in the local db when it sets the reprompt set.
SavedLast(a) ==
  /\ \A t \in AtReprompt(a) : db[a] = snap[t]
  /\ AtReprompt(a) = {} => known[a] \in {None, db[a]}

NobodyElseSaves == \A a \in Accounts \ met : SavedLast(a)

LEMMA SaveNext ==
  ASSUME TypeOK, Busy, NobodyElseSaves, [Next]_vars
  PROVE  NobodyElseSaves'
<1> SUFFICES ASSUME NEW a \in Accounts, a \notin met' PROVE SavedLast(a)'
  BY DEF NobodyElseSaves
<1>0. SavedLast(a)
  BY MetGrows DEF NobodyElseSaves
<1>1. ASSUME UNCHANGED <<db, known, snap>>, AtReprompt(a)' = AtReprompt(a) PROVE SavedLast(a)'
  BY <1>0, <1>1 DEF SavedLast
<1>2. ASSUME UNCHANGED <<db, known, pc, todo, snap>> PROVE SavedLast(a)'
  <2>1. AtReprompt(a)' = AtReprompt(a)
    BY <1>2 DEF AtReprompt, Current
  <2>2. QED
    BY <1>1, <1>2, <2>1
<1>3. ASSUME NEW t \in Tasks, pc[t] # "reprompt", pc'[t] # "reprompt",
             \A u \in Tasks \ {t} : pc'[u] = pc[u] /\ todo'[u] = todo[u]
      PROVE  AtReprompt(a)' = AtReprompt(a) /\ t \notin AtReprompt(a)
  BY <1>3 DEF AtReprompt, Current
<1>4. ASSUME NEW t \in Tasks, NEW step, Goto(t, step)
      PROVE  pc'[t] = step /\ \A u \in Tasks \ {t} : pc'[u] = pc[u] /\ todo'[u] = todo[u]
  BY <1>4, GotoStep
<1>5. ASSUME NEW t \in Tasks, TaskStep(t) PROVE SavedLast(a)'
  <2>1. CASE Fetch(t)
    <3>1. AtReprompt(a)' = AtReprompt(a) /\ t \notin AtReprompt(a)
      BY <1>3, <1>4, <2>1 DEF Fetch
    <3>2. \A u \in AtReprompt(a) : snap'[u] = snap[u]
      BY <2>1, <3>1 DEF Fetch, TypeOK, AtReprompt
    <3>3. QED
      BY <1>0, <2>1, <3>1, <3>2 DEF Fetch, SavedLast
  <2>2. CASE FetchFails(t)
    BY <1>1, <1>3, <2>2, NextAccountStep DEF FetchFails
  <2>3. CASE Save(t)
    <3>1. /\ pc[t] = "save" /\ pc'[t] = "reprompt" /\ UNCHANGED <<todo, snap, known>>
          /\ \A u \in Tasks \ {t} : pc'[u] = pc[u]
          /\ db' = [db EXCEPT ![Current(t)] = snap[t]]
          /\ Meet(Between(t), Current(t))
      BY <2>3, GotoStep DEF Save
    <3>2. AtReprompt(a)' = IF Current(t) = a THEN AtReprompt(a) \union {t} ELSE AtReprompt(a)
      BY <3>1 DEF AtReprompt, Current
    <3>3. CASE Current(t) = a
      <4>1. AtReprompt(a) = {}
        BY <3>1, <3>3, MeetMet DEF Between, AtReprompt
      <4>2. db'[a] = snap'[t]
        BY <3>1, <3>3 DEF TypeOK
      <4>3. QED
        BY <3>2, <3>3, <4>1, <4>2 DEF SavedLast
    <3>4. CASE Current(t) # a
      <4>1. db'[a] = db[a]
        BY <3>1, <3>4 DEF TypeOK
      <4>2. QED
        BY <1>0, <3>1, <3>2, <3>4, <4>1 DEF SavedLast
    <3>5. QED
      BY <3>3, <3>4
  <2>4. CASE SetReprompt(t)
    <3>1. /\ pc[t] = "reprompt" /\ pc'[t] = "check" /\ UNCHANGED <<db, todo, snap>>
          /\ \A u \in Tasks \ {t} : pc'[u] = pc[u]
          /\ known' = [known EXCEPT ![Current(t)] = snap[t]]
      BY <2>4, GotoStep DEF SetReprompt
    <3>2. AtReprompt(a)' = AtReprompt(a) \ {t}
      BY <3>1 DEF AtReprompt, Current
    <3>3. CASE Current(t) = a
      <4>1. t \in AtReprompt(a)
        BY <3>1, <3>3 DEF AtReprompt
      <4>2. known'[a] = db[a]
        BY <1>0, <3>1, <3>3, <4>1 DEF SavedLast, TypeOK
      <4>3. QED
        BY <1>0, <3>1, <3>2, <4>2 DEF SavedLast
    <3>4. CASE Current(t) # a
      <4>1. known'[a] = known[a] /\ t \notin AtReprompt(a)
        BY <3>1, <3>4 DEF TypeOK, AtReprompt
      <4>2. QED
        BY <1>0, <3>1, <3>2, <4>1 DEF SavedLast
    <3>5. QED
      BY <3>3, <3>4
  <2>5. CASE CheckConnected(t)
    BY <1>1, <1>3, <1>4, <2>5, NextAccountStep DEF CheckConnected
  <2>6. CASE Dial(t)
    BY <1>1, <1>3, <1>4, <2>6 DEF Dial
  <2>7. CASE Dialed(t)
    BY <1>1, <1>3, <2>7, NextAccountStep DEF Dialed
  <2>8. QED
    BY <1>5, <2>1, <2>2, <2>3, <2>4, <2>5, <2>6, <2>7 DEF TaskStep
<1>6. ASSUME NEW t \in Tasks, NEW s, Spawn(t, s), UNCHANGED <<db, known>> PROVE SavedLast(a)'
  <2>1. /\ pc[t] # "reprompt" /\ pc'[t] # "reprompt" /\ snap' = snap
        /\ \A u \in Tasks \ {t} : pc'[u] = pc[u] /\ todo'[u] = todo[u]
    BY <1>6 DEF Spawn, TypeOK
  <2>2. QED
    BY <1>1, <1>3, <1>6, <2>1
<1>7. ASSUME NEW t \in Tasks, TakeEvent(t) \/ \E b \in Accounts : ClientSync(t, b)
      PROVE  SavedLast(a)'
  BY <1>6, <1>7 DEF TakeEvent, TakeTick, TakeNotification, ClientSync
<1>8. CASE Deliver \/ ConnectionLost \/ TimerRequest \/ TimerFire \/ SetSyncTimeout
  BY <1>2, <1>8 DEF Deliver, ConnectionLost, TimerRequest, TimerFire, SetSyncTimeout, taskVars
<1>9. ASSUME NEW b \in Accounts, Lock(b) \/ Consult(b) PROVE SavedLast(a)'
  <2>1. known'[a] \in {None, known[a], db[a]} /\ UNCHANGED <<db, pc, todo, snap>>
    BY <1>9 DEF Lock, Consult, TypeOK, taskVars
  <2>2. AtReprompt(a)' = AtReprompt(a)
    BY <2>1 DEF AtReprompt, Current
  <2>3. QED
    BY <1>0, <2>1, <2>2 DEF SavedLast
<1>10. ASSUME NEW b \in Accounts, Change(b) PROVE SavedLast(a)'
  BY <1>2, <1>10 DEF Change, taskVars
<1>11. CASE UNCHANGED vars
  BY <1>2, <1>11 DEF vars, taskVars
<1>12. QED
  BY <1>5, <1>7, <1>8, <1>9, <1>10, <1>11 DEF Next

\* The entries that need a master password reprompt are those of the vault that
\* was saved last, however many syncs run at once, as long as no two of one
\* account are between saving and setting it (sync, decrypt_cipher).
THEOREM SyncsKeepReprompt == Spec => []RepromptMatchesDb
<1>1. Init => NobodyElseSaves
  BY DEF Init, NobodyElseSaves, SavedLast, AtReprompt
<1>2. NobodyElseSaves => RepromptMatchesDb
  BY DEF NobodyElseSaves, SavedLast, AtReprompt, RepromptMatchesDb
<1>3. QED
  BY <1>1, <1>2, SaveNext, TypeCorrect, PTL DEF Spec
=============================================================================
