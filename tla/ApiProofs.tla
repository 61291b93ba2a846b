------------------------------ MODULE ApiProofs ------------------------------
(***************************************************************************)
(* Proofs about the remote API, for any commands, hosts, requests,         *)
(* clients, accounts, fields and bounds.                                   *)
(*                                                                         *)
(* ApiListener: whoever renews the certificate holds the lock, so the      *)
(* writer of the key is the writer of the certificate; and after a renewal *)
(* that was not broken off the file `hostname` names what the certificate  *)
(* is for.                                                                 *)
(*                                                                         *)
(* ApiPolicy: a command changes the store between taking and releasing its *)
(* lock, so the copy it loaded is the store it replaces.                   *)
(***************************************************************************)
EXTENDS ApiListener, ApiPolicy, TLAPS

-----------------------------------------------------------------------------
(* The listener and its certificate.                                       *)


Steps == {"idle", "pki", "use", "bind", "save", "agent", "wait", "undo",
          "stopped"} \union Renewing

Shapes ==
  /\ cert \in Hosts \union {Nothing} /\ host \in Hosts
  /\ at \in [Procs -> Steps]
  /\ want \in [Procs -> Hosts]
  /\ broken \in BOOLEAN

Locked == \A x \in Procs : pkiLock = x <=> at[x] \in Renewing \union {"use"}

\* What x has done to the certificate at its step.
Renewal(x) ==
  /\ at[x] \in {"key", "name", "use"} => cert # Nothing
  /\ at[x] \in {"key", "name"} => cert = want[x]
  /\ at[x] = "key" => by = x
  /\ at[x] \in {"name", "use"} => fits
  /\ at[x] = "use" => name = want[x]

\* The name on file is the one of the certificate, unless a renewal is at
\* work on it, or was broken off there.
Named == broken \/ name = cert \/ \E x \in Procs : at[x] \in {"key", "name"}

\* What the agent has loaded and what it serves.
Loaded ==
  /\ at[Agent] = "bind" => tls.fits /\ (broken \/ tls.host = want[Agent])
  /\ ServedKeyFits
  /\ NamesItsHostUnlessBroken

PkiInv == Shapes /\ Locked /\ (\A x \in Procs : Renewal(x)) /\ Named /\ Loaded
-----------------------------------------------------------------------------
LEMMA NamesDiffer ==
  /\ Agent \in Procs /\ \A p \in Cmds : p \in Procs /\ p # Agent
  /\ NoHolder \notin Procs /\ Nothing \notin Hosts
  BY ListenerAssumption DEF Procs

LEMMA PkiInvInit == ListenerInit => PkiInv
  BY NamesDiffer
     DEF ListenerInit, PkiInv, Shapes, Steps, Renewing, Locked, Renewal, Named, Loaded,
         ServedKeyFits, NamesItsHostUnlessBroken, NamesItsHost

\* A step of x that leaves the certificate alone.
LEMMA AsidePreserves ==
  ASSUME PkiInv, NEW x \in Procs, NEW s \in Steps,
         at' = [at EXCEPT ![x] = s],
         UNCHANGED <<cert, by, fits, name>>,
         host' \in Hosts, want' \in [Procs -> Hosts],
         \A y \in Procs \ {x} : want'[y] = want[y],
         broken' = (broken \/ at[x] \in {"key", "name"}),
         IF at[x] \in Renewing \union {"use"}
           THEN pkiLock' = NoHolder ELSE pkiLock' = pkiLock,
         s \notin Renewing \union {"use"},
         Loaded'
  PROVE  PkiInv'
  <1>. USE DEF PkiInv
  <1>1. at'[x] = s /\ \A y \in Procs \ {x} : at'[y] = at[y]
    BY DEF Shapes
  <1>2. Shapes'
    BY DEF Shapes
  <1>3. Locked'
    BY <1>1, NamesDiffer DEF Locked
  <1>4. ASSUME NEW y \in Procs PROVE Renewal(y)'
    <2>1. CASE y = x
      BY <1>1, <2>1 DEF Renewal, Renewing
    <2>2. CASE y # x
      BY <1>1, <2>2 DEF Renewal
    <2>. QED BY <2>1, <2>2
  <1>5. Named'
    BY <1>1 DEF Named
  <1>. QED BY <1>2, <1>3, <1>4, <1>5

\* A step of the renewal by x, which holds the lock afterwards.
LEMMA RenewalPreserves ==
  ASSUME PkiInv, NEW x \in Procs, NEW s \in {"use"} \union Renewing,
         at' = [at EXCEPT ![x] = s],
         pkiLock = NoHolder \/ pkiLock = x, pkiLock' = x,
         cert' \in Hosts \union {Nothing},
         UNCHANGED <<host, want, broken, tls, listener>>,
         Renewal(x)', Named',
         at[Agent] # "bind" \/ x # Agent
  PROVE  PkiInv'
  <1>. USE DEF PkiInv
  <1>1. at'[x] = s /\ \A y \in Procs \ {x} : at'[y] = at[y]
    BY DEF Shapes
  <1>2. \A y \in Procs \ {x} : at[y] \notin Renewing \union {"use"}
    BY NamesDiffer DEF Locked
  <1>3. Shapes'
    BY DEF Shapes, Steps
  <1>4. Locked'
    BY <1>1, <1>2 DEF Locked
  <1>5. ASSUME NEW y \in Procs PROVE Renewal(y)'
    <2>1. CASE y # x
      BY <1>1, <1>2, <2>1 DEF Renewal, Renewing
    <2>. QED BY <2>1
  <1>6. Loaded'
    <2>1. at'[Agent] = "bind" => at[Agent] = "bind"
      BY <1>1, NamesDiffer DEF Renewing
    <2>. QED BY <2>1
         DEF Loaded, ServedKeyFits, NamesItsHostUnlessBroken, NamesItsHost
  <1>. QED BY <1>3, <1>4, <1>5, <1>6
-----------------------------------------------------------------------------
LEMMA PkiInvWork == ASSUME PkiInv, NEW x \in Procs, Work(x) PROVE PkiInv'
  <1>. USE DEF Proceeds, configVars, agentVars
  <1>0. /\ Shapes /\ Locked /\ Renewal(x) /\ Named
        /\ \A y \in Procs \ {x} : pkiLock \in {x, NoHolder} =>
             at[y] \notin Renewing \union {"use"}
    BY NamesDiffer DEF PkiInv, Locked
  <1>1. CASE Enter(x)
    <2>1. PICK s \in {"use", "cert"} : at' = [at EXCEPT ![x] = s]
      BY <1>1 DEF Enter
    <2>2. at[x] = "pki" /\ at'[x] = s /\ \A y \in Procs \ {x} : at'[y] = at[y]
      BY <1>0, <1>1, <2>1 DEF Enter, Shapes
    <2>3. /\ pkiLock = NoHolder /\ pkiLock' = x
          /\ UNCHANGED <<host, want, broken, tls, listener>>
      BY <1>1 DEF Enter
    <2>4. cert' \in Hosts \union {Nothing} /\ Renewal(x)' /\ Named'
      <3>1. CASE cert = Nothing
        <4>1. cert' = want[x] /\ name' = want[x] /\ fits' = TRUE
              /\ want[x] \in Hosts /\ s = "use"
          BY <1>0, <1>1, <2>1, <2>2, <3>1 DEF Enter, Shapes
        <4>. QED BY <2>2, <2>3, <4>1, NamesDiffer DEF Renewal, Named
      <3>2. CASE cert # Nothing
        <4>1. /\ UNCHANGED <<cert, by, fits, name>>
              /\ s = IF Sound(want[x]) THEN "use" ELSE "cert"
          BY <1>0, <1>1, <2>2, <3>2 DEF Enter, Shapes
        <4>2. Renewal(x)'
          BY <2>2, <2>3, <3>2, <4>1 DEF Renewal, Sound
        <4>3. \A y \in Procs : at[y] \notin {"key", "name"}
          BY <1>0, <2>2, <2>3 DEF Renewing
        <4>. QED BY <1>0, <2>3, <4>1, <4>2, <4>3 DEF Named, Shapes
      <3>. QED BY <3>1, <3>2
    <2>. QED BY <2>2, <2>1, <2>3, <2>4, RenewalPreserves DEF Renewing
  <1>2. CASE WriteCert(x) \/ WriteKey(x) \/ WriteName(x)
    <2>1. at[x] \in Renewing /\ pkiLock = x /\ pkiLock' = x
      BY <1>0, <1>2 DEF WriteCert, WriteKey, WriteName, Renewing, Locked
    <2>2. UNCHANGED <<host, want, broken, tls, listener>>
      BY <1>2 DEF WriteCert, WriteKey, WriteName, pkiVars
    <2>3. CASE WriteCert(x)
      <3>1. at' = [at EXCEPT ![x] = "key"] /\ at'[x] = "key"
            /\ cert' = want[x] /\ by' = x /\ want[x] \in Hosts
        BY <1>0, <2>3 DEF WriteCert, Shapes
      <3>2. Renewal(x)' /\ Named'
        BY <2>2, <3>1, NamesDiffer DEF Renewal, Named
      <3>. QED BY <2>1, <2>2, <3>1, <3>2, RenewalPreserves DEF Renewing
    <2>4. CASE WriteKey(x)
      <3>1. /\ at' = [at EXCEPT ![x] = "name"] /\ at'[x] = "name"
            /\ at[x] = "key"
            /\ fits' = (by = x) /\ UNCHANGED cert
            /\ cert \in Hosts \union {Nothing}
        BY <1>0, <2>4 DEF WriteKey, Shapes
      <3>2. Renewal(x)' /\ Named'
        BY <1>0, <2>2, <3>1 DEF Renewal, Named
      <3>. QED BY <2>1, <2>2, <3>1, <3>2, RenewalPreserves DEF Renewing
    <2>5. CASE WriteName(x)
      <3>1. /\ at' = [at EXCEPT ![x] = "use"] /\ at'[x] = "use"
            /\ at[x] = "name"
            /\ name' = want[x] /\ UNCHANGED <<cert, fits>>
            /\ cert \in Hosts \union {Nothing}
        BY <1>0, <2>5 DEF WriteName, Shapes
      <3>2. Renewal(x)' /\ Named'
        BY <1>0, <2>2, <3>1 DEF Renewal, Named
      <3>. QED BY <2>1, <2>2, <3>1, <3>2, RenewalPreserves DEF Renewing
    <2>. QED BY <1>2, <2>3, <2>4, <2>5
  <1>. QED BY <1>1, <1>2 DEF Work

LEMMA LoadedStays ==
  ASSUME Loaded, UNCHANGED <<tls, listener>>,
         broken => broken',
         at'[Agent] = "bind" => at[Agent] = "bind" /\ want'[Agent] = want[Agent]
  PROVE  Loaded'
  BY DEF Loaded, ServedKeyFits, NamesItsHostUnlessBroken, NamesItsHost

LEMMA PkiInvCommands ==
  ASSUME PkiInv, NEW p \in Cmds,
         Begin(p) \/ Disable(p) \/ Proceed(p) \/ Dies(p)
  PROVE  PkiInv'
  <1>. USE DEF Proceeds, configVars, agentVars
  <1>0. Shapes /\ Locked /\ Loaded /\ p \in Procs /\ p # Agent
    BY NamesDiffer DEF PkiInv
  <1>1. UNCHANGED <<cert, by, fits, name>> /\ host' \in Hosts
    BY <1>0 DEF Begin, Disable, Proceed, Ensured, SaveConfig, EnsureAgent, WaitOver,
                StoppedOver, Dies, pkiVars, Shapes
  <1>2. PICK s \in Steps \ (Renewing \union {"use"}) :
          at' = [at EXCEPT ![p] = s]
    BY DEF Begin, Disable, Proceed, Ensured, SaveConfig, EnsureAgent, WaitOver,
           StoppedOver, Dies, Steps, Renewing
  <1>3. /\ want' \in [Procs -> Hosts]
        /\ \A y \in Procs \ {p} : want'[y] = want[y]
    BY <1>0 DEF Begin, Disable, Proceed, Ensured, SaveConfig, EnsureAgent, WaitOver,
                StoppedOver, Dies, Shapes
  <1>4. /\ broken' = (broken \/ at[p] \in {"key", "name"})
        /\ IF at[p] \in Renewing \union {"use"}
             THEN pkiLock' = NoHolder ELSE pkiLock' = pkiLock
    <2>1. CASE Dies(p)
      BY <1>0, <2>1 DEF Dies, BrokenOff, Locked, Shapes
    <2>2. CASE Ensured(p)
      BY <1>0, <2>2 DEF Ensured, Shapes
    <2>3. CASE Begin(p) \/ Disable(p) \/ SaveConfig(p) \/ EnsureAgent(p)
               \/ WaitOver(p) \/ StoppedOver(p)
      <3>1. at[p] \notin Renewing \union {"use"} /\ UNCHANGED <<pkiLock, broken>>
        BY <2>3 DEF Begin, Disable, SaveConfig, EnsureAgent, WaitOver, StoppedOver,
                    pkiVars, Renewing
      <3>. QED BY <1>0, <3>1 DEF Shapes, Renewing
    <2>. QED BY <2>1, <2>2, <2>3 DEF Proceed
  <1>5. UNCHANGED <<tls, listener>>
    BY DEF Begin, Disable, Proceed, Ensured, SaveConfig, EnsureAgent, WaitOver,
           StoppedOver, Dies
  <1>6. Loaded'
    BY <1>0, <1>2, <1>3, <1>4, <1>5, NamesDiffer, LoadedStays DEF Shapes
  <1>. QED BY <1>0, <1>1, <1>2, <1>3, <1>4, <1>6, AsidePreserves
-----------------------------------------------------------------------------
LEMMA PkiInvAgent ==
  ASSUME PkiInv,
         Tick \/ LoadTls \/ Bind \/ StartFails \/ ListenerDies \/ AgentDies
  PROVE  PkiInv'
  <1>. USE DEF Proceeds, configVars, agentVars
  <1>0. Shapes /\ Locked /\ Loaded /\ Named /\ Renewal(Agent) /\ Agent \in Procs
    BY NamesDiffer DEF PkiInv
  <1>1. UNCHANGED <<cert, by, fits, name>> /\ host' \in Hosts
    BY <1>0 DEF Tick, LoadTls, Bind, StartFails, ListenerDies, AgentDies,
                pkiVars, Shapes
  <1>2. PICK s \in Steps \ (Renewing \union {"use"}) :
          at' = [at EXCEPT ![Agent] = s]
    <2>1. CASE LoadTls \/ Bind \/ StartFails \/ AgentDies
      BY <2>1 DEF LoadTls, Bind, StartFails, AgentDies, Steps, Renewing
    <2>2. CASE Tick \/ ListenerDies
      <3>1. \/ at' = at /\ at[Agent] = "idle"
            \/ at' = [at EXCEPT ![Agent] = "pki"]
        BY <2>2 DEF Tick, ListenerDies
      <3>2. at' = at /\ at[Agent] = "idle" => at' = [at EXCEPT ![Agent] = "idle"]
        BY <1>0 DEF Shapes
      <3>. QED BY <3>1, <3>2 DEF Steps, Renewing
    <2>. QED BY <2>1, <2>2
  <1>3. /\ want' \in [Procs -> Hosts]
        /\ \A y \in Procs \ {Agent} : want'[y] = want[y]
    BY <1>0 DEF Tick, LoadTls, Bind, StartFails, ListenerDies, AgentDies, Shapes
  <1>4. /\ broken' = (broken \/ at[Agent] \in {"key", "name"})
        /\ IF at[Agent] \in Renewing \union {"use"}
             THEN pkiLock' = NoHolder ELSE pkiLock' = pkiLock
    <2>1. CASE StartFails \/ AgentDies
      BY <1>0, <2>1 DEF StartFails, AgentDies, BrokenOff, Locked, Shapes
    <2>2. CASE LoadTls
      BY <1>0, <2>2 DEF LoadTls, Shapes
    <2>3. CASE Tick \/ Bind \/ ListenerDies
      <3>1. /\ at[Agent] \notin Renewing \union {"use"}
            /\ UNCHANGED <<pkiLock, broken>>
        BY <2>3 DEF Tick, Bind, ListenerDies, pkiVars, Renewing
      <3>. QED BY <1>0, <3>1 DEF Shapes, Renewing
    <2>. QED BY <2>1, <2>2, <2>3
  <1>5. Loaded'
    <2>1. CASE Tick \/ StartFails \/ ListenerDies \/ AgentDies
      <3>1. at'[Agent] # "bind"
        BY <1>0, <2>1
           DEF Tick, StartFails, ListenerDies, AgentDies, Shapes
      <3>2. listener' = Nothing \/ listener' = listener
        BY <2>1 DEF Tick, StartFails, ListenerDies, AgentDies
      <3>3. broken => broken'
        BY <1>4
      <3>. QED BY <1>0, <3>1, <3>2, <3>3
           DEF Loaded, ServedKeyFits, NamesItsHostUnlessBroken, NamesItsHost
    <2>2. CASE LoadTls
      <3>1. /\ tls' = [host |-> cert, fits |-> fits] /\ at[Agent] = "use"
            /\ UNCHANGED <<listener, broken, want>>
        BY <2>2 DEF LoadTls
      <3>2. fits /\ cert # Nothing /\ name = want[Agent]
        BY <1>0, <3>1 DEF Renewal
      <3>3. broken \/ name = cert
        <4>1. \A x \in Procs : at[x] \notin {"key", "name"}
          BY <1>0, <3>1 DEF Locked, Renewing
        <4>. QED BY <1>0, <4>1 DEF Named
      <3>4. tls.fits' /\ (broken \/ tls.host = want[Agent])'
        BY <3>1, <3>2, <3>3
      <3>. QED BY <1>0, <3>1, <3>4
           DEF Loaded, ServedKeyFits, NamesItsHostUnlessBroken, NamesItsHost
    <2>3. CASE Bind
      <3>1. /\ at[Agent] = "bind" /\ at'[Agent] = "idle"
            /\ listener' = [host |-> want[Agent], tls |-> tls]
            /\ UNCHANGED broken
        BY <1>0, <2>3 DEF Bind, pkiVars, Shapes
      <3>2. listener'.tls = tls /\ listener'.host = want[Agent]
        BY <3>1
      <3>. QED BY <1>0, <3>1, <3>2
           DEF Loaded, ServedKeyFits, NamesItsHostUnlessBroken, NamesItsHost
    <2>. QED BY <2>1, <2>2, <2>3
  <1>. QED BY <1>0, <1>1, <1>2, <1>3, <1>4, <1>5, AsidePreserves

LEMMA PkiInvStep == PkiInv /\ [ListenerNext]_listenerVars => PkiInv'
  <1>1. ASSUME PkiInv, UNCHANGED listenerVars PROVE PkiInv'
    <2>1. Loaded'
      BY <1>1 DEF PkiInv, Loaded, ServedKeyFits, NamesItsHostUnlessBroken,
                  NamesItsHost, listenerVars, pkiVars, agentVars
    <2>. QED BY <1>1, <2>1
             DEF PkiInv, Shapes, Locked, Renewal, Named, listenerVars, pkiVars,
                 configVars
  <1>. QED BY <1>1, PkiInvWork, PkiInvCommands, PkiInvAgent DEF ListenerNext

LEMMA PkiInvInvariant == ListenerSpec => []PkiInv
  BY PkiInvInit, PkiInvStep, PTL DEF ListenerSpec

\* Certificate and key of the listener fit, however many commands renew them
\* while the agent starts, and wherever any of them is broken off.
THEOREM KeyFits == ListenerSpec => []ServedKeyFits
  <1>1. PkiInv => ServedKeyFits
    BY DEF PkiInv, Loaded
  <1>. QED BY <1>1, PkiInvInvariant, PTL

\* The listener's certificate is for the name it was started for, as long as
\* no renewal was broken off between the certificate and the name.
THEOREM NameFits == ListenerSpec => []NamesItsHostUnlessBroken
  <1>1. PkiInv => NamesItsHostUnlessBroken
    BY DEF PkiInv, Loaded
  <1>. QED BY <1>1, PkiInvInvariant, PTL
-----------------------------------------------------------------------------
(* The status file.                                                        *)

\* While it starts, the agent has no listener; and what it put into the
\* status file last is what it had come to.
Reported ==
  /\ at[Agent] = "bind" => tls \in Identities
  /\ at[Agent] # "idle" => listener = Nothing
  /\ ~stale => last = status
  /\ ~stale /\ at[Agent] = "idle" /\ last # Nothing =>
       IF last.up THEN Serving(last.host) ELSE listener = Nothing

LEMMA ReportedInit == ListenerInit => Reported
  BY NamesDiffer DEF ListenerInit, Reported

LEMMA ReportedStep == PkiInv /\ Reported /\ [ListenerNext]_listenerVars => Reported'
  <1>. SUFFICES ASSUME PkiInv, Reported, [ListenerNext]_listenerVars PROVE Reported'
    OBVIOUS
  <1>. USE DEF Proceeds, configVars, agentVars, statusVars
  <1>0. Shapes /\ Agent \in Procs
    BY NamesDiffer DEF PkiInv
  <1>1. ASSUME UNCHANGED <<status, last, stale, tls, listener>>,
               at'[Agent] = at[Agent]
        PROVE  Reported'
    BY <1>1 DEF Reported, Serving
  <1>2. ASSUME NEW p \in Cmds,
               Begin(p) \/ Disable(p) \/ Proceed(p) \/ Dies(p) \/ Work(p)
        PROVE  Reported'
    <2>1. UNCHANGED <<status, last, stale, tls, listener>>
      BY <1>2 DEF Begin, Disable, Proceed, Ensured, SaveConfig, EnsureAgent,
                  WaitOver, StoppedOver, Dies, Work, Enter, WriteCert,
                  WriteKey, WriteName
    <2>2. \E s \in Steps : at' = [at EXCEPT ![p] = s]
      BY <1>2 DEF Begin, Disable, Proceed, Ensured, SaveConfig, EnsureAgent,
                  WaitOver, StoppedOver, Dies, Work, Enter, WriteCert,
                  WriteKey, WriteName, Steps, Renewing
    <2>3. at'[Agent] = at[Agent]
      BY <1>0, <2>2, NamesDiffer DEF Shapes
    <2>. QED BY <1>1, <2>1, <2>3
  <1>3. CASE Work(Agent)
    <2>1. /\ UNCHANGED <<statusVars, tls, listener>>
          /\ at[Agent] # "idle"
          /\ \E s \in {"use", "cert", "key", "name"} :
               at' = [at EXCEPT ![Agent] = s]
      BY <1>3 DEF Work, Enter, WriteCert, WriteKey, WriteName
    <2>2. at'[Agent] \notin {"idle", "bind"}
      BY <1>0, <2>1 DEF Shapes
    <2>. QED BY <2>1, <2>2 DEF Reported
  <1>4. CASE Tick
    <2>1. CASE ~on
      <3>1. Report(Off) /\ listener' = Nothing /\ at' = at /\ at[Agent] = "idle"
        BY <1>4, <2>1 DEF Tick
      <3>2. last' = Off /\ (~stale' => status' = last')
        BY <3>1 DEF Report, Reported
      <3>3. last'.up = FALSE
        BY <3>2 DEF Off
      <3>. QED BY <3>1, <3>2, <3>3 DEF Reported
    <2>2. CASE on
      <3>1. /\ listener' = Nothing /\ at'[Agent] = "pki"
            /\ UNCHANGED statusVars
        BY <1>0, <1>4, <2>2 DEF Tick, Shapes
      <3>. QED BY <3>1 DEF Reported
    <2>. QED BY <1>4, <2>1, <2>2 DEF Tick
  <1>5. CASE LoadTls
    <2>1. /\ at[Agent] = "use" /\ at'[Agent] = "bind"
          /\ tls' = [host |-> cert, fits |-> fits]
          /\ UNCHANGED <<statusVars, listener>>
      BY <1>0, <1>5 DEF LoadTls, Shapes
    <2>2. cert \in Hosts /\ fits = TRUE
      BY <1>0, <2>1 DEF PkiInv, Renewal, Shapes
    <2>3. tls' \in Identities
      BY <2>1, <2>2 DEF Identities
    <2>. QED BY <2>1, <2>3 DEF Reported
  <1>6. CASE Bind
    <2>1. /\ at[Agent] = "bind" /\ at'[Agent] = "idle"
          /\ listener' = [host |-> want[Agent], tls |-> tls]
          /\ Report(Started(TRUE))
          /\ want[Agent] \in Hosts
      BY <1>0, <1>6 DEF Bind, Shapes
    <2>2. listener' \in Listeners /\ listener'.host = want[Agent]
      BY <2>1 DEF Listeners, Reported
    <2>3. last' = Started(TRUE) /\ (~stale' => status' = last')
      BY <2>1 DEF Report, Reported
    <2>4. last'.up = TRUE /\ last'.host = want[Agent]
      BY <2>3 DEF Started
    <2>5. Serving(last.host)'
      BY <2>2, <2>4, NothingAssumption DEF Serving
    <2>. QED BY <2>1, <2>3, <2>4, <2>5 DEF Reported
  <1>7. CASE StartFails
    <2>1. /\ at[Agent] # "idle" /\ at'[Agent] = "idle"
          /\ last' = Started(FALSE) /\ UNCHANGED listener
          /\ IF last = Started(FALSE) THEN UNCHANGED <<status, stale>>
             ELSE status' = Started(FALSE) /\ stale' = FALSE
      BY <1>0, <1>7 DEF StartFails, Shapes, Renewing
    <2>2. last'.up = FALSE
      BY <2>1 DEF Started
    <2>3. ~stale' => status' = last'
      BY <2>1 DEF Reported
    <2>. QED BY <2>1, <2>2, <2>3 DEF Reported, Serving
  <1>8. CASE ListenerDies \/ AgentDies
    <2>1. stale' /\ at'[Agent] = "idle"
      BY <1>0, <1>8 DEF ListenerDies, AgentDies, Shapes
    <2>. QED BY <2>1 DEF Reported, Serving
  <1>9. CASE UNCHANGED listenerVars
    BY <1>1, <1>9 DEF listenerVars
  <1>. QED BY <1>2, <1>3, <1>4, <1>5, <1>6, <1>7, <1>8, <1>9 DEF ListenerNext, Procs

\* Between two ticks the status file is true of the agent, for any commands
\* that read it meanwhile: `rbw api enable` may believe it.
THEOREM StatusTrue == ListenerSpec => []StatusIsTrue
  <1>1. Reported => StatusIsTrue
    BY DEF Reported, StatusIsTrue
  <1>. QED BY <1>1, ReportedInit, ReportedStep, PkiInvInvariant, PTL DEF ListenerSpec


-----------------------------------------------------------------------------
(* Policies.                                                               *)

\* A policy as the commands leave it: whoever has a grant is scoped, and a
\* flag for the status says for which accounts.
Sane(p) ==
  p = NoPolicy \/
  /\ p.fields # {} => p.account # None
  /\ p.statusAccounts # {} => p.status
  /\ p.status /\ p.statusAccounts = {} => p.account # None

\* A command as it passes the parser.
WellPosed(c) ==
  /\ c.kind = "grant" => c.fields # {} /\ \E a \in Accounts : c.accounts = {a}
  /\ c.kind = "grant_status" => c.accounts # {}

LEMMA GrantedPermits ==
  ASSUME NEW p \in Policies, Sane(p), NEW a \in Accounts, CanGrant(p, a),
         NEW F \in SUBSET Fields, F # {}
  PROVE  /\ Granted(p, a, F) \in Policies /\ Sane(Granted(p, a, F))
         /\ Permits(Granted(p, a, F))
              = Permits(p) \union {<<"field", b, f>> : b \in {a}, f \in F}
  <1>. DEFINE q == Granted(p, a, F)
  <1>1. q \in Policies /\ Sane(q) /\ q.account = a
        /\ q.fields = p.fields \union F
    <2>1. q = [account |-> a, status |-> p.status,
               statusAccounts |-> p.statusAccounts,
               fields |-> p.fields \union F]
      BY DEF Granted
    <2>2. q \in Policies
      BY <2>1 DEF Policies
    <2>. QED BY <2>1, <2>2, PolicyValueAssumption, PolicyAssumption
             DEF Sane
  <1>2. StatusAccounts(q) = StatusAccounts(p)
    BY PolicyValueAssumption, PolicyAssumption
    DEF Granted, Policies, Sane, StatusAccounts, CanGrant
  <1>3. p.fields # {} => p.account = a
    BY PolicyAssumption DEF Sane, CanGrant
  <1>. QED BY <1>1, <1>2, <1>3, PolicyAssumption DEF Permits

LEMMA RevokedPermits ==
  ASSUME NEW p \in Policies, Sane(p), NEW F \in SUBSET Fields
  PROVE  /\ Revoked(p, F) \in Policies /\ Sane(Revoked(p, F))
         /\ Permits(Revoked(p, F)) = Permits(p) \
              {<<"field", a, f>> : a \in Accounts,
                                   f \in IF F = {} THEN Fields ELSE F}
  <1>. DEFINE q == Revoked(p, F)
              G == IF F = {} THEN Fields ELSE F
  <1>1. q \in Policies /\ Sane(q) /\ q.fields = p.fields \ G
    BY PolicyAssumption DEF Revoked, Policies, Sane
  <1>2. StatusAccounts(q) = StatusAccounts(p)
    BY DEF Revoked, StatusAccounts
  <1>3. q.fields # {} => q.account = p.account
    BY DEF Revoked
  <1>4. p.fields # {} => p.account \in Accounts
    BY PolicyAssumption DEF Sane, Policies
  <1>. QED BY <1>1, <1>2, <1>3, <1>4, PolicyAssumption DEF Permits

LEMMA StatusGrantedPermits ==
  ASSUME NEW p \in Policies, Sane(p), NEW A \in SUBSET Accounts, A # {}
  PROVE  /\ StatusGranted(p, A) \in Policies /\ Sane(StatusGranted(p, A))
         /\ Permits(StatusGranted(p, A))
              = Permits(p) \union {<<"status", a>> : a \in A}
  <1>. DEFINE q == StatusGranted(p, A)
  <1>1. q \in Policies /\ Sane(q) /\ q.fields = p.fields
    BY PolicyAssumption DEF StatusGranted, Policies, Sane, StatusAccounts
  <1>2. StatusAccounts(q) = StatusAccounts(p) \union A
    BY DEF StatusGranted, StatusAccounts
  <1>3. p.fields # {} => q.account = p.account
    BY DEF StatusGranted
  <1>. QED BY <1>1, <1>2, <1>3, PolicyAssumption DEF Permits

LEMMA StatusRevokedPermits ==
  ASSUME NEW p \in Policies, Sane(p), NEW A \in SUBSET Accounts
  PROVE  /\ StatusRevoked(p, A) \in Policies /\ Sane(StatusRevoked(p, A))
         /\ Permits(StatusRevoked(p, A)) = Permits(p) \
              {<<"status", a>> : a \in IF A = {} THEN Accounts ELSE A}
  <1>. DEFINE q == StatusRevoked(p, A)
              B == IF A = {} THEN Accounts ELSE A
  <1>1. StatusAccounts(p) \in SUBSET Accounts
    BY DEF StatusAccounts, Policies
  <1>2. q \in Policies /\ Sane(q) /\ q.fields = p.fields
    BY <1>1, PolicyAssumption DEF StatusRevoked, Policies, Sane
  <1>3. StatusAccounts(q) = StatusAccounts(p) \ B
    BY <1>1 DEF StatusRevoked, StatusAccounts
  <1>4. p.fields # {} => q.account = p.account
    BY DEF StatusRevoked
  <1>. QED BY <1>2, <1>3, <1>4, PolicyAssumption DEF Permits

\* What a command does to a policy is what it is meant to do to the grants.
LEMMA UpdatedIsMeant ==
  ASSUME NEW c \in Commands, WellPosed(c), NEW s \in Stores,
         Sane(s[c.client]), Possible(c, s)
  PROVE  /\ Updated(c, s[c.client]) \in Policies \union {NoPolicy}
         /\ Sane(Updated(c, s[c.client]))
         /\ Permits(Updated(c, s[c.client])) = Meant(c, Permits(s[c.client]))
  <1>. DEFINE p == s[c.client]
  <1>1. CASE c.kind = "create"
    <2>1. Fresh \in Policies /\ Sane(Fresh) /\ Permits(Fresh) = {}
      BY DEF Fresh, Policies, Sane, Permits, StatusAccounts
    <2>. QED BY <1>1, <2>1 DEF Updated, Meant
  <1>2. CASE c.kind = "revoke_client"
    BY <1>2 DEF Updated, Meant, Sane, Permits
  <1>. SUFFICES ASSUME c.kind \notin {"create", "revoke_client"}
                PROVE  /\ Updated(c, p) \in Policies \union {NoPolicy}
                       /\ Sane(Updated(c, p))
                       /\ Permits(Updated(c, p)) = Meant(c, Permits(p))
    BY <1>1, <1>2
  <1>3. p \in Policies /\ Sane(p)
    BY DEF Possible, Stores, Commands
  <1>4. CASE c.kind = "grant"
    <2>1. PICK a \in Accounts : c.accounts = {a}
      BY <1>4 DEF WellPosed
    <2>2. (CHOOSE b \in c.accounts : TRUE) = a /\ CanGrant(p, a)
      BY <1>3, <1>4, <2>1 DEF Possible
    <2>3. c.fields \in SUBSET Fields /\ c.fields # {}
      BY <1>4 DEF Commands, WellPosed
    <2>4. Updated(c, p) = Granted(p, a, c.fields)
      BY <1>4, <2>2 DEF Updated
    <2>5. Meant(c, Permits(p))
            = Permits(p) \union {<<"field", b, f>> : b \in {a}, f \in c.fields}
      BY <1>4, <2>1 DEF Meant
    <2>. QED BY <1>3, <2>2, <2>3, <2>4, <2>5, GrantedPermits
  <1>5. CASE c.kind = "revoke"
    BY <1>3, <1>5, RevokedPermits DEF Updated, Meant, Commands
  <1>6. CASE c.kind = "grant_status"
    BY <1>3, <1>6, StatusGrantedPermits DEF Updated, Meant, Commands, WellPosed
  <1>7. CASE c.kind = "revoke_status"
    BY <1>3, <1>7, StatusRevokedPermits DEF Updated, Meant, Commands
  <1>. QED BY <1>1, <1>2, <1>4, <1>5, <1>6, <1>7 DEF Commands
-----------------------------------------------------------------------------
(* Types.                                                                  *)

\* The types of TypeOK, and that the lock is held by whoever loads or saves.
Types ==
  /\ enabled \in BOOLEAN
  /\ store \in Stores
  /\ lock \in Clis \union {Nobody}
  /\ keypair \in [Clients -> {"none", "cert", "both", "key", "gone"}]
  /\ pc \in [Clis -> {"idle", "issue", "lock", "load", "save", "unissue"}]
  /\ cmd \in [Clis -> Commands]
  /\ copy \in [Clis -> Stores]
  /\ rpc \in [Requests -> {"idle", "config", "policy", "serve"}]
  /\ ask \in [Requests -> Asks]
  /\ seen \in [Requests -> BOOLEAN]
  /\ answer \in [Requests -> SUBSET Permissions]
  /\ granted \in [Clients -> SUBSET Permissions]
  /\ since \in [Requests -> SUBSET Permissions]
  /\ wasOn \in [Requests -> BOOLEAN]

\* The invariant of the store: one command at a time is between load and
\* save, what it has loaded is what is there, and what is there is what was
\* granted.
StoreInv ==
  /\ Types
  /\ \A c \in Clients : Sane(store[c]) /\ Permits(store[c]) = granted[c]
  /\ \A p \in Clis : lock = p <=> pc[p] \in {"load", "save"}
  /\ \A p \in Clis : pc[p] # "idle" => WellPosed(cmd[p])
  /\ \A p \in Clis :
       pc[p] = "save" => copy[p] = store /\ Possible(cmd[p], store)

LEMMA NoStoreTyped ==
  /\ NoStore \in Stores /\ NoCommand \in Commands /\ NoAsk \in Asks
  /\ SomeClient \in Clients
  <1>1. SomeClient \in Clients
    BY PolicyValueAssumption DEF SomeClient
  <1>. QED BY <1>1 DEF NoStore, Stores, NoCommand, Commands, NoAsk, Asks

LEMMA LegacyPermits ==
  ASSUME NEW a \in Accounts
  PROVE  /\ Legacy(a) \in Policies /\ Sane(Legacy(a))
         /\ Permits(Legacy(a)) = {<<"status", a>>}
  <1>1. Legacy(a) \in Policies
    BY DEF Legacy, Policies
  <1>2. Sane(Legacy(a))
    BY PolicyValueAssumption DEF Legacy, Sane
  <1>3. StatusAccounts(Legacy(a)) = {a} /\ Legacy(a).fields = {}
    BY PolicyValueAssumption DEF Legacy, StatusAccounts
  <1>4. Legacy(a) # NoPolicy
    BY <1>1, PolicyAssumption
  <1>. QED BY <1>1, <1>2, <1>3, <1>4 DEF Permits

LEMMA MeantTyped ==
  ASSUME NEW c \in Commands, NEW held \in SUBSET Permissions
  PROVE  Meant(c, held) \in SUBSET Permissions
  BY DEF Meant, Commands, Permissions

LEMMA AllowedTyped ==
  ASSUME NEW q \in Asks, StoreInv
  PROVE  Allowed(q) \subseteq granted[q.client]
  BY DEF Allowed, Asks, StoreInv

LEMMA StoreInvInit == PolicyInit => StoreInv
  <1>. SUFFICES ASSUME PolicyInit PROVE StoreInv
    OBVIOUS
  <1>1. CASE /\ store = NoStore
             /\ keypair = [c \in Clients |-> "none"]
             /\ granted = [c \in Clients |-> {}]
    BY <1>1, NoStoreTyped, PolicyValueAssumption
    DEF PolicyInit, StoreInv, Types, NoStore, Permits, Sane
  <1>2. ASSUME NEW o \in Clients, NEW a \in Accounts,
               store = [NoStore EXCEPT ![o] = Legacy(a)],
               keypair = [c \in Clients |-> IF c = o THEN "both" ELSE "none"],
               granted = [c \in Clients |->
                            IF c = o THEN {<<"status", a>>} ELSE {}]
        PROVE  StoreInv
    <2>1. store \in Stores
      BY <1>2, LegacyPermits DEF Stores, NoStore
    <2>2. \A c \in Clients : Sane(store[c]) /\ Permits(store[c]) = granted[c]
      BY <1>2, LegacyPermits DEF NoStore, Sane, Permits
    <2>3. granted \in [Clients -> SUBSET Permissions]
      BY <1>2 DEF Permissions
    <2>. QED BY <1>2, <2>1, <2>2, <2>3, NoStoreTyped, PolicyValueAssumption
             DEF PolicyInit, StoreInv, Types
  <1>. QED BY <1>1, <1>2 DEF PolicyInit

\* A command that leaves store and copies alone.
LEMMA StoreInvCommand ==
  ASSUME StoreInv, NEW p \in Clis,
         Command(p) \/ Issue(p) \/ IssueFails(p) \/ TakeLock(p) \/ Unissue(p)
  PROVE  StoreInv'
  <1>. USE DEF StoreInv, Types, Goto, reqVars, history
  <1>1. CASE Command(p)
    <2>1. PICK c \in Commands :
            /\ pc[p] = "idle" /\ cmd' = [cmd EXCEPT ![p] = c]
            /\ WellPosed(c)
            /\ Goto(p, IF c.kind = "create" THEN "issue" ELSE "lock")
            /\ UNCHANGED <<enabled, store, lock, keypair, copy, reqVars, history>>
      BY <1>1 DEF Command, WellPosed
    <2>. QED BY <2>1
  <1>2. CASE Issue(p)
    BY <1>2 DEF Issue
  <1>3. CASE IssueFails(p)
    BY <1>3 DEF IssueFails
  <1>4. CASE TakeLock(p)
    BY <1>4, PolicyValueAssumption DEF TakeLock
  <1>5. CASE Unissue(p)
    BY <1>5 DEF Unissue
  <1>. QED BY <1>1, <1>2, <1>3, <1>4, <1>5

LEMMA StoreInvLoad ==
  ASSUME StoreInv, NEW p \in Clis, Load(p)
  PROVE  StoreInv'
  <1>. USE DEF StoreInv, Types, Goto, reqVars, history
  <1>1. CASE Possible(cmd[p], store)
    BY <1>1 DEF Load
  <1>2. CASE ~Possible(cmd[p], store)
    BY <1>2, PolicyValueAssumption DEF Load
  <1>. QED BY <1>1, <1>2

\* The copy that is saved is the store that is there.
LEMMA StoreInvSave ==
  ASSUME StoreInv, NEW p \in Clis, Save(p)
  PROVE  StoreInv'
  <1>. DEFINE c == cmd[p]
  <1>1. /\ pc[p] = "save" /\ lock = p /\ copy[p] = store
        /\ c \in Commands /\ WellPosed(c) /\ Possible(c, store)
        /\ Sane(store[c.client]) /\ c.client \in Clients
        /\ Permits(store[c.client]) = granted[c.client]
    BY DEF StoreInv, Types, Save, Commands
  <1>2. /\ Updated(c, store[c.client]) \in Policies \union {NoPolicy}
        /\ Sane(Updated(c, store[c.client]))
        /\ Permits(Updated(c, store[c.client])) = Meant(c, granted[c.client])
    <2>1. store \in Stores
      BY DEF StoreInv, Types
    <2>. QED BY <1>1, <2>1, UpdatedIsMeant
  <1>3. /\ store' = [store EXCEPT ![c.client] = Updated(c, store[c.client])]
        /\ granted' = [granted EXCEPT ![c.client] = Meant(c, granted[c.client])]
    BY <1>1 DEF Save
  <1>4. store' \in Stores
    BY <1>1, <1>2, <1>3 DEF Stores, StoreInv, Types
  <1>5. granted' \in [Clients -> SUBSET Permissions]
    BY <1>1, <1>3, MeantTyped DEF StoreInv, Types
  <1>6. \A d \in Clients : Sane(store'[d]) /\ Permits(store'[d]) = granted'[d]
    BY <1>1, <1>2, <1>3 DEF StoreInv, Types, Stores
  <1>7. since' \in [Requests -> SUBSET Permissions]
    BY <1>5 DEF Save, Note, StoreInv, Types, Asks
  <1>8. /\ copy' \in [Clis -> Stores] /\ copy' = [copy EXCEPT ![p] = NoStore]
        /\ lock' = Nobody
        /\ pc' = [pc EXCEPT ![p] = IF c.kind = "revoke_client"
                                   THEN "unissue" ELSE "idle"]
    BY NoStoreTyped DEF Save, Goto, StoreInv, Types
  <1>9. UNCHANGED <<enabled, keypair, budget, cmd, rpc, ask, seen, answer, wasOn>>
    BY DEF Save, reqVars
  <1>. QED BY <1>1, <1>4, <1>5, <1>6, <1>7, <1>8, <1>9, PolicyValueAssumption
           DEF StoreInv, Types

LEMMA StoreInvEnd ==
  ASSUME StoreInv, NEW p \in Clis, SaveFails(p) \/ Crash(p)
  PROVE  StoreInv'
  <1>. USE PolicyValueAssumption, NoStoreTyped
       DEF StoreInv, Types, Goto, reqVars, history
  <1>1. CASE SaveFails(p)
    BY <1>1 DEF SaveFails
  <1>2. CASE Crash(p)
    BY <1>2 DEF Crash
  <1>. QED BY <1>1, <1>2

LEMMA StoreInvRequest ==
  ASSUME StoreInv, NEW r \in Requests,
         Arrive(r) \/ ReadConfig(r) \/ ReadPolicy(r) \/ Serve(r)
  PROVE  StoreInv'
  <1>. USE DEF StoreInv, Types, Step, cliVars, history
  <1>1. CASE Arrive(r)
    <2>1. PICK q \in Asks :
            /\ ask' = [ask EXCEPT ![r] = q]
            /\ since' = [since EXCEPT ![r] = granted[q.client]]
            /\ wasOn' = [wasOn EXCEPT ![r] = enabled]
            /\ Step(r, "config")
            /\ UNCHANGED <<enabled, store, keypair, cliVars, seen, answer,
                           granted>>
      BY <1>1 DEF Arrive
    <2>2. granted[q.client] \in SUBSET Permissions
      BY DEF Asks
    <2>. QED BY <2>1, <2>2
  <1>2. CASE ReadConfig(r)
    BY <1>2 DEF ReadConfig
  <1>3. CASE ReadPolicy(r)
    <2>1. Allowed(ask[r]) \in SUBSET Permissions
      <3>1. ask[r].client \in Clients /\ ask[r] \in Asks
        BY DEF Asks
      <3>. QED BY <3>1, AllowedTyped
    <2>2. (IF seen[r] THEN Allowed(ask[r]) ELSE {}) \in SUBSET Permissions
      BY <2>1
    <2>. QED BY <1>3, <2>2 DEF ReadPolicy
  <1>4. CASE Serve(r)
    BY <1>4 DEF Serve
  <1>. QED BY <1>1, <1>2, <1>3, <1>4

LEMMA StoreInvNext == StoreInv /\ [PolicyNext]_policyVars => StoreInv'
  <1>. SUFFICES ASSUME StoreInv, [PolicyNext]_policyVars PROVE StoreInv'
    OBVIOUS
  <1>1. CASE Switch
    BY <1>1 DEF Switch, StoreInv, Types, cliVars, reqVars
  <1>2. CASE UNCHANGED policyVars
    BY <1>2 DEF policyVars, StoreInv, Types, cliVars, reqVars, history
  <1>. QED BY <1>1, <1>2, StoreInvCommand, StoreInvLoad, StoreInvSave,
              StoreInvEnd, StoreInvRequest DEF PolicyNext

LEMMA StoreInvInvariant == PolicySpec => []StoreInv
  BY StoreInvInit, StoreInvNext, PTL DEF PolicySpec

\* No command undoes another's change, whatever failed in between: the
\* policies say what the operator has granted (`update_policy_at`).
THEOREM PolicyFollowsOperator == PolicySpec => []PolicyIsWhatWasGranted
  <1>1. StoreInv => PolicyIsWhatWasGranted
    BY DEF StoreInv, PolicyIsWhatWasGranted
  <1>. QED BY <1>1, StoreInvInvariant, PTL

LEMMA BudgetInvariant == PolicySpec => [](budget \in 0..Budget)
  <1>1. PolicyInit => budget \in 0..Budget
    BY PolicyValueAssumption DEF PolicyInit
  <1>2. budget \in 0..Budget /\ [PolicyNext]_policyVars => (budget \in 0..Budget)'
    <2>. SUFFICES ASSUME budget \in 0..Budget, [PolicyNext]_policyVars
                  PROVE  (budget \in 0..Budget)'
      OBVIOUS
    <2>1. Spend => (budget \in 0..Budget)'
      BY PolicyValueAssumption DEF Spend
    <2>2. Spend \/ UNCHANGED budget
      BY DEF PolicyNext, Command, Issue, IssueFails, TakeLock, Load, Save, SaveFails,
             Unissue, Crash, Switch, Arrive, ReadConfig, ReadPolicy, Serve, policyVars
    <2>. QED BY <2>1, <2>2
  <1>. QED BY <1>1, <1>2, PTL DEF PolicySpec

\* Type correctness, with what the commands keep true of every policy
\* (remote_api.rs): a client with fields is scoped to an account.
THEOREM TypeCorrect == PolicySpec => []PolicyTypeOK
  <1>1. StoreInv /\ budget \in 0..Budget => PolicyTypeOK
    BY DEF StoreInv, Types, PolicyTypeOK, Sane
  <1>. QED BY <1>1, StoreInvInvariant, BudgetInvariant, PTL
-----------------------------------------------------------------------------
(* Requests.                                                               *)

\* What the store allows a request may have been granted since it came, and
\* who has seen the API enabled has seen it since.
RequestInv ==
  \A r \in Requests : rpc[r] # "idle" =>
    /\ granted[ask[r].client] \subseteq since[r]
    /\ enabled => wasOn[r]
    /\ rpc[r] \in {"policy", "serve"} /\ seen[r] => wasOn[r]
    /\ rpc[r] = "serve" => answer[r] \subseteq since[r] /\ wasOn[r]

LEMMA RequestInvCommand ==
  ASSUME StoreInv, RequestInv, NEW p \in Clis,
         Command(p) \/ Issue(p) \/ IssueFails(p) \/ TakeLock(p) \/ Load(p)
           \/ SaveFails(p) \/ Unissue(p) \/ Crash(p)
  PROVE  RequestInv'
  <1>1. UNCHANGED <<enabled, reqVars, history>>
    BY DEF Command, Issue, IssueFails, TakeLock, Load, SaveFails, Unissue, Crash
  <1>. QED BY <1>1 DEF RequestInv, reqVars, history

LEMMA RequestInvSave ==
  ASSUME StoreInv, RequestInv, NEW p \in Clis, Save(p)
  PROVE  RequestInv'
  <1>1. /\ UNCHANGED <<enabled, reqVars, wasOn>>
        /\ \A r \in Requests :
             /\ since[r] \subseteq since'[r]
             /\ rpc[r] # "idle" => granted'[ask[r].client] \subseteq since'[r]
    BY DEF Save, Note
  <1>. QED BY <1>1 DEF RequestInv, reqVars

LEMMA RequestInvSwitch ==
  ASSUME StoreInv, RequestInv, Switch
  PROVE  RequestInv'
  BY DEF Switch, RequestInv, StoreInv, Types, reqVars

LEMMA RequestInvRequest ==
  ASSUME StoreInv, RequestInv, NEW r \in Requests,
         Arrive(r) \/ ReadConfig(r) \/ ReadPolicy(r) \/ Serve(r)
  PROVE  RequestInv'
  <1>. USE DEF RequestInv, StoreInv, Types, Step, history
  <1>1. CASE Arrive(r)
    <2>1. PICK q \in Asks :
            /\ ask' = [ask EXCEPT ![r] = q]
            /\ since' = [since EXCEPT ![r] = granted[q.client]]
            /\ wasOn' = [wasOn EXCEPT ![r] = enabled]
            /\ Step(r, "config")
            /\ UNCHANGED <<enabled, seen, answer, granted>>
      BY <1>1 DEF Arrive
    <2>. QED BY <2>1
  <1>2. CASE ReadConfig(r)
    BY <1>2 DEF ReadConfig
  <1>3. CASE ReadPolicy(r)
    <2>1. Allowed(ask[r]) \subseteq granted[ask[r].client]
      BY AllowedTyped
    <2>2. /\ rpc[r] = "policy"
          /\ rpc' = [rpc EXCEPT ![r] = IF answer'[r] = {} THEN "idle" ELSE "serve"]
          /\ answer' = [answer EXCEPT ![r] = IF seen[r] THEN Allowed(ask[r]) ELSE {}]
          /\ UNCHANGED <<enabled, ask, seen, granted, since, wasOn>>
      BY <1>3 DEF ReadPolicy
    <2>. QED BY <2>1, <2>2
  <1>4. CASE Serve(r)
    BY <1>4 DEF Serve
  <1>. QED BY <1>1, <1>2, <1>3, <1>4

LEMMA RequestInvInvariant == PolicySpec => []RequestInv
  <1>1. PolicyInit => RequestInv
    BY DEF PolicyInit, RequestInv
  <1>2. StoreInv /\ RequestInv /\ [PolicyNext]_policyVars => RequestInv'
    <2>. SUFFICES ASSUME StoreInv, RequestInv, [PolicyNext]_policyVars PROVE RequestInv'
      OBVIOUS
    <2>1. CASE UNCHANGED policyVars
      BY <2>1 DEF policyVars, RequestInv, reqVars, history
    <2>. QED BY <2>1, RequestInvCommand, RequestInvSave, RequestInvSwitch,
                RequestInvRequest DEF PolicyNext
  <1>. QED BY <1>1, <1>2, StoreInvInvariant, PTL DEF PolicySpec

\* What `read_field`, `list_items` and `read_status` answer was granted, with
\* the API enabled, at some moment since the request came: a revocation that
\* was saved before is never overlooked.
THEOREM AnswersWereGranted == PolicySpec => []ServedWasGranted
  <1>1. RequestInv => ServedWasGranted
    BY DEF RequestInv, ServedWasGranted
  <1>. QED BY <1>1, RequestInvInvariant, PTL
-----------------------------------------------------------------------------
(* Certificates and keys.                                                  *)

Creates(p) == pc[p] # "idle" /\ cmd[p].kind = "create"

\* The files of a client come before its policy and go after it, and nobody
\* takes them away while the command that made them is at work.
KeyInv ==
  /\ \A c \in Clients : store[c] # NoPolicy => keypair[c] = "both"
  /\ \A p \in Clis :
       LET c == cmd[p].client IN
       /\ pc[p] \in {"issue", "unissue"} => store[c] = NoPolicy
       /\ pc[p] = "unissue" => cmd[p].kind \in {"create", "revoke_client"}
       /\ pc[p] = "issue" => Creates(p) /\ keypair[c] \in {"none", "cert"}
       /\ Creates(p) /\ pc[p] # "unissue" => store[c] = NoPolicy
       /\ Creates(p) /\ pc[p] \in {"lock", "load", "save"} => keypair[c] = "both"
  /\ \A p, q \in Clis :
       Creates(p) /\ p # q /\ cmd[p].client = cmd[q].client
         => ~Creates(q) /\ pc[q] \in {"idle", "lock", "load"}

LEMMA KeyInvInit == PolicyInit => KeyInv
  BY PolicyAssumption, LegacyPermits
  DEF PolicyInit, KeyInv, NoStore, Creates

LEMMA KeyInvCommand ==
  ASSUME StoreInv, KeyInv, NEW p \in Clis, Command(p)
  PROVE  KeyInv'
  <1>1. PICK c \in Commands :
          /\ pc[p] = "idle" /\ cmd' = [cmd EXCEPT ![p] = c]
          /\ c.kind = "create" =>
               /\ keypair[c.client] = "none"
               /\ \A q \in Clis : cmd[q].client # c.client \/ pc[q] = "idle"
          /\ pc' = [pc EXCEPT ![p] = IF c.kind = "create" THEN "issue" ELSE "lock"]
          /\ UNCHANGED <<store, keypair>>
    BY DEF Command, Goto
  <1>2. c.client \in Clients
    BY DEF Commands
  <1>3. c.kind = "create" => store[c.client] = NoPolicy
    BY <1>1, <1>2 DEF KeyInv
  <1>. QED BY <1>1, <1>2, <1>3 DEF KeyInv, StoreInv, Types, Creates

LEMMA KeyInvFiles ==
  ASSUME StoreInv, KeyInv, NEW p \in Clis,
         Issue(p) \/ IssueFails(p) \/ Unissue(p)
  PROVE  KeyInv'
  <1>. USE DEF KeyInv, StoreInv, Types, Creates, Goto, Commands
  <1>1. CASE Issue(p)
    BY <1>1 DEF Issue
  <1>2. CASE IssueFails(p)
    BY <1>2 DEF IssueFails
  <1>3. CASE Unissue(p)
    BY <1>3 DEF Unissue
  <1>. QED BY <1>1, <1>2, <1>3

LEMMA KeyInvStore ==
  ASSUME StoreInv, KeyInv, NEW p \in Clis,
         TakeLock(p) \/ Load(p) \/ Save(p) \/ SaveFails(p) \/ Crash(p)
  PROVE  KeyInv'
  <1>. USE DEF KeyInv, StoreInv, Types, Creates, Goto, Commands
  <1>1. CASE TakeLock(p)
    BY <1>1 DEF TakeLock
  <1>2. CASE Load(p)
    <2>1. /\ pc[p] = "load" /\ UNCHANGED <<store, keypair, cmd>>
          /\ \/ pc' = [pc EXCEPT ![p] = "save"] /\ Possible(cmd[p], store)
             \/ pc' = [pc EXCEPT ![p] = "idle"]
      BY <1>2 DEF Load
    <2>2. ASSUME Possible(cmd[p], store), NEW q \in Clis, q # p,
                 cmd[q].client = cmd[p].client
          PROVE  ~Creates(q)
      <3>1. Creates(q) => store[cmd[q].client] = NoPolicy
        OBVIOUS
      <3>2. Creates(p) => ~Creates(q)
        BY <2>2
      <3>3. Creates(p) \/ store[cmd[p].client] # NoPolicy
        BY <2>1, <2>2 DEF Possible
      <3>. QED BY <2>2, <3>1, <3>2, <3>3
    <2>3. CASE pc' = [pc EXCEPT ![p] = "save"] /\ Possible(cmd[p], store)
      <3>1. \A q \in Clis : Creates(q)' <=> Creates(q)
        BY <2>1, <2>3
      <3>2. \A q \in Clis : q # p => pc'[q] = pc[q]
        BY <2>3
      <3>3. \A q \in Clis : q # p /\ cmd[q].client = cmd[p].client => ~Creates(q)
        BY <2>2, <2>3
      <3>. QED BY <2>1, <2>3, <3>1, <3>2, <3>3
    <2>4. CASE pc' = [pc EXCEPT ![p] = "idle"]
      BY <2>1, <2>4
    <2>. QED BY <2>1, <2>3, <2>4
  <1>3. CASE Save(p)
    <2>1. /\ store' = [store EXCEPT ![cmd[p].client]
                         = Updated(cmd[p], store[cmd[p].client])]
          /\ pc' = [pc EXCEPT ![p] = IF cmd[p].kind = "revoke_client"
                                     THEN "unissue" ELSE "idle"]
          /\ UNCHANGED <<keypair, cmd>>
          /\ Possible(cmd[p], store)
          /\ pc[p] = "save"
      BY <1>3 DEF Save
    <2>2. store \in [Clients -> Policies \union {NoPolicy}]
      BY DEF Stores
    <2>3. cmd[p].kind = "revoke_client" =>
            Updated(cmd[p], store[cmd[p].client]) = NoPolicy
      BY DEF Updated
    <2>4. keypair[cmd[p].client] = "both"
      BY <2>1 DEF Possible
    <2>5. \A q \in Clis : q # p /\ cmd[q].client = cmd[p].client
            => ~Creates(q) /\ pc[q] \notin {"issue", "unissue"}
      BY <2>1 DEF Possible
    <2>6. \A d \in Clients : d # cmd[p].client => store'[d] = store[d]
      BY <2>1, <2>2
    <2>7. \A q \in Clis : q # p => pc'[q] = pc[q] /\ Creates(q)' = Creates(q)
      BY <2>1
    <2>8. pc'[p] = "unissue" => store'[cmd[p].client] = NoPolicy
      BY <2>1, <2>2, <2>3
    <2>9. pc'[p] = "unissue" => cmd[p].kind = "revoke_client"
      BY <2>1
    <2>10. pc'[p] \in {"idle", "unissue"} /\ ~Creates(p)'
      BY <2>1
    <2>11. \A d \in Clients : store'[d] # NoPolicy => keypair[d] = "both"
      BY <2>4, <2>6
    <2>. QED BY <2>1, <2>4, <2>5, <2>6, <2>7, <2>8, <2>9, <2>10, <2>11
  <1>4. CASE SaveFails(p)
    BY <1>4 DEF SaveFails
  <1>5. CASE Crash(p)
    BY <1>5 DEF Crash
  <1>. QED BY <1>1, <1>2, <1>3, <1>4, <1>5

LEMMA KeyInvInvariant == PolicySpec => []KeyInv
  <1>1. StoreInv /\ KeyInv /\ [PolicyNext]_policyVars => KeyInv'
    <2>. SUFFICES ASSUME StoreInv, KeyInv, [PolicyNext]_policyVars PROVE KeyInv'
      OBVIOUS
    <2>1. CASE UNCHANGED policyVars
      BY <2>1 DEF policyVars, cliVars, KeyInv, Creates
    <2>2. CASE Switch
      BY <2>2 DEF Switch, cliVars, KeyInv, Creates
    <2>3. ASSUME NEW r \in Requests,
                 Arrive(r) \/ ReadConfig(r) \/ ReadPolicy(r) \/ Serve(r)
          PROVE  KeyInv'
      BY <2>3 DEF Arrive, ReadConfig, ReadPolicy, Serve, cliVars, KeyInv,
                  Creates
    <2>. QED BY <2>1, <2>2, <2>3, KeyInvCommand, KeyInvFiles, KeyInvStore
             DEF PolicyNext
  <1>. QED BY <1>1, KeyInvInit, StoreInvInvariant, PTL DEF PolicySpec

\* A client with a policy has a certificate and a key, however creations and
\* revocations meet, fail or die (`create_client`, `revoke_client`).
THEOREM PoliciesHaveKeys == PolicySpec => []ClientsHaveKeys
  <1>1. KeyInv => ClientsHaveKeys
    BY DEF KeyInv, ClientsHaveKeys
  <1>. QED BY <1>1, KeyInvInvariant, PTL
=============================================================================
