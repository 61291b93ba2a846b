---------------------------- MODULE ApiListener ----------------------------
(***************************************************************************)
(* The listener of the remote API: the task of the agent that starts and   *)
(* stops it as the configuration file says (`supervise`,                   *)
(* bin/rbw-agent/api.rs), the commands `rbw api enable`, `disable` and     *)
(* `client create` (remote_api_cmds.rs), and what they share: the          *)
(* certificate and key of the server, made and renewed under pki.lock      *)
(* (remote_api.rs), and the status file listener.json.                     *)
(*                                                                         *)
(* The listen address stays the same; a changed address is followed the    *)
(* way a changed host name is. The certificate authority never changes.    *)
(***************************************************************************)
EXTENDS Naturals

CONSTANTS
  Cmds,      \* bound: commands at once
  Agent,     \* the agent's task
  Hosts,     \* names for `api.hostname`
  Nothing,   \* no certificate, no listener, no status
  NoHolder,  \* pki.lock is free
  MaxCmds,   \* bound: commands
  Faults     \* bound: failures

ASSUME ListenerAssumption ==
  /\ Agent \notin Cmds /\ NoHolder \notin Cmds /\ NoHolder # Agent
  /\ Nothing \notin Hosts /\ Hosts # {}
ASSUME BoundAssumption == MaxCmds \in Nat /\ Faults \in Nat

VARIABLES
  on, host,         \* `api.enabled` and `api.hostname` of the configuration
  cert, by,         \* server.pem: the name it is for, and who wrote it
  fits,             \* server-key.pem is the key of server.pem
  name,             \* the file `hostname`
  pkiLock,          \* who holds pki.lock
  at,               \* the step of the agent's task and of every command
  want,             \* the host name each of them works for
  kind,             \* per command: what it is to do
  alive,            \* the agent runs
  tls,              \* the identity loaded by the agent, yet to be served
  listener,         \* the listener of the agent
  status, last,     \* the status file, and what the agent last put there
  cmdsLeft, faults,
  broken,           \* history: a renewal was broken off
  stale             \* history: the status file does not follow the agent

configVars == <<on, host>>
pkiVars == <<cert, by, fits, name, pkiLock, broken>>
agentVars == <<alive, tls, listener>>
statusVars == <<status, last, stale>>
listenerVars == <<configVars, pkiVars, at, want, kind, agentVars, statusVars,
                  cmdsLeft, faults>>

Procs == Cmds \union {Agent}
Identities == [host : Hosts, fits : BOOLEAN]
Listeners == [host : Hosts, tls : Identities]
Statuses == [on : BOOLEAN, up : BOOLEAN, host : Hosts, error : BOOLEAN]
ASSUME NothingAssumption == Nothing \notin Listeners
Off == [on |-> FALSE, up |-> FALSE, host |-> host, error |-> FALSE]
Serving(h) == listener # Nothing /\ listener.host = h
Renewing == {"cert", "key", "name"}

ListenerTypeOK ==
  /\ on \in BOOLEAN /\ host \in Hosts
  /\ cert \in Hosts \union {Nothing} /\ name \in Hosts \union {Nothing}
  /\ by \in Procs /\ fits \in BOOLEAN
  /\ pkiLock \in Procs \union {NoHolder}
  /\ at \in [Procs -> {"idle", "pki", "use", "bind", "save", "agent", "wait",
                       "undo", "stopped"} \union Renewing]
  /\ want \in [Procs -> Hosts]
  /\ kind \in [Cmds -> {"enable", "create"}]
  /\ alive \in BOOLEAN
  /\ tls \in Identities \union {Nothing}
  /\ listener \in Listeners \union {Nothing}
  /\ status \in Statuses \union {Nothing}
  /\ last \in Statuses \union {Nothing}
  /\ cmdsLeft \in 0..MaxCmds /\ faults \in 0..Faults
  /\ broken \in BOOLEAN /\ stale \in BOOLEAN
  /\ \A x \in Procs : pkiLock = x <=> at[x] \in Renewing \union {"use"}
  /\ ~alive => at[Agent] = "idle" /\ listener = Nothing /\ last = Nothing

ListenerInit ==
  /\ on = FALSE /\ host \in Hosts
  /\ cert = Nothing /\ name = Nothing /\ by = Agent /\ fits = TRUE
  /\ pkiLock = NoHolder
  /\ at = [x \in Procs |-> "idle"]
  /\ want = [x \in Procs |-> host]
  /\ kind = [p \in Cmds |-> "create"]
  /\ alive \in BOOLEAN
  /\ tls = Nothing /\ listener = Nothing
  /\ status = Nothing /\ last = Nothing
  /\ cmdsLeft = MaxCmds /\ faults = Faults
  /\ broken = FALSE /\ stale = FALSE

Proceeds(x, step) == at' = [at EXCEPT ![x] = step]
Fault == faults > 0 /\ faults' = faults - 1
-----------------------------------------------------------------------------
(* The certificate of the server. Whoever works on it holds pki.lock.      *)

\* `ensure_tls_material_unlocked`: what there is already will do.
Sound(h) == name = h /\ fits

\* `with_tls_material`. A directory of files is made under another name, and
\* renamed; files there are renewed if need be.
Enter_Unlocked(x) ==
  /\ at[x] = "pki"
  /\ IF cert = Nothing
     THEN /\ cert' = want[x] /\ name' = want[x] /\ by' = x /\ fits' = TRUE
          /\ Proceeds(x, "use")
     ELSE /\ Proceeds(x, IF Sound(want[x]) THEN "use" ELSE "cert")
          /\ UNCHANGED <<cert, by, fits, name>>
  /\ pkiLock' = x
  /\ UNCHANGED <<configVars, broken, want, kind, agentVars, statusVars,
                 cmdsLeft, faults>>

Enter(x) ==
  /\ at[x] = "pki" /\ pkiLock = NoHolder
  /\ pkiLock' = x
  /\ IF cert = Nothing
     THEN /\ cert' = want[x] /\ name' = want[x] /\ by' = x /\ fits' = TRUE
          /\ Proceeds(x, "use")
     ELSE /\ Proceeds(x, IF Sound(want[x]) THEN "use" ELSE "cert")
          /\ UNCHANGED <<cert, by, fits, name>>
  /\ UNCHANGED <<configVars, broken, want, kind, agentVars, statusVars,
                 cmdsLeft, faults>>

\* `rotate_server_certificate`: one file after the other is replaced.
WriteCert(x) ==
  /\ at[x] = "cert"
  /\ cert' = want[x] /\ by' = x /\ fits' = FALSE
  /\ Proceeds(x, "key")
  /\ UNCHANGED <<configVars, name, pkiLock, broken, want, kind, agentVars,
                 statusVars, cmdsLeft, faults>>

WriteKey(x) ==
  /\ at[x] = "key"
  /\ fits' = (by = x)
  /\ Proceeds(x, "name")
  /\ UNCHANGED <<configVars, cert, by, name, pkiLock, broken, want, kind,
                 agentVars, statusVars, cmdsLeft, faults>>

WriteName_Forgets(x) ==
  /\ at[x] = "name"
  /\ Proceeds(x, "use")
  /\ UNCHANGED <<configVars, pkiVars, want, kind, agentVars, statusVars,
                 cmdsLeft, faults>>

WriteName(x) ==
  /\ at[x] = "name"
  /\ name' = want[x]
  /\ Proceeds(x, "use")
  /\ UNCHANGED <<configVars, cert, by, fits, pkiLock, broken, want, kind,
                 agentVars, statusVars, cmdsLeft, faults>>

\* A renewal ends before its time.
BrokenOff(x) ==
  /\ broken' = (broken \/ at[x] \in {"key", "name"})
  /\ pkiLock' = IF pkiLock = x THEN NoHolder ELSE pkiLock
-----------------------------------------------------------------------------
(* The agent.                                                              *)

\* `save_status_if_changed`.
Report(s) ==
  IF last = s THEN UNCHANGED <<statusVars, faults>>
  ELSE /\ last' = s
       /\ \/ status' = s /\ stale' = FALSE /\ UNCHANGED faults
          \/ Fault /\ stale' = TRUE /\ UNCHANGED status

\* Every 500 ms the task follows the configuration. A listener that is not
\* wanted as it is is stopped; then one is started, or the stop reported.
Tick_AnyHost ==
  /\ alive /\ at[Agent] = "idle"
  /\ IF ~on
     THEN /\ listener' = Nothing
          /\ Report(Off)
          /\ UNCHANGED <<at, want>>
     ELSE /\ listener = Nothing
          /\ listener' = Nothing
          /\ want' = [want EXCEPT ![Agent] = host]
          /\ Proceeds(Agent, "pki")
          /\ UNCHANGED <<statusVars, faults>>
  /\ UNCHANGED <<configVars, pkiVars, kind, alive, tls, cmdsLeft>>

Tick ==
  /\ alive /\ at[Agent] = "idle"
  /\ IF ~on
     THEN /\ listener' = Nothing
          /\ Report(Off)
          /\ UNCHANGED <<at, want>>
     ELSE /\ ~Serving(host)
          /\ listener' = Nothing
          /\ want' = [want EXCEPT ![Agent] = host]
          /\ Proceeds(Agent, "pki")
          /\ UNCHANGED <<statusVars, faults>>
  /\ UNCHANGED <<configVars, pkiVars, kind, alive, tls, cmdsLeft>>

\* `tls_config_at`: certificate and key are read under the lock.
LoadTls_KeepsLock ==
  /\ at[Agent] = "use"
  /\ tls' = [host |-> cert, fits |-> fits]
  /\ Proceeds(Agent, "bind")
  /\ UNCHANGED <<configVars, pkiVars, want, kind, alive,
                 listener, statusVars, cmdsLeft, faults>>

LoadTls ==
  /\ at[Agent] = "use"
  /\ tls' = [host |-> cert, fits |-> fits]
  /\ pkiLock' = NoHolder
  /\ Proceeds(Agent, "bind")
  /\ UNCHANGED <<configVars, cert, by, fits, name, broken, want, kind, alive,
                 listener, statusVars, cmdsLeft, faults>>

Started(up) == [on |-> TRUE, up |-> up, host |-> want[Agent], error |-> ~up]

Bind_Silent ==
  /\ at[Agent] = "bind"
  /\ listener' = [host |-> want[Agent], tls |-> tls]
  /\ tls' = Nothing
  /\ Proceeds(Agent, "idle")
  /\ UNCHANGED <<configVars, pkiVars, want, kind, alive, statusVars, cmdsLeft,
                 faults>>

Bind ==
  /\ at[Agent] = "bind"
  /\ listener' = [host |-> want[Agent], tls |-> tls]
  /\ tls' = Nothing
  /\ Report(Started(TRUE))
  /\ Proceeds(Agent, "idle")
  /\ UNCHANGED <<configVars, pkiVars, want, kind, alive, cmdsLeft>>

\* The listener could not be started: a file could not be written or read, or
\* the address is taken.
StartFails ==
  /\ at[Agent] \in {"bind", "use"} \union Renewing
  /\ Fault
  /\ BrokenOff(Agent)
  /\ tls' = Nothing
  /\ last' = Started(FALSE)
  /\ IF last = Started(FALSE) THEN UNCHANGED <<status, stale>>
     ELSE status' = Started(FALSE) /\ stale' = FALSE
  /\ Proceeds(Agent, "idle")
  /\ UNCHANGED <<configVars, cert, by, fits, name, want, kind, alive,
                 listener, cmdsLeft>>

\* The listener ends by itself: its task is finished.
ListenerDies ==
  /\ listener # Nothing /\ at[Agent] = "idle"
  /\ Fault
  /\ listener' = Nothing
  /\ stale' = TRUE
  /\ UNCHANGED <<configVars, pkiVars, at, want, kind, alive, tls, status,
                 last, cmdsLeft>>

AgentDies ==
  /\ alive
  /\ Fault
  /\ alive' = FALSE
  /\ BrokenOff(Agent)
  /\ listener' = Nothing /\ tls' = Nothing /\ last' = Nothing
  /\ stale' = TRUE
  /\ Proceeds(Agent, "idle")
  /\ UNCHANGED <<configVars, cert, by, fits, name, want, kind, status, cmdsLeft>>
-----------------------------------------------------------------------------
(* The commands.                                                           *)

\* `rbw api enable` with a host name or the configured one; `rbw api client
\* create` for the configured one.
Begin(p) == \E k \in {"enable", "create"}, h \in Hosts :
  /\ at[p] = "idle"
  /\ cmdsLeft > 0 /\ cmdsLeft' = cmdsLeft - 1
  /\ k = "create" => h = host
  /\ kind' = [kind EXCEPT ![p] = k]
  /\ want' = [want EXCEPT ![p] = h]
  /\ Proceeds(p, "pki")
  /\ UNCHANGED <<configVars, pkiVars, agentVars, statusVars, faults>>

\* The certificate will do. A client's certificate needs no lock.
Ensured(p) ==
  /\ at[p] = "use"
  /\ pkiLock' = NoHolder
  /\ Proceeds(p, IF kind[p] = "enable" THEN "save" ELSE "idle")
  /\ UNCHANGED <<configVars, cert, by, fits, name, broken, want, kind,
                 agentVars, statusVars, cmdsLeft, faults>>

\* `api_enable` saves the configuration, or turns the API off again.
SaveConfig(p) ==
  /\ at[p] \in {"save", "undo"}
  /\ on' = (at[p] = "save") /\ host' = want[p]
  /\ Proceeds(p, IF at[p] = "save" THEN "agent" ELSE "stopped")
  /\ UNCHANGED <<pkiVars, want, kind, agentVars, statusVars, cmdsLeft, faults>>

EnsureAgent(p) ==
  /\ at[p] = "agent"
  /\ alive' = TRUE
  /\ Proceeds(p, "wait")
  /\ UNCHANGED <<configVars, pkiVars, want, kind, tls, listener, statusVars,
                 cmdsLeft, faults>>

\* `wait_for_listener` is over: the status says so, or time is up.
About(p) == status # Nothing /\ status.on /\ status.host = want[p]
WaitOver_Patient(p) ==
  /\ at[p] = "wait"
  /\ About(p)
  /\ Proceeds(p, IF status.up THEN "idle" ELSE "undo")
  /\ UNCHANGED <<configVars, pkiVars, want, kind, agentVars, statusVars,
                 cmdsLeft, faults>>

WaitOver(p) ==
  /\ at[p] = "wait"
  /\ Proceeds(p, IF About(p) /\ status.up THEN "idle" ELSE "undo")
  /\ UNCHANGED <<configVars, pkiVars, want, kind, agentVars, statusVars,
                 cmdsLeft, faults>>

\* `api_disable`.
Disable(p) ==
  /\ at[p] = "idle"
  /\ cmdsLeft > 0 /\ cmdsLeft' = cmdsLeft - 1
  /\ on' = FALSE
  /\ Proceeds(p, "stopped")
  /\ UNCHANGED <<host, pkiVars, want, kind, agentVars, statusVars, faults>>

\* `wait_for_listener_stopped` is over: the status says so, or time is up.
StoppedOver(p) ==
  /\ at[p] = "stopped"
  /\ Proceeds(p, "idle")
  /\ UNCHANGED <<configVars, pkiVars, want, kind, agentVars, statusVars,
                 cmdsLeft, faults>>

\* The command fails in the middle of its files, or is killed.
Dies(p) ==
  /\ at[p] # "idle"
  /\ Fault
  /\ BrokenOff(p)
  /\ Proceeds(p, "idle")
  /\ UNCHANGED <<configVars, cert, by, fits, name, want, kind, agentVars,
                 statusVars, cmdsLeft>>

Work(x) == Enter(x) \/ WriteCert(x) \/ WriteKey(x) \/ WriteName(x)
Proceed(p) ==
  Ensured(p) \/ SaveConfig(p) \/ EnsureAgent(p) \/ WaitOver(p) \/ StoppedOver(p)

ListenerNext ==
  \/ \E x \in Procs : Work(x)
  \/ \E p \in Cmds : Begin(p) \/ Disable(p) \/ Proceed(p) \/ Dies(p)
  \/ Tick \/ LoadTls \/ Bind \/ StartFails \/ ListenerDies \/ AgentDies

ListenerSpec == ListenerInit /\ [][ListenerNext]_listenerVars

\* The supervisor's interval ticks, tasks and processes run, and whoever
\* waits for a file lock gets it in the end.
ListenerFairSpec ==
  /\ ListenerSpec
  /\ \A x \in Procs : SF_listenerVars(Work(x))
  /\ \A p \in Cmds : WF_listenerVars(Proceed(p))
  /\ WF_listenerVars(Tick) /\ WF_listenerVars(LoadTls) /\ WF_listenerVars(Bind)
-----------------------------------------------------------------------------
(* The certificate and the key that are served belong together, whoever    *)
(* renews them at the same time and wherever a renewal was broken off:     *)
(* both are read under the lock, and a pair that does not fit is renewed   *)
(* first (remote_api.rs:480-482, 631-701).                                 *)
ServedKeyFits == listener # Nothing => listener.tls.fits

(* As the user documentation says, the server's certificate is for the     *)
(* name that is configured (docs/remote-api.md:17-18).                     *)
NamesItsHost == listener # Nothing => listener.tls.host = listener.host

(* As long as no renewal is broken off, it is.                             *)
NamesItsHostUnlessBroken == broken \/ NamesItsHost

(* Between two ticks the status file says what the agent does, unless it   *)
(* could not be written or something died since: waiting for it is waiting *)
(* for the listener (remote_api_cmds.rs:220-254).                          *)
StatusIsTrue ==
  (alive /\ at[Agent] = "idle" /\ ~stale /\ status # Nothing) =>
    IF status.up THEN Serving(status.host)
                 ELSE listener = Nothing

(* The agent follows the configuration: a start that failed, a listener    *)
(* that died and a change that came in the middle of a start are made good *)
(* at a later tick.                                                        *)
FollowsConfiguration ==
  /\ \A h \in Hosts :
       <>[](alive /\ on /\ host = h)
         => <>[]Serving(h)
  /\ <>[](~on) => <>[](listener = Nothing)

(* A command comes to its end, whatever becomes of the agent and of the    *)
(* status file it waits for.                                               *)
CommandsEnd == \A p \in Cmds : at[p] # "idle" ~> at[p] = "idle"
=============================================================================
