----------------------------- MODULE ViewerFeeds -----------------------------
(***************************************************************************)
(* Where the APRS viewer's packets come from and how its configuration is  *)
(* changed while it runs: aprs-viewer/src/main.rs (the two supervisor      *)
(* tasks, api_put_config), server/aprs_is.rs (run_aprs_is_client) and      *)
(* server/ingest.rs (run_kiss_ingest), over ViewerIngest.                  *)
(*                                                                         *)
(* A supervisor reads the configuration and runs its feed's client until   *)
(* a change is notified; then it drops the client wherever it is, in the   *)
(* middle of a packet too, and begins again.  The APRS-IS client leaves    *)
(* half of its connection to a keepalive task, which is not dropped with   *)
(* it.                                                                     *)
(***************************************************************************)
EXTENDS ViewerIngest

CONSTANTS
    KeepaliveFeeds,    \* the feeds whose client logs in and keeps alive (APRS-IS)
    Configs,           \* the configurations: which feeds are enabled
    MaxBackoff,        \* longest pause between two connections (60 s)
    Puts,              \* bound: PUT requests, each with a configuration
    MaxFaults          \* bound: failed connections, logins and statements

ASSUME FeedsAssumption ==
    /\ KeepaliveFeeds \subseteq Feeds
    /\ Configs \subseteq [Feeds -> BOOLEAN]
    /\ MaxBackoff \in Nat \ {0} /\ MaxFaults \in Nat

Absent == << >>

VARIABLES
    memory,        \* the configuration the server works with
    file,          \* the one it will find when it is started again
    put,           \* each PUT request: where it is, and its configuration
    version,       \* changes notified so far (the watch channel)
    supervisor,    \* each feed's supervisor
    seen,          \* the version its receiver has seen
    client,        \* the client it runs
    backoff,       \* the client's pause, in seconds
    keepalive,     \* the keepalive task of the client's connection
    orphans,       \* connections only a keepalive task still holds
    faults,        \* failures so far
    overlapped     \* history: two PUTs were handled at the same time

configVars == <<memory, file, put, version, overlapped>>
supervisorVars == <<supervisor, seen>>
clientVars == <<client, backoff, keepalive, orphans>>
vars == <<ingestVars, configVars, supervisorVars, clientVars, faults>>

Init ==
    /\ IngestInit
    /\ memory \in Configs /\ file = memory
    /\ put = [r \in Puts |-> [st |-> "none", config |-> Absent]]
    /\ version = 0 /\ overlapped = FALSE
    /\ supervisor = [f \in Feeds |-> "reading"] /\ seen = [f \in Feeds |-> 0]
    /\ client = [f \in Feeds |-> "none"] /\ backoff = [f \in Feeds |-> 1]
    /\ keepalive = [f \in Feeds |-> "none"] /\ orphans = [f \in Feeds |-> 0]
    /\ faults = 0

-----------------------------------------------------------------------------
(* api_put_config: save the file, replace the memory, notify. *)
PutAt(r, st) == put[r].st = st
PutGoes(r, st) == put' = [put EXCEPT ![r].st = st]

PutSave(r, c) ==
    /\ PutAt(r, "none")
    /\ put' = [put EXCEPT ![r] = [st |-> "saved", config |-> c]]
    /\ file' = c
    /\ overlapped' = (overlapped \/ \E q \in Puts : put[q].st \in {"saved", "stored"})
    /\ UNCHANGED <<memory, version>>

\* A configuration that is not valid or cannot be saved changes nothing.
\* (Faulty variant: one that cannot be saved is used all the same.)
PutUnsaved(r) ==
    /\ PutAt(r, "none")
    /\ PutGoes(r, "done")
    /\ memory' \in Configs
    /\ UNCHANGED <<file, version, overlapped>>
PutFails(r) ==
    /\ PutAt(r, "none")
    /\ PutGoes(r, "done")
    /\ UNCHANGED <<memory, file, version, overlapped>>

PutStore(r) ==
    /\ PutAt(r, "saved")
    /\ memory' = put[r].config
    /\ PutGoes(r, "stored")
    /\ UNCHANGED <<file, version, overlapped>>

PutNotify(r) ==
    /\ PutAt(r, "stored")
    /\ version' = version + 1
    /\ PutGoes(r, "done")
    /\ UNCHANGED <<memory, file, overlapped>>

Put(r) ==
    /\ PutFails(r) \/ PutStore(r) \/ PutNotify(r) \/ \E c \in Configs : PutSave(r, c)
    /\ UNCHANGED <<ingestVars, supervisorVars, clientVars, faults>>

-----------------------------------------------------------------------------
(* A feed's client: connect, log in, read until the connection ends, pause.  *)
Fault == faults < MaxFaults /\ faults' = faults + 1
Doubled(b) == IF 2 * b < MaxBackoff THEN 2 * b ELSE MaxBackoff

Connected(f) ==
    /\ client[f] = "connecting"
    /\ backoff' = [backoff EXCEPT ![f] = 1]
    /\ client' = [client EXCEPT ![f] = IF f \in KeepaliveFeeds THEN "login" ELSE "reading"]
    /\ UNCHANGED <<ingestVars, keepalive, orphans, faults>>

ConnectFails(f) ==
    /\ client[f] = "connecting" /\ Fault
    /\ client' = [client EXCEPT ![f] = "pausing"]
    /\ UNCHANGED <<ingestVars, backoff, keepalive, orphans>>

LoggedIn(f) ==
    /\ client[f] = "login"
    /\ client' = [client EXCEPT ![f] = "reading"]
    /\ keepalive' = [keepalive EXCEPT ![f] = "running"]
    /\ UNCHANGED <<ingestVars, backoff, orphans, faults>>

\* `continue': connects again at once.
LoginFails(f) ==
    /\ client[f] = "login" /\ Fault
    /\ client' = [client EXCEPT ![f] = "connecting"]
    /\ UNCHANGED <<ingestVars, backoff, keepalive, orphans>>

\* The read loop handles one packet at a time.
HandlePacket(f) ==
    /\ client[f] = "reading"
    /\ \/ (Execute(f) \/ \E k \in Kinds : Receive(f, k)) /\ UNCHANGED faults
       \/ (Fail(f) \/ Skip(f)) /\ Fault
    /\ UNCHANGED clientVars

\* Faulty variant: leaves the keepalive task to itself.
LeavesKeepalive(f) ==
    /\ keepalive' = [keepalive EXCEPT ![f] = "none"]
    /\ orphans' = [orphans EXCEPT ![f] = @ + (IF keepalive[f] = "running" THEN 1 ELSE 0)]
\* keepalive_handle.abort()
AbortsKeepalive(f) ==
    /\ keepalive' = [keepalive EXCEPT ![f] = "none"]
    /\ UNCHANGED orphans

ConnectionEnds(f) ==
    /\ client[f] = "reading" /\ ~Busy(f) /\ Fault
    /\ client' = [client EXCEPT ![f] = "pausing"]
    /\ AbortsKeepalive(f)
    /\ UNCHANGED <<ingestVars, backoff>>

Pause(f) ==
    /\ client[f] = "pausing"
    /\ client' = [client EXCEPT ![f] = "connecting"]
    /\ backoff' = [backoff EXCEPT ![f] = Doubled(@)]
    /\ UNCHANGED <<ingestVars, keepalive, orphans, faults>>

Client(f) ==
    /\ \/ Connected(f) \/ ConnectFails(f) \/ LoggedIn(f) \/ LoginFails(f)
       \/ HandlePacket(f) \/ ConnectionEnds(f) \/ Pause(f)
    /\ UNCHANGED <<configVars, supervisorVars>>

\* The keepalive task ends when a write fails; the last half of an orphaned
\* connection is closed with it.
KeepaliveEnds(f) ==
    /\ \/ /\ keepalive[f] = "running" /\ Fault
          /\ keepalive' = [keepalive EXCEPT ![f] = "ended"]
          /\ UNCHANGED orphans
       \/ /\ orphans[f] > 0
          /\ orphans' = [orphans EXCEPT ![f] = @ - 1]
          /\ UNCHANGED <<keepalive, faults>>
    /\ UNCHANGED <<ingestVars, configVars, supervisorVars, client, backoff>>

-----------------------------------------------------------------------------
(* A feed's supervisor.  Its client starts with a backoff of its own. *)
ReadConfig(f) ==
    /\ supervisor[f] = "reading"
    /\ supervisor' = [supervisor EXCEPT ![f] = IF memory[f] THEN "running" ELSE "idle"]
    /\ client' = [client EXCEPT ![f] = IF memory[f] THEN "connecting" ELSE "none"]
    /\ backoff' = [backoff EXCEPT ![f] = 1]
    /\ UNCHANGED <<ingestVars, configVars, seen, keepalive, orphans, faults>>

\* Faulty variant: goes on with the configuration it has.
StaysAsItIs(f) == UNCHANGED supervisor
BeginsAgain(f) == supervisor' = [supervisor EXCEPT ![f] = "reading"]

\* config_rx.changed(): the client is dropped, and with it the packet it is at.
Changed(f) ==
    /\ supervisor[f] \in {"running", "idle"} /\ seen[f] # version
    /\ seen' = [seen EXCEPT ![f] = version]
    /\ BeginsAgain(f)
    /\ client' = [client EXCEPT ![f] = "none"]
    /\ LeavesKeepalive(f)
    /\ IF Busy(f) THEN Cancel(f) ELSE UNCHANGED ingestVars
    /\ UNCHANGED <<configVars, backoff, faults>>

Supervisor(f) == ReadConfig(f) \/ Changed(f)

Next ==
    \/ \E r \in Puts : Put(r)
    \/ \E f \in Feeds : Supervisor(f) \/ Client(f) \/ KeepaliveEnds(f)
    \/ Cleanup /\ UNCHANGED <<configVars, supervisorVars, clientVars, faults>>

Spec == Init /\ [][Next]_vars

\* The runtime polls every task; a PUT that is being handled is handled to its
\* end; a connection that is tried again and again, and a statement, succeed
\* once the bounded number of failures is used up.
FairSpec ==
    /\ Spec
    /\ \A r \in Puts : WF_vars(~PutAt(r, "none") /\ Put(r))
    /\ \A f \in Feeds : WF_vars(Supervisor(f)) /\ WF_vars(Client(f))

-----------------------------------------------------------------------------
\* Connections that nobody reads any more are left behind by changes of the
\* configuration only, one each: not by connections that end by themselves,
\* however often they do.
OrphansAreFew == \A f \in Feeds : orphans[f] <= seen[f]

\* What the server will find when it is started again is what it works with,
\* unless two PUTs were handled at the same time.
PutsDone == \A r \in Puts : put[r].st \in {"none", "done"}
FileIsMemory == PutsDone /\ ~overlapped => file = memory

\* Whatever PUTs race with each other and with the supervisors: in the end
\* each feed runs, or rests, as the configuration in memory says.
Follows(f) == supervisor[f] = (IF memory[f] THEN "running" ELSE "idle")
ConfigTakesEffect ==
    \A f \in Feeds : PutsDone ~> (Follows(f) \/ ~PutsDone)
=============================================================================
