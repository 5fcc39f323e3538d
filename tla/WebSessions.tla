------------------------------- MODULE WebSessions -------------------------------
(***************************************************************************)
(* One linked WhatsApp phone: its WhatsAppWebSession row, the processes of *)
(* apps/whatsapp-web that may keep a socket for it, and the requests of    *)
(* the backend.  A lease in the row says which process owns the session.   *)
(* Handlers run between awaits; a check of the map of active sockets and   *)
(* the entry made after it are several awaits apart.  WhatsApp and the     *)
(* phone scan, accept, drop and unlink as they like.  The backend, notified *)
(* of a status, writes once more what the handler has just written; the    *)
(* model leaves that out.                                                  *)
(***************************************************************************)
EXTENDS Integers

CONSTANTS
  Instances,     \* processes; a restarted one has a new INSTANCE_ID and is another instance
  MaxConnects,   \* calls of connect() that pass its first check
  MaxAttempts,   \* RECONNECT_MAX_ATTEMPTS
  MaxRequests,   \* requests of the users to the backend
  MaxLapses,     \* times the lease goes stale although its owner is at work
  MaxFaults      \* writes and notifications that fail

ASSUME SessionAssumption ==
  /\ "none" \notin Instances
  /\ MaxConnects \in Nat /\ MaxAttempts \in Nat /\ MaxRequests \in Nat
  /\ MaxLapses \in Nat /\ MaxFaults \in Nat

Connections == 1..MaxConnects
Requests == 1..MaxRequests

VARIABLES
  status,      \* WhatsAppWebSession.status
  paired,      \* encryptedAuthState holds the keys of a paired device
  owner,       \* ownerInstanceId
  fresh,       \* lockHeartbeatAt is not older than LEASE_STALE_MS
  process,     \* the state of each process
  active,      \* SessionManager.active of each process: the connection in the map, or 0
  conn,        \* each call of connect() and the socket that came of it
  request,     \* the local state of the backend's requests
  spare,       \* history: MaxAttempts for each socket opened by a start or a request and for
               \* each connection that succeeded, less the reconnects decided on
  lapses, faults

row == <<status, paired, owner, fresh>>
history == <<spare, lapses, faults>>
vars == <<row, process, active, conn, request, history>>

Statuses == {"QR_PENDING", "CONNECTED", "RECONNECTING", "QR_EXPIRED", "ERROR", "LOGGED_OUT"}

\* carry: the attempts its entry gets when the timer has made the call, or 0.
\* keys: none, those of a scan on this socket, or those it was opened with.
\* expects: history, the timer's call can count on the keys its predecessor has flushed.
NoConn == [step |-> "free", instance |-> "none", carry |-> 0, attempts |-> 0, once |-> FALSE,
           keys |-> "none", heartbeat |-> FALSE, opening |-> "no",
           outcome |-> "none", expects |-> FALSE]
Over == [NoConn EXCEPT !.step = "done"]

Live(c) == conn[c].step = "live"
At(c, step) == conn[c].step = step

\* startPairing has created the row.
Init ==
  /\ status = "QR_PENDING" /\ paired = FALSE /\ owner = "none" /\ fresh = FALSE
  /\ process = [i \in Instances |-> "new"]
  /\ active = [i \in Instances |-> 0]
  /\ conn = [c \in Connections |-> NoConn]
  /\ request = [q \in Requests |-> [step |-> IF q = 1 THEN "connect" ELSE "new",
                                    instance |-> "none", conn |-> 0]]
  /\ spare = 0 /\ lapses = 0 /\ faults = 0

Fault == faults < MaxFaults /\ faults' = faults + 1

-----------------------------------------------------------------------------
(* connect(). *)

Unused == {c \in Connections : conn[c].step = "free"}
NextFree == CHOOSE c \in Unused : \A d \in Unused : c <= d

\* A call that finds the session in the map returns at once; the timer's then gives the
\* entry that is there the attempts of its own.  cs: conn as far as this step has changed it.
Call(i, carry, expects, cs) ==
  IF active[i] # 0
  THEN conn' = IF carry = 0 THEN cs ELSE [cs EXCEPT ![active[i]].attempts = carry]
  ELSE /\ Unused # {}
       /\ conn' = [cs EXCEPT ![NextFree] =
            [NoConn EXCEPT !.step = "claim", !.instance = i, !.carry = carry, !.expects = expects]]

\* bootstrap serves requests once the sessions are restored.
Return(i) == process' = [process EXCEPT ![i] = IF @ = "restoring" THEN "running" ELSE @]

MayClaim(i) == owner \in {"none", i} \/ ~fresh

\* claimLease: one conditional update.
ClaimLease(c) ==
  /\ At(c, "claim")
  /\ LET i == conn[c].instance IN
     IF MayClaim(i)
     THEN /\ owner' = i /\ fresh' = TRUE
          /\ conn' = [conn EXCEPT ![c].step = "load"]
          /\ UNCHANGED process
     ELSE /\ conn' = [d \in Connections |->
               IF d = c THEN Over
               ELSE IF d = active[i] /\ conn[c].carry > 0
               THEN [conn[d] EXCEPT !.attempts = conn[c].carry]
               ELSE conn[d]]
          /\ Return(i)
          /\ UNCHANGED <<owner, fresh>>
  /\ UNCHANGED <<status, paired, active, request, history>>

\* PostgresAuthStateStore.load.
LoadAuth(c) ==
  /\ At(c, "load")
  /\ conn' = [conn EXCEPT ![c].step = "start", ![c].keys = IF paired THEN "loaded" ELSE "none"]
  /\ UNCHANGED <<row, process, active, request, history>>

\* Mutant: the attempts of the connection before are forgotten.
StartOver(c) ==
  /\ At(c, "start")
  /\ LET i == conn[c].instance IN
     /\ conn' = [conn EXCEPT ![c].step = "live", ![c].heartbeat = TRUE, ![c].carry = 0]
     /\ active' = [active EXCEPT ![i] = c]
     /\ Return(i)
  /\ spare' = spare + IF conn[c].carry = 0 THEN MaxAttempts ELSE 0
  /\ UNCHANGED <<row, request, lapses, faults>>

\* The WhatsApp version is known: socket, heartbeat, and a new entry in the map, whatever
\* it holds by now.
OpenSocket(c) ==
  /\ At(c, "start")
  /\ LET i == conn[c].instance IN
     /\ conn' = [conn EXCEPT ![c].step = "live", ![c].heartbeat = TRUE,
                             ![c].attempts = conn[c].carry, ![c].carry = 0]
     /\ active' = [active EXCEPT ![i] = c]
     /\ Return(i)
  /\ spare' = spare + IF conn[c].carry = 0 THEN MaxAttempts ELSE 0
  /\ UNCHANGED <<row, request, lapses, faults>>

-----------------------------------------------------------------------------
(* Events of the socket. *)

\* A QR code is shown; its handler writes the row.
ShowQr(c) ==
  /\ Live(c) /\ conn[c].keys = "none"
  /\ status' = "QR_PENDING"
  /\ UNCHANGED <<paired, owner, fresh, process, active, conn, request, history>>

\* The phone scans it: there are keys, in memory so far.
Scan(c) ==
  /\ Live(c) /\ conn[c].keys = "none"
  /\ conn' = [conn EXCEPT ![c].keys = "scanned"]
  /\ UNCHANGED <<row, process, active, request, history>>

\* A write of the auth state replaces the whole of it.  cs as above: whoever counted on
\* the keys of another connection no longer can.
Replace(c, cs) ==
  /\ paired' = (conn[c].keys # "none")
  /\ conn' = [d \in Connections |->
       IF d = c THEN cs[d] ELSE [cs[d] EXCEPT !.expects = FALSE]]

\* Keys that changed are written after a pause, when the connection may be closed already.
FlushLater(c) ==
  /\ conn[c].step \in {"live", "write", "flush"} /\ conn[c].keys # "none"
  /\ Replace(c, conn)
  /\ UNCHANGED <<status, owner, fresh, process, active, request, history>>

\* The event 'open'; its handler writes CONNECTED and then the keys.
Opened(c) ==
  /\ Live(c) /\ ~conn[c].once /\ conn[c].keys = "loaded"
  /\ conn' = [conn EXCEPT ![c].attempts = 0, ![c].once = TRUE, ![c].opening = "write"]
  /\ spare' = spare + MaxAttempts
  /\ UNCHANGED <<row, process, active, request, lapses, faults>>

WriteConnected(c) ==
  /\ conn[c].opening = "write"
  /\ \/ status' = "CONNECTED" /\ UNCHANGED faults
     \/ Fault /\ UNCHANGED status
  /\ conn' = [conn EXCEPT ![c].opening = "flush"]
  /\ UNCHANGED <<paired, owner, fresh, process, active, request, spare, lapses>>

FlushOpened(c) ==
  /\ conn[c].opening = "flush"
  /\ Replace(c, [conn EXCEPT ![c] = IF At(c, "done") THEN Over ELSE [@ EXCEPT !.opening = "no"]])
  /\ UNCHANGED <<status, owner, fresh, process, active, request, history>>

\* What the handler of 'close' decides.
Outcome(c, reason) ==
  IF reason = "loggedOut" THEN "LOGGED_OUT"
  ELSE IF reason = "lost" /\ ~conn[c].once THEN "QR_EXPIRED"
  ELSE IF conn[c].attempts >= MaxAttempts THEN "ERROR"
  ELSE "RECONNECTING"

Closing(c, reason) ==
  [conn[c] EXCEPT !.step = "write", !.heartbeat = FALSE, !.outcome = Outcome(c, reason)]

\* The event 'close' takes the session out of the map, whichever connection is there.
Closed(c) ==
  /\ Live(c)
  /\ \E reason \in {"lost"} \cup
                   (IF conn[c].keys = "none" THEN {} ELSE {"loggedOut", "restartRequired"}) :
       conn' = [conn EXCEPT ![c] = Closing(c, reason)]
  /\ active' = [active EXCEPT ![conn[c].instance] = 0]
  /\ UNCHANGED <<row, process, request, history>>

\* Its handler ends; that of 'open' may not have.
AfterClose(c) ==
  IF conn[c].opening = "no"
  THEN Over
  ELSE [Over EXCEPT !.instance = conn[c].instance, !.keys = conn[c].keys, !.opening = conn[c].opening]

\* The row: every outcome but RECONNECTING gives the lease up, whoever has it now.
WriteOutcome(c) ==
  /\ At(c, "write")
  /\ LET out == conn[c].outcome
         cs == [conn EXCEPT ![c] = IF out = "RECONNECTING"
                                   THEN [@ EXCEPT !.step = "flush", !.outcome = "none"]
                                   ELSE AfterClose(c)] IN
     \/ /\ status' = out
        /\ owner' = IF out = "RECONNECTING" THEN owner ELSE "none"
        /\ fresh' = (out = "RECONNECTING" /\ fresh)
        /\ IF out = "LOGGED_OUT"
           THEN /\ paired' = FALSE
                /\ conn' = [d \in Connections |-> [cs[d] EXCEPT !.expects = FALSE]]
           ELSE conn' = cs /\ UNCHANGED paired
        /\ UNCHANGED faults
     \/ Fault /\ conn' = cs /\ UNCHANGED row
  /\ spare' = spare - IF conn[c].outcome = "RECONNECTING" THEN 1 ELSE 0
  /\ UNCHANGED <<process, active, request, lapses>>

\* Mutant: the reconnect does not wait for the keys to be written.
SkipFlush(c) ==
  /\ At(c, "flush")
  /\ conn' = [conn EXCEPT ![c].step = "timer", ![c].expects = TRUE]
  /\ UNCHANGED <<row, process, active, request, history>>

FlushBeforeReconnect(c) ==
  /\ At(c, "flush")
  /\ \/ /\ Replace(c, [conn EXCEPT ![c].step = "timer", ![c].expects = TRUE])
        /\ UNCHANGED faults
     \/ Fault /\ conn' = [conn EXCEPT ![c].step = "timer"] /\ UNCHANGED paired
  /\ UNCHANGED <<status, owner, fresh, process, active, request, spare, lapses>>

\* Mutant: the attempt is counted when it is decided on and again when it is made.
ReconnectCountingTwice(c) ==
  /\ At(c, "timer")
  /\ Call(conn[c].instance, conn[c].attempts + 2, conn[c].expects,
          [conn EXCEPT ![c] = AfterClose(c)])
  /\ UNCHANGED <<row, process, active, request, history>>

Reconnect(c) ==
  /\ At(c, "timer")
  /\ Call(conn[c].instance, conn[c].attempts + 1, conn[c].expects,
          [conn EXCEPT ![c] = AfterClose(c)])
  /\ UNCHANGED <<row, process, active, request, history>>

\* Mutant: the heartbeat only complains when the lease is lost.
HeartbeatOnly(c) ==
  /\ conn[c].heartbeat
  /\ MayClaim(conn[c].instance)
  /\ owner' = conn[c].instance /\ fresh' = TRUE
  /\ UNCHANGED <<status, paired, process, active, conn, request, history>>

\* The heartbeat renews the lease, or takes it if it may; otherwise it ends the socket
\* that is in the map.
Heartbeat(c) ==
  /\ conn[c].heartbeat
  /\ LET i == conn[c].instance IN
     IF MayClaim(i)
     THEN owner' = i /\ fresh' = TRUE /\ UNCHANGED <<active, conn>>
     ELSE /\ active[i] # 0
          /\ conn' = [conn EXCEPT ![active[i]] = Closing(active[i], "lost")]
          /\ active' = [active EXCEPT ![i] = 0]
          /\ UNCHANGED <<owner, fresh>>
  /\ UNCHANGED <<status, paired, process, request, history>>

-----------------------------------------------------------------------------
(* Processes and time. *)

AtWork(i) == \E c \in Connections :
  conn[c].instance = i /\ (conn[c].heartbeat \/ conn[c].step \in {"load", "start"})

\* The lease goes stale: nobody renews it, or the owner is held up for too long.
Stale ==
  /\ fresh
  /\ fresh' = FALSE
  /\ IF AtWork(owner)
     THEN lapses < MaxLapses /\ lapses' = lapses + 1
     ELSE UNCHANGED lapses
  /\ UNCHANGED <<status, paired, owner, process, active, conn, request, spare, faults>>

\* restoreConnectedSessions, once, before anything else.
StartProcess(i) ==
  /\ process[i] = "new"
  /\ IF status \in {"CONNECTED", "RECONNECTING"}
     THEN process' = [process EXCEPT ![i] = "restoring"] /\ Call(i, 0, FALSE, conn)
     ELSE process' = [process EXCEPT ![i] = "running"] /\ UNCHANGED conn
  /\ UNCHANGED <<row, active, request, history>>

\* SIGTERM: the keys are flushed, the lease is released, and the process lives on a little.
Shutdown(i) ==
  /\ process[i] = "running"
  /\ process' = [process EXCEPT ![i] = "stopping"]
  /\ IF active[i] # 0
     THEN Replace(active[i], conn)
     ELSE UNCHANGED <<paired, conn>>
  /\ IF active[i] # 0 /\ owner = i
     THEN owner' = "none" /\ fresh' = FALSE
     ELSE UNCHANGED <<owner, fresh>>
  /\ UNCHANGED <<status, active, request, history>>

\* Killed, crashed, or done with shutting down.
Exit(i) ==
  /\ process[i] \notin {"new", "gone"}
  /\ process' = [process EXCEPT ![i] = "gone"]
  /\ active' = [active EXCEPT ![i] = 0]
  /\ conn' = [c \in Connections |-> IF conn[c].instance = i THEN Over ELSE conn[c]]
  /\ UNCHANGED <<row, request, history>>

-----------------------------------------------------------------------------
(* Requests to the backend; each of its calls reaches one process, or none. *)

Goto(q, step) == request' = [request EXCEPT ![q].step = step]

Ask(q, states, step) ==
  /\ request[q].step = "new"
  /\ \A p \in 1..(q - 1) : request[p].step # "new"
  /\ status \in states
  /\ Goto(q, step)
  /\ UNCHANGED <<row, process, active, conn, history>>

\* reconnectSession takes a session that was disconnected or has failed.
AskReconnect(q) == Ask(q, {"RECONNECTING", "ERROR"}, "connect")
AskDisconnect(q) == Ask(q, Statuses, "disconnect")
AskLogout(q) == Ask(q, Statuses, "logout")

\* server.close() comes soon after the flush of a shutdown.
Serves(i) == process[i] = "running"
Lives(i) == process[i] \in {"running", "stopping"}

ServeConnect(q) ==
  /\ request[q].step = "connect"
  /\ \E i \in Instances : Serves(i) /\ Call(i, 0, FALSE, conn)
  /\ Goto(q, "done")
  /\ UNCHANGED <<row, process, active, history>>

\* disconnect and logout stop the heartbeat of the entry they find, and wait: for the
\* flush, or for WhatsApp.
ServeStop(q) ==
  /\ request[q].step \in {"disconnect", "logout"}
  /\ \E i \in Instances :
       /\ Serves(i)
       /\ LET after == [disconnect |-> "end", logout |-> "unlink"][request[q].step] IN
          IF active[i] = 0
          THEN /\ request' = [request EXCEPT ![q].step =
                    IF @ = "disconnect" THEN "writeDisconnect" ELSE "writeLogout"]
               /\ UNCHANGED conn
          ELSE /\ request' = [request EXCEPT ![q] =
                    [step |-> after, instance |-> i, conn |-> active[i]]]
               /\ conn' = [conn EXCEPT ![active[i]].heartbeat = FALSE]
  /\ UNCHANGED <<row, process, active, history>>

\* A call that reaches no process, or whose process is gone, is logged and passed over.
\* (A pairing that cannot start is rolled back, which leaves nothing to model.)
CallFails(q) ==
  /\ \/ /\ request[q].step \in {"disconnect", "logout"} \/ (request[q].step = "connect" /\ q > 1)
        /\ \A i \in Instances : ~Serves(i)
     \/ request[q].step \in {"end", "unlink"} /\ ~Lives(request[q].instance)
  /\ request' = [request EXCEPT ![q] =
       [step |-> CASE @.step = "connect" -> "done"
                   [] @.step \in {"disconnect", "end"} -> "writeDisconnect"
                   [] OTHER -> "writeLogout",
        instance |-> "none", conn |-> 0]]
  /\ UNCHANGED <<row, process, active, conn, history>>

\* Flush, end the socket, and take the session out of the map once more.
EndSocket(q) ==
  /\ request[q].step = "end"
  /\ LET c == request[q].conn
         i == request[q].instance IN
     /\ Lives(i)
     /\ Replace(c, [conn EXCEPT ![c] = IF Live(c) THEN Closing(c, "lost") ELSE @])
     /\ active' = [active EXCEPT ![i] = 0]
  /\ request' = [request EXCEPT ![q] = [step |-> "writeDisconnect", instance |-> "none", conn |-> 0]]
  /\ UNCHANGED <<status, owner, fresh, process, history>>

\* sock.logout() closes the socket if it succeeds; if not, the socket is forgotten.
Unlink(q) ==
  /\ request[q].step = "unlink"
  /\ LET c == request[q].conn
         i == request[q].instance IN
     /\ Lives(i)
     /\ \/ /\ conn' = [conn EXCEPT ![c] = IF Live(c) THEN Closing(c, "loggedOut") ELSE @]
           /\ UNCHANGED faults
        \/ Fault /\ UNCHANGED conn
     /\ active' = [active EXCEPT ![i] = 0]
  /\ request' = [request EXCEPT ![q] = [step |-> "writeLogout", instance |-> "none", conn |-> 0]]
  /\ UNCHANGED <<row, process, spare, lapses>>

WriteDisconnected(q) ==
  /\ request[q].step = "writeDisconnect"
  /\ status' = "RECONNECTING"
  /\ Goto(q, "done")
  /\ UNCHANGED <<paired, owner, fresh, process, active, conn, history>>

WriteLoggedOut(q) ==
  /\ request[q].step = "writeLogout"
  /\ status' = "LOGGED_OUT" /\ paired' = FALSE
  /\ conn' = [d \in Connections |-> [conn[d] EXCEPT !.expects = FALSE]]
  /\ Goto(q, "done")
  /\ UNCHANGED <<owner, fresh, process, active, history>>

-----------------------------------------------------------------------------

\* What a process does by itself once it has begun.
Handle(c) ==
  \/ ClaimLease(c) \/ LoadAuth(c) \/ OpenSocket(c)
  \/ WriteConnected(c) \/ FlushOpened(c)
  \/ WriteOutcome(c) \/ FlushBeforeReconnect(c) \/ Reconnect(c)

Event(c) == ShowQr(c) \/ Scan(c) \/ FlushLater(c) \/ Opened(c) \/ Closed(c)

Serve(q) ==
  \/ ServeConnect(q) \/ ServeStop(q) \/ CallFails(q) \/ EndSocket(q) \/ Unlink(q)
  \/ WriteDisconnected(q) \/ WriteLoggedOut(q)

Next ==
  \/ \E c \in Connections : Handle(c) \/ Event(c) \/ Heartbeat(c)
  \/ Stale
  \/ \E i \in Instances : StartProcess(i) \/ Shutdown(i) \/ Exit(i)
  \/ \E q \in Requests : AskReconnect(q) \/ AskDisconnect(q) \/ AskLogout(q) \/ Serve(q)

Spec == Init /\ [][Next]_vars

\* The interval timer of a socket runs and a request that is served is served to its end;
\* nothing else need happen.
FairSpec ==
  /\ Spec
  /\ \A c \in Connections : WF_vars(Heartbeat(c))
  /\ \A q \in Requests : WF_vars(Serve(q))

-----------------------------------------------------------------------------
(* Properties. *)

\* Every variable has its type; no entry has more than MaxAttempts attempts.
SessionTypeOK ==
  /\ status \in Statuses /\ paired \in BOOLEAN /\ fresh \in BOOLEAN
  /\ owner \in Instances \cup {"none"}
  /\ process \in [Instances -> {"new", "restoring", "running", "stopping", "gone"}]
  /\ active \in [Instances -> 0..MaxConnects]
  /\ conn \in [Connections ->
       [step: {"free", "claim", "load", "start", "live", "write", "flush", "timer", "done"},
        instance: Instances \cup {"none"}, carry: 0..MaxAttempts, attempts: 0..MaxAttempts, once: BOOLEAN,
        keys: {"none", "scanned", "loaded"}, heartbeat: BOOLEAN,
        opening: {"no", "write", "flush"}, outcome: Statuses \cup {"none"},
        expects: BOOLEAN]]
  /\ request \in [Requests ->
       [step: {"new", "connect", "disconnect", "logout", "end", "unlink",
               "writeDisconnect", "writeLogout", "done"},
        instance: Instances \cup {"none"}, conn: 0..MaxConnects]]
  /\ spare \in Int /\ lapses \in 0..MaxLapses /\ faults \in 0..MaxFaults

\* There is no infinite reconnect loop: for every socket that a start or a request opened
\* and every connection that succeeded there are at most MaxAttempts reconnects, however
\* timers, requests and processes cross and overwrite each other's count of attempts.
RetriesAreBounded == spare >= 0

\* A reconnect begins with the keys that its predecessor has negotiated: they are written
\* before it reads them, also when that was a moment after a scan.  (Unless the write
\* fails, the phone was unlinked, or another connection has written keys of its own since.)
ReconnectsWithItsKeys ==
  \A c \in Connections : conn[c].step = "start" /\ conn[c].expects => conn[c].keys = "loaded"

\* Every socket in use is watched: the one in a process's map has a heartbeat that asks
\* for the lease, or a request is about to take it out.
SocketsAreWatched ==
  \A i \in Instances :
    active[i] # 0 =>
      \/ conn[active[i]].heartbeat
      \/ \E q \in Requests : request[q].step \in {"end", "unlink"} /\ request[q].instance = i

\* A process that has lost the lease to another one gives up the socket in its map: it
\* does not go on serving a session it no longer owns.
LostLeaseIsYielded ==
  \A i \in Instances :
    (active[i] # 0 /\ owner \notin {i, "none"}) ~> (active[i] = 0 \/ owner \in {i, "none"})

\* hasConnectedOnce "distinguishes" a QR "never scanned before the connection died
\* (QR_EXPIRED...)" from "was connected, then dropped (RECONNECTING, worth retrying with
\* backoff)": a socket opened with the keys of a paired phone, which shows no QR code, does
\* not end as one whose code was not scanned.
PairedIsNotUnscanned ==
  [][\A c \in Connections :
       (WriteOutcome(c) /\ conn[c].keys = "loaded") => conn[c].outcome # "QR_EXPIRED"]_vars
=============================================================================
