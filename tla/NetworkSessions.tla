---------------------------- MODULE NetworkSessions ----------------------------
(***************************************************************************)
(* NetworkManager and the RtpMidiSessions of one IP address: calls of      *)
(* connect that wait for a probe and a handshake, a peer that invites,     *)
(* answers late, twice or never, ends sessions and falls silent, and the   *)
(* timers that clean up.  A datagram that left stays in `sent`: the peer   *)
(* may answer it at any time, any number of times.                         *)
(*                                                                         *)
(* The code between two events of the loop is one action.  Binding the     *)
(* sockets belongs to it: Node binds a literal address without going back  *)
(* to the loop.  `rtpSessions` and `connectedDevices` are the entries of   *)
(* the one address.                                                        *)
(***************************************************************************)
EXTENDS Integers, FiniteSets

CONSTANTS
    Callers,    \* commands that may call connect at the same time
    Sessions,   \* bound: the RtpMidiSession objects ever created
    EarlyEnd,   \* whether the peer may send BY before a session is established
    NoSession

ASSUME NetworkAssumption ==
    NoSession \notin Sessions /\ EarlyEnd \in BOOLEAN

VARIABLES
    call,      \* phase of each call of connect, and the session it made
    sess,      \* the sessions
    reg,       \* rtpSessions.get(ip)
    device,    \* connectedDevices.get(ip).session
    told,      \* the last of network:connected and network:disconnected
    bound,     \* the shared sockets are bound
    sent       \* invitations and BYs that left, with the session they speak for,
               \* and what the peer ruled on the former

vars == <<call, sess, reg, device, told, bound, sent>>

-----------------------------------------------------------------------------
Waiting(s) == sess[s].state \in {"idle", "inviting-control", "inviting-data"}
Established(s) == sess[s].state = "established"
Live(s) == Waiting(s) \/ Established(s)
Fresh == {s \in Sessions : sess[s].state = "none"}
Probing == {c \in Callers : call[c].phase = "probing"}

\* Bound: a session object is left for every call that is under way.
Room == Cardinality(Fresh) > Cardinality(Probing)

\* rx tells when the peer was last heard, seen from the last run of the
\* watchdog: after it, at that very moment, or before it.  accepted is history:
\* which of this session's own invitations the peer accepted.  A session that
\* closed needs neither.
Opened(role, state) == [role |-> role, state |-> state, rx |-> "edge", accepted |-> {}]
Closed(r) == Opened(r.role, "closed")
Heard(r) == IF r.state = "established" THEN [r EXCEPT !.rx = "fresh"] ELSE r

\* A call whose promise was settled.
Settled(s) ==
    [c \in Callers |-> IF call[c].session = s
                       THEN [phase |-> "idle", session |-> NoSession] ELSE call[c]]

CloseAlone(s) == \* mutant: nobody listens to 'disconnected'
    sess' = [sess EXCEPT ![s] = Closed(@)] /\ UNCHANGED <<reg, device, told>>

CloseUnlisted(s) == \* mutant: its handler leaves the instrument in the list
    /\ sess' = [sess EXCEPT ![s] = Closed(@)]
    /\ reg' = NoSession /\ told' = "disconnected"
    /\ UNCHANGED device

\* close(), and the manager's handler of 'disconnected': it forgets the address,
\* whichever session is registered or listed.
Close(s) ==
    IF sess[s].state = "closed" THEN UNCHANGED <<sess, reg, device, told>>
    ELSE /\ sess' = [sess EXCEPT ![s] = Closed(@)]
         /\ reg' = NoSession /\ device' = NoSession /\ told' = "disconnected"

\* _failConnect: connect's promise is rejected, and its catch finds nothing left.
FailConnect(s) ==
    Close(s) /\ call' = Settled(s) /\ UNCHANGED bound

\* _establish on a session that becomes `r`, and the listeners: the responder's
\* 'connected' handler, or the continuation of the connect that is waiting.
Establish(s, r) ==
    /\ call' = Settled(s)
    /\ IF r.state = "established"
       THEN sess' = [sess EXCEPT ![s] = Heard(r)] /\ UNCHANGED <<device, told>>
       ELSE /\ sess' = [sess EXCEPT ![s] = [r EXCEPT !.state = "established", !.rx = "edge"]]
            /\ IF r.role = "responder" \/ \E c \in Callers : call[c].session = s
               THEN device' = s /\ told' = "connected"
               ELSE UNCHANGED <<device, told>>
    /\ UNCHANGED <<reg, bound, sent>>

-----------------------------------------------------------------------------
(* The manager's commands. *)

Connect(c) ==
    /\ call[c].phase = "idle" /\ Room
    /\ call' = [call EXCEPT ![c].phase = "probing"]
    /\ UNCHANGED <<sess, reg, device, told, bound, sent>>

Unreachable(c) ==
    /\ call[c].phase = "probing"
    /\ call' = [call EXCEPT ![c].phase = "idle"]
    /\ UNCHANGED <<sess, reg, device, told, bound, sent>>

\* connect after a good probe: the previous session is closed, the new one
\* registered, and its invitation sent.
Reachable(c) ==
    /\ call[c].phase = "probing"
    /\ \E s \in Fresh :
         /\ sess' = [t \in Sessions |-> CASE t = s -> Opened("initiator", "inviting-control")
                                          [] t = reg /\ t # s -> Closed(sess[t])
                                          [] OTHER -> sess[t]]
         /\ reg' = s
         /\ call' = [call EXCEPT ![c] = [phase |-> "handshaking", session |-> s]]
         /\ sent' = sent \cup {<<"control", s>>}
    /\ IF reg = NoSession THEN UNCHANGED <<device, told>>
       ELSE device' = NoSession /\ told' = "disconnected"
    /\ bound' = TRUE

BackstopOfWaiting(c) == \* mutant: a timeout that gives up with the session
    /\ call[c].phase = "handshaking" /\ Waiting(call[c].session)
    /\ call' = [call EXCEPT ![c] = [phase |-> "idle", session |-> NoSession]]
    /\ reg' = NoSession
    /\ UNCHANGED <<sess, device, told, bound, sent>>

\* connect's own timeout, in its catch.  At 10 s it is behind the session's at
\* 8 s: only a session closed by someone else, which settles nothing, meets it.
Backstop(c) ==
    /\ call[c].phase = "handshaking" /\ ~Waiting(call[c].session)
    /\ call' = [call EXCEPT ![c] = [phase |-> "idle", session |-> NoSession]]
    /\ reg' = NoSession
    /\ UNCHANGED <<sess, device, told, bound, sent>>

\* RtpMidiSession.disconnect says BY for a session that has a token.
Byes(s) == IF sess[s].role = "initiator" THEN {<<"bye", s>>} ELSE {}

DisconnectSilently == \* mutant: without a session, no event
    /\ device # NoSession
    /\ IF reg # NoSession
       THEN /\ sess' = [sess EXCEPT ![reg] = Closed(@)] /\ sent' = sent \cup Byes(reg)
            /\ told' = "disconnected"
       ELSE UNCHANGED <<sess, sent, told>>
    /\ reg' = NoSession /\ device' = NoSession
    /\ UNCHANGED <<call, bound>>

DisconnectList == \* mutant: the session says BY and stays
    /\ device # NoSession
    /\ sent' = sent \cup IF reg # NoSession THEN Byes(reg) ELSE {}
    /\ device' = NoSession /\ told' = "disconnected"
    /\ UNCHANGED <<call, sess, reg, bound>>

Disconnect ==
    /\ device # NoSession
    /\ IF reg # NoSession
       THEN sess' = [sess EXCEPT ![reg] = Closed(@)] /\ sent' = sent \cup Byes(reg)
       ELSE UNCHANGED <<sess, sent>>
    /\ reg' = NoSession /\ device' = NoSession /\ told' = "disconnected"
    /\ UNCHANGED <<call, bound>>

Shutdown ==
    /\ bound /\ bound' = FALSE
    /\ IF reg # NoSession
       THEN /\ sess' = [sess EXCEPT ![reg] = Closed(@)]
            /\ sent' = sent \cup IF device # NoSession THEN Byes(reg) ELSE {}
       ELSE UNCHANGED <<sess, sent>>
    /\ reg' = NoSession /\ device' = NoSession /\ told' = "disconnected"
    /\ UNCHANGED call

-----------------------------------------------------------------------------
(* Datagrams: each goes to the session registered when it arrives. *)

\* An invitation on the control port from an address without a session.
RecvInvitation ==
    /\ bound /\ reg = NoSession /\ Room
    /\ \E s \in Fresh :
         sess' = [sess EXCEPT ![s] = Opened("responder", "idle")] /\ reg' = s
    /\ UNCHANGED <<call, device, told, bound, sent>>

\* The peer gives one verdict on a control invitation, and may repeat it.
Verdict(t, verdict) == bound /\ reg # NoSession /\ {<<"control", t>>, <<verdict, t>>} \cap sent # {}
Ruled(t, verdict) == (sent \ {<<"control", t>>}) \cup {<<verdict, t>>}

\* The peer's OK on the control port, to the invitation of session `t`.
RecvControlAccept(t) ==
    /\ Verdict(t, "granted")
    /\ LET r == [sess[reg] EXCEPT !.accepted = IF t = reg THEN @ \cup {"control"} ELSE @]
           moves == r.state = "inviting-control"
       IN  /\ sess' = [sess EXCEPT ![reg] = IF moves THEN [r EXCEPT !.state = "inviting-data"]
                                                     ELSE Heard(r)]
           /\ sent' = Ruled(t, "granted") \cup IF moves THEN {<<"data", reg>>} ELSE {}
    /\ UNCHANGED <<call, reg, device, told, bound>>

RecvDataAccept(t) ==
    /\ bound /\ reg # NoSession /\ <<"data", t>> \in sent
    /\ LET r == [sess[reg] EXCEPT !.accepted = IF t = reg THEN @ \cup {"data"} ELSE @]
       IN  IF r.state = "inviting-data" THEN Establish(reg, r)
           ELSE /\ sess' = [sess EXCEPT ![reg] = Heard(r)]
                /\ UNCHANGED <<call, reg, device, told, bound, sent>>

\* The peer invites on the data port, whatever the session was doing.
RecvDataInvitation ==
    /\ bound /\ reg # NoSession
    /\ Establish(reg, [sess[reg] EXCEPT !.accepted = @ \cup {"peer"}])

RecvReject(t) ==
    /\ Verdict(t, "refused")
    /\ FailConnect(reg)
    /\ sent' = Ruled(t, "refused")

\* BY on either port: the session closes, and a connect that waits is not told.
RecvEnd ==
    /\ bound /\ reg # NoSession
    /\ EarlyEnd \/ Established(reg)
    /\ Close(reg)
    /\ UNCHANGED <<call, bound, sent>>

\* A clock sync, MIDI, an invitation to a session that exists: a sign of life.
RecvOther ==
    /\ bound /\ reg # NoSession
    /\ sess' = [sess EXCEPT ![reg] = Heard(@)]
    /\ UNCHANGED <<call, reg, device, told, bound, sent>>

-----------------------------------------------------------------------------
(* The sessions' timers. *)

HandshakeTimeout(s) ==
    /\ sess[s].role = "initiator" /\ Waiting(s)
    /\ FailConnect(s)
    /\ UNCHANGED sent

\* The establishment watchdog of a session that the peer asked for.
EstablishTimeout(s) ==
    /\ sess[s].role = "responder" /\ Waiting(s)
    /\ Close(s)
    /\ UNCHANGED <<call, bound, sent>>

\* The receiver watchdog, every RECEIVER_TIMEOUT_MS.  When it runs again, a
\* packet from before its last run is too old, and one that came just as it ran
\* is older than that period, or exactly as old.
WatchdogKeeps(s) ==
    /\ Established(s) /\ sess[s].rx # "old"
    /\ \E rx \in (IF sess[s].rx = "fresh" THEN {"old", "edge"} ELSE {"old"}) :
           sess' = [sess EXCEPT ![s].rx = rx]
    /\ UNCHANGED <<call, reg, device, told, bound, sent>>

WatchdogCloses(s) ==
    /\ Established(s) /\ sess[s].rx \in {"old", "edge"}
    /\ Close(s)
    /\ UNCHANGED <<call, bound, sent>>

WatchdogOnce(s) == \* mutant: a timeout in the place of the interval
    Established(s) /\ sess[s].rx # "old" /\ (WatchdogKeeps(s) \/ WatchdogCloses(s))

WatchdogOfRegistered(s) == \* mutant: the manager watches the sessions it knows
    reg = s /\ (WatchdogKeeps(s) \/ WatchdogCloses(s))

Watchdog(s) == WatchdogKeeps(s) \/ WatchdogCloses(s)

-----------------------------------------------------------------------------
Init ==
    /\ call = [c \in Callers |-> [phase |-> "idle", session |-> NoSession]]
    /\ sess = [s \in Sessions |-> Opened("free", "none")]
    /\ reg = NoSession /\ device = NoSession /\ told = "disconnected"
    /\ bound = FALSE /\ sent = {}

Next ==
    \/ \E c \in Callers : Connect(c) \/ Unreachable(c) \/ Reachable(c) \/ Backstop(c)
    \/ Disconnect
    \/ Shutdown
    \/ RecvInvitation
    \/ \E t \in Sessions : RecvControlAccept(t) \/ RecvDataAccept(t) \/ RecvReject(t)
    \/ RecvDataInvitation
    \/ RecvEnd
    \/ RecvOther
    \/ \E s \in Sessions : HandshakeTimeout(s) \/ EstablishTimeout(s) \/ Watchdog(s)

\* Probes end and timers fire; nobody has to call, and the peer owes nothing.
Fairness ==
    /\ \A c \in Callers : WF_vars(Unreachable(c) \/ Reachable(c)) /\ WF_vars(Backstop(c))
    /\ \A s \in Sessions :
         /\ WF_vars(HandshakeTimeout(s))
         /\ WF_vars(EstablishTimeout(s))
         /\ WF_vars(Watchdog(s))

Spec == Init /\ [][Next]_vars
FairSpec == Spec /\ Fairness

-----------------------------------------------------------------------------
Calls ==
    {[phase |-> p, session |-> NoSession] : p \in {"idle", "probing"}}
    \cup {[phase |-> "handshaking", session |-> s] : s \in Sessions}

SessionRecords ==
    [role : {"free", "initiator", "responder"},
     state : {"none", "idle", "inviting-control", "inviting-data", "established", "closed"},
     rx : {"fresh", "edge", "old"},
     accepted : SUBSET {"control", "data", "peer"}]

Datagrams == {"control", "granted", "refused", "data", "bye"} \X Sessions

\* Types of the state, and which session a call may be waiting for.
TypeOK ==
    /\ call \in [Callers -> Calls]
    /\ sess \in [Sessions -> SessionRecords]
    /\ reg \in Sessions \cup {NoSession}
    /\ device \in Sessions \cup {NoSession}
    /\ told \in {"connected", "disconnected"}
    /\ bound \in BOOLEAN
    /\ sent \subseteq Datagrams

(* The address never leads to a session that ended: a datagram would bring *)
(* a closed session back to life, and a message would be thrown away.  One *)
(* that can carry messages is the one the list shows, although any session *)
(* of the address that closes clears the list for all.                     *)
RegistryIsSound ==
    reg # NoSession => Live(reg) /\ (Established(reg) => device = reg)

(* The list of connected instruments never shows a session that is still   *)
(* in its handshake or has ended, whoever ended it and in whatever order,  *)
(* and who follows the events knows what it says: DeviceManager silences   *)
(* an instrument that returns only when it heard that it had left.         *)
ListIsSound ==
    /\ device # NoSession => Established(device)
    /\ told = "connected" <=> device # NoSession

(* Every session that is alive is the registered one, so that shutdown and *)
(* the peer's datagrams reach it (the comment in connect, F-49).           *)
NoSessionIsLost == \A s \in Sessions : Live(s) => reg = s

(* Every connect comes back, also when its session was closed under it.    *)
EveryConnectSettles ==
    \A c \in Callers : call[c].phase # "idle" ~> call[c].phase = "idle"

(* A session that the manager has lost ends all the same: one of its own   *)
(* timers closes it, and its clock sync with it.                           *)
LostSessionsEnd ==
    \A s \in Sessions : Live(s) /\ reg # s ~> sess[s].state = "closed"

(* An instrument is listed for good only if it is heard again and again.   *)
ListedIsHeard ==
    \A s \in Sessions : <>[](device = s) => []<>(sess[s].rx = "fresh")

(* A session that we initiated is established only after the peer accepted *)
(* both of its invitations, or invited us (RtpMidiSession.connect's doc).  *)
AcceptedBoth ==
    \A s \in Sessions : Established(s) /\ sess[s].role = "initiator" =>
        {"control", "data"} \subseteq sess[s].accepted \/ "peer" \in sess[s].accepted

(* The peer of an established session that a command ends is sent a BY     *)
(* (RtpMidiSession.disconnect's doc, and the comment in connect).          *)
HangupIsTold ==
    [][Disconnect \/ \E c \in Callers : Reachable(c) =>
         \A s \in Sessions : Established(s) /\ sess'[s].state = "closed"
                               => <<"bye", s>> \in sent']_vars
=============================================================================
