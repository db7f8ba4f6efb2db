---------------------------- MODULE ConnectionProofs ----------------------------
(***************************************************************************)
(* The two ends of the box: RTP-MIDI peers and browsers.                   *)
(*                                                                         *)
(* NetworkSessions: what the entries of one address in NetworkManager say, *)
(* for any number of commands and sessions: that they name sessions that   *)
(* are alive, that list and events agree, and that no session is lost      *)
(* while connects do not overlap.  The list is written by two hands, the   *)
(* responder's listener and the continuation of connect.  That the second  *)
(* one is there when a session is established is what has to be added to   *)
(* the invariants: whoever made an unfinished session still waits for it.  *)
(*                                                                         *)
(* WsOutput: a browser is never left with an old value of what has one,    *)
(* and misses an event only where the queue had to give one up, for any    *)
(* number of browsers, depth of queue and kinds.  What has to be added:    *)
(* the waiting numbers rise and are all in the history, each kind has one  *)
(* slot, whatever waits has a flush coming, and a socket that received the *)
(* latest batch has every number that was taken and nothing that waits.    *)
(***************************************************************************)
EXTENDS NetworkSessions, WsOutput, SequenceTheorems, FiniteSetTheorems,
        WellFoundedInduction, TLAPS

\* The parts of RegistryIsSound and of ListIsSound.
RegisteredIsLive == reg # NoSession => Live(reg)
ReachableIsListed == reg # NoSession /\ Established(reg) => device = reg
ListedIsEstablished == device # NoSession => Established(device)
ToldIsTrue == told = "connected" <=> device # NoSession

\* The maker of a session in its handshake waits in connect.
WaitingIsAwaited ==
    \A s \in Sessions : sess[s].role = "initiator" /\ Waiting(s) =>
        \E c \in Callers : call[c].session = s

\* Only a session that was never opened has no role.
OpenedHasRole == \A s \in Sessions : sess[s].role = "free" => sess[s].state = "none"

IInv ==
    /\ TypeOK
    /\ RegisteredIsLive
    /\ ListedIsEstablished
    /\ ReachableIsListed
    /\ ToldIsTrue
    /\ WaitingIsAwaited
    /\ OpenedHasRole

-----------------------------------------------------------------------------
LEMMA SettledType ==
  ASSUME TypeOK, NEW s \in Sessions
  PROVE  /\ Settled(s) \in [Callers -> Calls]
         /\ \A c \in Callers : Settled(s)[c].session = IF call[c].session = s THEN NoSession
                                                       ELSE call[c].session
  BY DEF TypeOK, Settled, Calls

\* A session that hears something and does not change hands.
LEMMA Touch ==
  ASSUME IInv, NEW s \in Sessions, NEW q \in SessionRecords,
         q.role = sess[s].role,
         \/ q.state = sess[s].state
         \/ sess[s].state = "inviting-control" /\ q.state = "inviting-data",
         sess' = [sess EXCEPT ![s] = q],
         UNCHANGED <<call, reg, device, told>>,
         bound' \in BOOLEAN,
         sent' \subseteq Datagrams
  PROVE  IInv'
<1>1. TypeOK'
  BY DEF IInv, TypeOK
<1>0. \A t \in Sessions : sess'[t] = IF t = s THEN q ELSE sess[t]
  BY DEF IInv, TypeOK
<1>2. \A t \in Sessions : /\ sess'[t].role = sess[t].role
                          /\ Waiting(t)' <=> Waiting(t)
                          /\ Established(t)' <=> Established(t)
  BY <1>0 DEF Waiting, Established
<1>3. reg \in Sessions \cup {NoSession} /\ device \in Sessions \cup {NoSession}
  BY DEF IInv, TypeOK
<1>4. RegisteredIsLive' /\ ListedIsEstablished' /\ ReachableIsListed' /\ ToldIsTrue'
  BY <1>2, <1>3 DEF IInv, RegisteredIsLive, ListedIsEstablished, ReachableIsListed, ToldIsTrue, Live
<1>5. WaitingIsAwaited'
  BY <1>2 DEF IInv, WaitingIsAwaited
<1>6. OpenedHasRole'
  BY DEF IInv, TypeOK, OpenedHasRole
<1> QED
  BY <1>1, <1>4, <1>5, <1>6 DEF IInv

\* A session that ends, with or without the connect that waits for it.
LEMMA CloseKeeps ==
  ASSUME IInv, NEW s \in Sessions, Live(s), Close(s),
         call' = call \/ call' = Settled(s),
         bound' \in BOOLEAN,
         sent' \subseteq Datagrams
  PROVE  IInv'
<1>1. /\ sess' = [sess EXCEPT ![s] = Closed(@)]
      /\ reg' = NoSession /\ device' = NoSession /\ told' = "disconnected"
  BY DEF Close, Live, Waiting, Established
<1>2. Closed(sess[s]) \in SessionRecords /\ Closed(sess[s]).state = "closed"
  BY DEF IInv, TypeOK, Closed, Opened, SessionRecords
<1>3. TypeOK'
  BY <1>1, <1>2, SettledType DEF IInv, TypeOK
<1>4. RegisteredIsLive' /\ ListedIsEstablished' /\ ReachableIsListed' /\ ToldIsTrue'
  BY <1>1 DEF RegisteredIsLive, ListedIsEstablished, ReachableIsListed, ToldIsTrue
<1>5. ~Waiting(s)'
  BY <1>1, <1>2 DEF IInv, TypeOK, Waiting
<1>6. \A t \in Sessions : t # s => sess'[t] = sess[t]
  BY <1>1 DEF IInv, TypeOK
<1>7. \A t \in Sessions : t # s =>
        \A c \in Callers : call[c].session = t => call'[c].session = t
  BY SettledType DEF IInv
<1>8. WaitingIsAwaited'
  BY <1>5, <1>6, <1>7 DEF IInv, WaitingIsAwaited, Waiting
<1>9. OpenedHasRole'
  <2>1. sess[s].role # "free" /\ sess'[s].role = sess[s].role
    BY <1>1 DEF IInv, TypeOK, OpenedHasRole, Live, Waiting, Established, Closed, Opened
  <2> QED
    BY <1>6, <2>1 DEF IInv, OpenedHasRole
<1> QED
  BY <1>3, <1>4, <1>8, <1>9 DEF IInv

\* The registered session is established, for the peer's or our own invitation.
LEMMA EstablishKeeps ==
  ASSUME IInv, reg # NoSession, NEW a \in SUBSET {"control", "data", "peer"},
         NEW r, r = [sess[reg] EXCEPT !.accepted = a],
         Establish(reg, r)
  PROVE  IInv'
<1>1. reg \in Sessions /\ sess \in [Sessions -> SessionRecords] /\ sess[reg] \in SessionRecords
  BY DEF IInv, TypeOK
<1>2. r \in SessionRecords /\ r.role = sess[reg].role /\ r.state = sess[reg].state
  BY <1>1 DEF SessionRecords
<1>3. /\ reg' = reg /\ bound' = bound /\ sent' = sent /\ call' = Settled(reg)
  BY DEF Establish
<1>4. \A t \in Sessions : t # reg => sess'[t] = sess[t]
  BY <1>1 DEF Establish, IInv, TypeOK
<1>5. /\ sess'[reg] \in SessionRecords /\ sess'[reg].role = sess[reg].role
      /\ sess'[reg].state = "established"
      /\ sess' \in [Sessions -> SessionRecords]
  <2>1. CASE r.state = "established"
    <3>1. Heard(r) = [r EXCEPT !.rx = "fresh"]
      BY <2>1 DEF Heard
    <3>2. [r EXCEPT !.rx = "fresh"] \in SessionRecords
      BY <1>2 DEF SessionRecords
    <3>3. sess' = [sess EXCEPT ![reg] = [r EXCEPT !.rx = "fresh"]]
      BY <2>1, <3>1 DEF Establish
    <3>4. sess'[reg] = [r EXCEPT !.rx = "fresh"]
      BY <1>1, <3>3
    <3>5. [r EXCEPT !.rx = "fresh"].role = r.role /\ [r EXCEPT !.rx = "fresh"].state = "established"
      BY <1>2, <2>1 DEF SessionRecords
    <3> QED
      BY <1>1, <1>2, <3>2, <3>3, <3>4, <3>5
  <2>2. CASE r.state # "established"
    <3>1. sess' = [sess EXCEPT ![reg] = [r EXCEPT !.state = "established", !.rx = "edge"]]
      BY <2>2 DEF Establish
    <3>2. [r EXCEPT !.state = "established", !.rx = "edge"] \in SessionRecords
      BY <1>2 DEF SessionRecords
    <3>3. sess'[reg] = [r EXCEPT !.state = "established", !.rx = "edge"]
      BY <1>1, <3>1
    <3>4. /\ [r EXCEPT !.state = "established", !.rx = "edge"].role = r.role
          /\ [r EXCEPT !.state = "established", !.rx = "edge"].state = "established"
      BY <1>2 DEF SessionRecords
    <3> QED
      BY <1>1, <1>2, <3>1, <3>2, <3>3, <3>4
  <2> QED
    BY <2>1, <2>2
<1>6. device' = reg /\ told' = "connected"
  <2>1. CASE r.state = "established"
    BY <1>1, <1>2, <2>1 DEF Establish, IInv, ReachableIsListed, ToldIsTrue, Established
  <2>2. CASE r.state # "established"
    <3>1. Waiting(reg)
      BY <1>1, <1>2, <2>2 DEF IInv, RegisteredIsLive, Live, Established
    <3>2. r.role = "responder" \/ \E c \in Callers : call[c].session = reg
      <4>1. r.role # "free"
        BY <1>1, <1>2, <3>1 DEF IInv, OpenedHasRole, Waiting
      <4> QED
        BY <1>1, <1>2, <3>1, <4>1 DEF IInv, WaitingIsAwaited, SessionRecords
    <3> QED
      BY <2>2, <3>2 DEF Establish
  <2> QED
    BY <2>1, <2>2
<1>7. TypeOK'
  BY <1>1, <1>3, <1>5, <1>6, SettledType DEF IInv, TypeOK
<1>8. RegisteredIsLive' /\ ListedIsEstablished' /\ ReachableIsListed' /\ ToldIsTrue'
  BY <1>1, <1>3, <1>5, <1>6, NetworkAssumption
     DEF RegisteredIsLive, ListedIsEstablished, ReachableIsListed, ToldIsTrue, Live, Established
<1>9. WaitingIsAwaited'
  <2>1. ~Waiting(reg)'
    BY <1>3, <1>5 DEF Waiting
  <2>2. \A t \in Sessions : t # reg =>
          \A c \in Callers : call[c].session = t => call'[c].session = t
    BY <1>1, <1>3, SettledType DEF IInv
  <2> QED
    BY <1>3, <1>4, <2>1, <2>2 DEF IInv, WaitingIsAwaited, Waiting
<1>10. OpenedHasRole'
  <2>1. sess'[reg].role # "free"
    BY <1>1, <1>5 DEF IInv, OpenedHasRole, RegisteredIsLive, Live, Waiting, Established
  <2> QED
    BY <1>4, <2>1 DEF IInv, OpenedHasRole
<1> QED
  BY <1>7, <1>8, <1>9, <1>10 DEF IInv
-----------------------------------------------------------------------------
LEMMA InitIInv == Init => IInv
<1> SUFFICES ASSUME Init PROVE IInv
  OBVIOUS
<1>1. Opened("free", "none") \in SessionRecords
  BY DEF Opened, SessionRecords
<1>2. \A s \in Sessions : sess[s].role = "free" /\ sess[s].state = "none"
  BY DEF Init, Opened
<1>3. TypeOK
  BY <1>1 DEF Init, TypeOK, Calls
<1> QED
  BY <1>2, <1>3
     DEF Init, IInv, RegisteredIsLive, ListedIsEstablished, ReachableIsListed, ToldIsTrue,
         WaitingIsAwaited, OpenedHasRole, Waiting

\* A call that has no session yet, or finds its own closed, moves.
LEMMA CallKeeps ==
  ASSUME IInv, NEW c \in Callers, NEW k \in Calls,
         call[c].session \in Sessions => ~Waiting(call[c].session),
         call' = [call EXCEPT ![c] = k],
         UNCHANGED <<sess, device, told, bound, sent>>,
         reg' = reg \/ reg' = NoSession
  PROVE  IInv'
<1>1. TypeOK'
  BY DEF IInv, TypeOK
<1>2. RegisteredIsLive' /\ ListedIsEstablished' /\ ReachableIsListed' /\ ToldIsTrue' /\ OpenedHasRole'
  BY DEF IInv, RegisteredIsLive, ListedIsEstablished, ReachableIsListed, ToldIsTrue, OpenedHasRole,
         Live, Waiting, Established
<1>3. WaitingIsAwaited'
  BY DEF IInv, TypeOK, WaitingIsAwaited, Waiting
<1> QED
  BY <1>1, <1>2, <1>3 DEF IInv

\* A session is opened and registered, where none is registered any more.
LEMMA OpenKeeps ==
  ASSUME IInv, NEW s \in Fresh, NEW role \in {"initiator", "responder"},
         NEW state \in {"idle", "inviting-control"},
         \A t \in Sessions : sess'[t] = IF t = s THEN Opened(role, state)
                                        ELSE IF t = reg THEN Closed(sess[t]) ELSE sess[t],
         sess' = [t \in Sessions |-> sess'[t]],
         reg' = s,
         call' \in [Callers -> Calls],
         \A c \in Callers : call[c].session \in Sessions => call'[c].session = call[c].session,
         role = "initiator" => \E c \in Callers : call'[c].session = s,
         IF reg = NoSession THEN UNCHANGED <<device, told>>
         ELSE device' = NoSession /\ told' = "disconnected",
         bound' \in BOOLEAN, sent' \subseteq Datagrams
  PROVE  IInv'
<1>0. /\ s \in Sessions /\ sess[s].state = "none"
      /\ reg \in Sessions \cup {NoSession} /\ device \in Sessions \cup {NoSession}
      /\ sess \in [Sessions -> SessionRecords]
  BY DEF IInv, TypeOK, Fresh
<1>1. /\ Opened(role, state) \in SessionRecords
      /\ Opened(role, state).role = role /\ Opened(role, state).state = state
  BY DEF Opened, SessionRecords
<1>2. \A t \in Sessions : /\ Closed(sess[t]) \in SessionRecords
                          /\ Closed(sess[t]).role = sess[t].role /\ Closed(sess[t]).state = "closed"
  BY <1>0 DEF Closed, Opened, SessionRecords
<1>3. \A t \in Sessions : sess'[t] \in SessionRecords
  BY <1>0, <1>1, <1>2
<1>4. TypeOK'
  BY <1>0, <1>3 DEF IInv, TypeOK
<1>5. sess'[s].role = role /\ sess'[s].state = state
  BY <1>0, <1>1
<1>6. \A t \in Sessions : t # s /\ t # reg => sess'[t] = sess[t]
  OBVIOUS
<1>7. \A t \in Sessions : t # s /\ t = reg => sess'[t].state = "closed" /\ sess'[t].role = sess[t].role
  BY <1>2
<1>8. RegisteredIsLive' /\ ReachableIsListed'
  BY <1>0, <1>5, NetworkAssumption DEF RegisteredIsLive, ReachableIsListed, Live, Waiting, Established
<1>9. ListedIsEstablished' /\ ToldIsTrue'
  <2>1. CASE reg = NoSession
    <3>1. device # NoSession => device # s /\ sess'[device] = sess[device]
      BY <1>0, <1>6, <2>1, NetworkAssumption DEF IInv, ListedIsEstablished, Established
    <3> QED
      BY <2>1, <3>1 DEF IInv, ListedIsEstablished, ToldIsTrue, Established
  <2>2. CASE reg # NoSession
    BY <2>2 DEF ListedIsEstablished, ToldIsTrue
  <2> QED
    BY <2>1, <2>2
<1>10. WaitingIsAwaited'
  <2> SUFFICES ASSUME NEW t \in Sessions, sess'[t].role = "initiator", Waiting(t)'
               PROVE  \E c \in Callers : call'[c].session = t
    BY DEF WaitingIsAwaited
  <2>1. CASE t = s
    BY <1>5, <2>1
  <2>2. CASE t # s
    <3>1. t # reg /\ sess'[t] = sess[t]
      BY <1>6, <1>7, <2>2 DEF Waiting
    <3> QED
      BY <3>1 DEF IInv, WaitingIsAwaited, Waiting
  <2> QED
    BY <2>1, <2>2
<1>11. OpenedHasRole'
  <2> SUFFICES ASSUME NEW t \in Sessions, sess'[t].role = "free" PROVE sess'[t].state = "none"
    BY DEF OpenedHasRole
  <2>1. t # s
    BY <1>5
  <2>2. CASE t = reg
    BY <1>0, <1>7, <2>1, <2>2, NetworkAssumption
       DEF IInv, OpenedHasRole, RegisteredIsLive, Live, Waiting, Established
  <2>3. CASE t # reg
    BY <1>6, <2>1, <2>3 DEF IInv, OpenedHasRole
  <2> QED
    BY <2>2, <2>3
<1> QED
  BY <1>4, <1>8, <1>9, <1>10, <1>11 DEF IInv

\* A command of the user ends the registered session, if there is one.
LEMMA HangupKeeps ==
  ASSUME IInv,
         IF reg # NoSession THEN sess' = [sess EXCEPT ![reg] = Closed(@)] ELSE sess' = sess,
         reg' = NoSession, device' = NoSession, told' = "disconnected",
         call' = call, bound' \in BOOLEAN, sent' \subseteq Datagrams
  PROVE  IInv'
<1>1. CASE reg = NoSession
  BY <1>1 DEF IInv, TypeOK, RegisteredIsLive, ListedIsEstablished, ReachableIsListed, ToldIsTrue,
              WaitingIsAwaited, OpenedHasRole, Waiting
<1>2. CASE reg # NoSession
  <2>1. reg \in Sessions /\ Live(reg)
    BY <1>2 DEF IInv, TypeOK, RegisteredIsLive
  <2>2. Close(reg)
    BY <1>2, <2>1 DEF Close, Live, Waiting, Established
  <2> QED
    BY <2>1, <2>2, CloseKeeps
<1> QED
  BY <1>1, <1>2
-----------------------------------------------------------------------------
LEMMA StepIInv == IInv /\ [Next]_vars => IInv'
<1> SUFFICES ASSUME IInv, [Next]_vars PROVE IInv'
  OBVIOUS
<1>0. /\ call \in [Callers -> Calls] /\ sess \in [Sessions -> SessionRecords]
      /\ reg \in Sessions \cup {NoSession} /\ bound \in BOOLEAN /\ sent \subseteq Datagrams
      /\ reg # NoSession => Live(reg)
  BY DEF IInv, TypeOK, RegisteredIsLive
<1>1. ASSUME NEW c \in Callers, call[c].phase \in {"idle", "probing"}
      PROVE  call[c].session = NoSession
  BY <1>0, <1>1 DEF Calls
<1>2. \A p \in {"idle", "probing"} : [phase |-> p, session |-> NoSession] \in Calls
  BY DEF Calls
<1>3. ASSUME NEW c \in Callers, Connect(c) PROVE IInv'
  <2>0. call[c] = [phase |-> "idle", session |-> NoSession]
    BY <1>0, <1>3 DEF Connect, Calls
  <2>1. call' = [call EXCEPT ![c] = [phase |-> "probing", session |-> NoSession]]
    <3>1. [call[c] EXCEPT !.phase = "probing"] = [phase |-> "probing", session |-> NoSession]
      BY <2>0
    <3>2. call' = [call EXCEPT ![c] = [call[c] EXCEPT !.phase = "probing"]]
      BY <1>3 DEF Connect
    <3> QED
      BY <3>1, <3>2
  <2> QED
    BY <1>1, <1>2, <1>3, <2>1, CallKeeps, NetworkAssumption DEF Connect
<1>4. ASSUME NEW c \in Callers, Unreachable(c) PROVE IInv'
  <2>0. call[c] = [phase |-> "probing", session |-> NoSession]
    BY <1>0, <1>4 DEF Unreachable, Calls
  <2>1. call' = [call EXCEPT ![c] = [phase |-> "idle", session |-> NoSession]]
    <3>1. [call[c] EXCEPT !.phase = "idle"] = [phase |-> "idle", session |-> NoSession]
      BY <2>0
    <3>2. call' = [call EXCEPT ![c] = [call[c] EXCEPT !.phase = "idle"]]
      BY <1>4 DEF Unreachable
    <3> QED
      BY <3>1, <3>2
  <2> QED
    BY <1>1, <1>2, <1>4, <2>1, CallKeeps, NetworkAssumption DEF Unreachable
<1>5. ASSUME NEW c \in Callers, Reachable(c) PROVE IInv'
  <2>1. PICK s \in Fresh :
          /\ sess' = [t \in Sessions |-> CASE t = s -> Opened("initiator", "inviting-control")
                                           [] t = reg /\ t # s -> Closed(sess[t])
                                           [] OTHER -> sess[t]]
          /\ reg' = s
          /\ call' = [call EXCEPT ![c] = [phase |-> "handshaking", session |-> s]]
          /\ sent' = sent \cup {<<"control", s>>}
    BY <1>5 DEF Reachable
  <2>2. s \in Sessions /\ <<"control", s>> \in Datagrams
    BY DEF Fresh, Datagrams
  <2>3. /\ call' \in [Callers -> Calls] /\ call'[c].session = s
        /\ \A d \in Callers : d # c => call'[d] = call[d]
    BY <1>0, <2>1, <2>2 DEF Calls
  <2>4. \A d \in Callers : call[d].session \in Sessions => call'[d].session = call[d].session
    BY <1>1, <1>5, <2>3, NetworkAssumption DEF Reachable
  <2>5. /\ \A t \in Sessions : sess'[t] = IF t = s THEN Opened("initiator", "inviting-control")
                                          ELSE IF t = reg THEN Closed(sess[t]) ELSE sess[t]
        /\ sess' = [t \in Sessions |-> sess'[t]]
    BY <2>1
  <2>6. /\ IF reg = NoSession THEN UNCHANGED <<device, told>>
           ELSE device' = NoSession /\ told' = "disconnected"
        /\ bound' \in BOOLEAN
    BY <1>5 DEF Reachable
  <2> QED
    BY <1>0, <2>1, <2>2, <2>3, <2>4, <2>5, <2>6, OpenKeeps
<1>6. ASSUME NEW c \in Callers, Backstop(c) PROVE IInv'
  <2>1. /\ call' = [call EXCEPT ![c] = [phase |-> "idle", session |-> NoSession]]
        /\ ~Waiting(call[c].session) /\ reg' = NoSession
        /\ UNCHANGED <<sess, device, told, bound, sent>>
    BY <1>6 DEF Backstop
  <2> QED
    BY <1>2, <2>1, CallKeeps
<1>7. CASE Disconnect
  <2>1. reg # NoSession => Byes(reg) \subseteq Datagrams
    BY <1>0 DEF Byes, Datagrams
  <2>2. sent' \subseteq Datagrams
    BY <1>0, <1>7, <2>1 DEF Disconnect
  <2> QED
    BY <1>0, <1>7, <2>2, HangupKeeps DEF Disconnect
<1>8. CASE Shutdown
  <2>1. reg # NoSession => Byes(reg) \subseteq Datagrams
    BY <1>0 DEF Byes, Datagrams
  <2>2. sent' \subseteq Datagrams
    BY <1>0, <1>8, <2>1 DEF Shutdown
  <2> QED
    BY <1>8, <2>2, HangupKeeps DEF Shutdown
<1>9. CASE RecvInvitation
  <2>1. PICK s \in Fresh : sess' = [sess EXCEPT ![s] = Opened("responder", "idle")] /\ reg' = s
    BY <1>9 DEF RecvInvitation
  <2>2. s \in Sessions
    BY DEF Fresh
  <2>3. /\ \A t \in Sessions : sess'[t] = IF t = s THEN Opened("responder", "idle")
                                          ELSE IF t = reg THEN Closed(sess[t]) ELSE sess[t]
        /\ sess' = [t \in Sessions |-> sess'[t]]
    BY <1>0, <1>9, <2>1, <2>2, NetworkAssumption DEF RecvInvitation
  <2> QED
    BY <1>0, <1>9, <2>1, <2>3, OpenKeeps DEF RecvInvitation
<1>10. ASSUME NEW t \in Sessions, RecvControlAccept(t) PROVE IInv'
  <2> DEFINE r == [sess[reg] EXCEPT !.accepted = IF t = reg THEN @ \cup {"control"} ELSE @]
             moves == r.state = "inviting-control"
             q == IF moves THEN [r EXCEPT !.state = "inviting-data"] ELSE Heard(r)
  <2>1. reg \in Sessions
    BY <1>0, <1>10 DEF RecvControlAccept, Verdict
  <2>2. r \in SessionRecords /\ r.role = sess[reg].role /\ r.state = sess[reg].state
    BY <1>0, <2>1 DEF SessionRecords
  <2>3. q \in SessionRecords /\ q.role = r.role
    BY <2>2 DEF Heard, SessionRecords
  <2>4. \/ q.state = r.state
        \/ r.state = "inviting-control" /\ q.state = "inviting-data"
    BY <2>2 DEF Heard, SessionRecords
  <2>5. sess' = [sess EXCEPT ![reg] = q]
    BY <1>10 DEF RecvControlAccept
  <2>6. sent' \subseteq Datagrams
    BY <1>0, <1>10, <2>1 DEF RecvControlAccept, Ruled, Datagrams
  <2>7. UNCHANGED <<call, reg, device, told>> /\ bound' \in BOOLEAN
    BY <1>0, <1>10 DEF RecvControlAccept
  <2> HIDE DEF q, r
  <2> QED
    BY <2>1, <2>2, <2>3, <2>4, <2>5, <2>6, <2>7, Touch
<1>11. ASSUME NEW t \in Sessions, RecvDataAccept(t) PROVE IInv'
  <2> DEFINE a == IF t = reg THEN sess[reg].accepted \cup {"data"} ELSE sess[reg].accepted
             r == [sess[reg] EXCEPT !.accepted = a]
  <2>1. reg \in Sessions /\ reg # NoSession
    BY <1>0, <1>11 DEF RecvDataAccept
  <2>2. a \in SUBSET {"control", "data", "peer"}
    BY <1>0, <2>1 DEF SessionRecords
  <2>3. r \in SessionRecords /\ r.role = sess[reg].role /\ r.state = sess[reg].state
    BY <1>0, <2>1, <2>2 DEF SessionRecords
  <2>4. IF r.state = "inviting-data" THEN Establish(reg, r)
        ELSE /\ sess' = [sess EXCEPT ![reg] = Heard(r)]
             /\ UNCHANGED <<call, reg, device, told, bound, sent>>
    BY <1>11 DEF RecvDataAccept
  <2>5. CASE r.state = "inviting-data"
    BY <2>1, <2>2, <2>4, <2>5, EstablishKeeps
  <2>6. CASE r.state # "inviting-data"
    <3>1. Heard(r) \in SessionRecords /\ Heard(r).role = r.role /\ Heard(r).state = r.state
      BY <2>3 DEF Heard, SessionRecords
    <3> QED
      BY <1>0, <2>1, <2>3, <2>4, <2>6, <3>1, Touch
  <2> QED
    BY <2>5, <2>6
<1>12. ASSUME NEW t \in Sessions, RecvReject(t) PROVE IInv'
  <2>1. reg \in Sessions /\ Live(reg)
    BY <1>0, <1>12 DEF RecvReject, Verdict
  <2>2. Close(reg) /\ call' = Settled(reg) /\ bound' = bound
    BY <1>12 DEF RecvReject, FailConnect
  <2>3. sent' \subseteq Datagrams
    BY <1>0, <1>12 DEF RecvReject, Ruled, Datagrams
  <2> QED
    BY <1>0, <2>1, <2>2, <2>3, CloseKeeps
<1>13. CASE RecvDataInvitation
  <2> DEFINE a == sess[reg].accepted \cup {"peer"}
  <2>1. a \in SUBSET {"control", "data", "peer"}
    BY <1>0, <1>13 DEF RecvDataInvitation, SessionRecords
  <2>2. reg # NoSession /\ Establish(reg, [sess[reg] EXCEPT !.accepted = a])
    BY <1>13 DEF RecvDataInvitation
  <2> QED
    BY <2>1, <2>2, EstablishKeeps
<1>14. CASE RecvEnd
  BY <1>0, <1>14, CloseKeeps DEF RecvEnd
<1>15. CASE RecvOther
  <2>1. reg \in Sessions
    BY <1>0, <1>15 DEF RecvOther
  <2>2. /\ Heard(sess[reg]) \in SessionRecords
        /\ Heard(sess[reg]).role = sess[reg].role /\ Heard(sess[reg]).state = sess[reg].state
    BY <1>0, <2>1 DEF Heard, SessionRecords
  <2> QED
    BY <1>0, <1>15, <2>1, <2>2, Touch DEF RecvOther
<1>16. ASSUME NEW s \in Sessions, HandshakeTimeout(s) PROVE IInv'
  BY <1>0, <1>16, CloseKeeps DEF HandshakeTimeout, FailConnect, Live
<1>17. ASSUME NEW s \in Sessions, EstablishTimeout(s) PROVE IInv'
  BY <1>0, <1>17, CloseKeeps DEF EstablishTimeout, Live
<1>18. ASSUME NEW s \in Sessions, WatchdogKeeps(s) PROVE IInv'
  <2>0. PICK rx \in {"old", "edge"} : sess' = [sess EXCEPT ![s] = [sess[s] EXCEPT !.rx = rx]]
    BY <1>18 DEF WatchdogKeeps
  <2>1. [sess[s] EXCEPT !.rx = rx] \in SessionRecords
    BY <1>0 DEF SessionRecords
  <2>2. /\ [sess[s] EXCEPT !.rx = rx].role = sess[s].role
        /\ [sess[s] EXCEPT !.rx = rx].state = sess[s].state
    BY <1>0 DEF SessionRecords
  <2>3. sess' = [sess EXCEPT ![s] = [sess[s] EXCEPT !.rx = rx]]
    BY <2>0
  <2>4. UNCHANGED <<call, reg, device, told>> /\ bound' \in BOOLEAN /\ sent' \subseteq Datagrams
    BY <1>0, <1>18 DEF WatchdogKeeps
  <2> QED
    BY <2>1, <2>2, <2>3, <2>4, Touch
<1>19. ASSUME NEW s \in Sessions, WatchdogCloses(s) PROVE IInv'
  BY <1>0, <1>19, CloseKeeps DEF WatchdogCloses, Live
<1>20. CASE UNCHANGED vars
  BY <1>20 DEF vars, IInv, TypeOK, RegisteredIsLive, ListedIsEstablished, ReachableIsListed,
               ToldIsTrue, WaitingIsAwaited, OpenedHasRole, Live, Waiting, Established
<1> QED
  BY <1>3, <1>4, <1>5, <1>6, <1>7, <1>8, <1>9, <1>10, <1>11, <1>12, <1>13, <1>14, <1>15, <1>16,
     <1>17, <1>18, <1>19, <1>20 DEF Next, Watchdog

LEMMA Inductive == Spec => []IInv
  BY InitIInv, StepIInv, PTL DEF Spec

(* Every variable keeps its type.                                          *)
THEOREM TypeCorrect == Spec => []TypeOK
<1>1. IInv => TypeOK
  BY DEF IInv
<1> QED
  BY <1>1, Inductive, PTL

(* Whatever times out, is refused, ended or replaced, and however many     *)
(* connects overlap: the registered session is alive, and it is the one in *)
(* the list as soon as it is established.                                  *)
THEOREM RegistrySound == Spec => []RegistryIsSound
<1>1. IInv => RegistryIsSound
  BY DEF IInv, RegisteredIsLive, ReachableIsListed, RegistryIsSound
<1> QED
  BY <1>1, Inductive, PTL

(* The list of connected instruments shows established sessions only, and  *)
(* the last event told about the address says what the list says.          *)
THEOREM ListSound == Spec => []ListIsSound
<1>1. IInv => ListIsSound
  BY DEF IInv, ListedIsEstablished, ToldIsTrue, ListIsSound
<1> QED
  BY <1>1, Inductive, PTL
-----------------------------------------------------------------------------
\* One command at a time, to a peer that does not hang up while it is called.
Orderly == ~EarlyEnd /\ \A c, d \in Callers : c = d

Handshaking(c) == call[c].phase = "handshaking"

\* Then a connect waits for the registered session, unless shutdown came by.
Alone ==
    /\ NoSessionIsLost
    /\ \A c \in Callers : Handshaking(c) =>
         /\ sess[call[c].session].role = "initiator"
         /\ \/ reg = call[c].session /\ Waiting(reg)
            \/ reg = NoSession /\ ~bound

LEMMA AloneTouch ==
  ASSUME IInv, Alone, reg \in Sessions,
         \A t \in Sessions : /\ sess'[t].role = sess[t].role
                             /\ Waiting(t)' <=> Waiting(t)
                             /\ Established(t)' <=> Established(t),
         call' = call, reg' = reg
  PROVE  Alone'
<1>1. \A c \in Callers : Handshaking(c) => call[c].session \in Sessions
  BY DEF IInv, TypeOK, Calls, Handshaking
<1> QED
  BY <1>1, NetworkAssumption DEF Alone, NoSessionIsLost, Live, Handshaking

\* The registered session ends, and nobody waits for one any more.
LEMMA AloneClose ==
  ASSUME IInv, Alone, NEW s \in Sessions, Live(s), Close(s),
         \A c \in Callers : call'[c].phase # "handshaking"
  PROVE  Alone'
<1>1. reg = s
  BY DEF Alone, NoSessionIsLost
<1>2. sess' = [sess EXCEPT ![s] = Closed(@)] /\ reg' = NoSession
  BY DEF Close, Live, Waiting, Established
<1>3. ~Live(s)'
  BY <1>2 DEF IInv, TypeOK, Closed, Opened, Live, Waiting, Established
<1>4. \A t \in Sessions : t # s => ~Live(t)'
  BY <1>1, <1>2 DEF IInv, TypeOK, Alone, NoSessionIsLost, Live, Waiting, Established
<1> QED
  BY <1>3, <1>4 DEF Alone, NoSessionIsLost, Handshaking

\* With a session in its place and sockets to hear it, a connect waits for it.
LEMMA WaitsForRegistered ==
  ASSUME IInv, Alone, reg # NoSession, NEW c \in Callers, Handshaking(c)
  PROVE  call[c].session = reg /\ Waiting(reg) /\ ~Established(reg) /\ sess[reg].role = "initiator"
  BY DEF Alone, Waiting, Established

LEMMA AfterSettling ==
  ASSUME IInv, Alone, reg # NoSession, NEW c \in Callers
  PROVE  Settled(reg)[c].phase # "handshaking"
  BY WaitsForRegistered DEF Settled, Handshaking

LEMMA AloneEstablish ==
  ASSUME IInv, Alone, reg # NoSession, NEW a,
         NEW r, r = [sess[reg] EXCEPT !.accepted = a],
         Establish(reg, r)
  PROVE  Alone'
<1>1. reg \in Sessions /\ reg' = reg /\ call' = Settled(reg)
  BY DEF IInv, TypeOK, Establish
<1>2. \A t \in Sessions : t # reg => sess'[t] = sess[t]
  BY <1>1 DEF Establish, IInv, TypeOK
<1>3. NoSessionIsLost'
  BY <1>1, <1>2 DEF Alone, NoSessionIsLost, Live, Waiting, Established
<1> QED
  BY <1>1, <1>3, AfterSettling DEF Alone, Handshaking

LEMMA InitAlone == Init => Alone
  BY DEF Init, Alone, NoSessionIsLost, Live, Waiting, Established, Opened, Handshaking

LEMMA StepAlone ==
  ASSUME Orderly, IInv, Alone, [Next]_vars
  PROVE  Alone'
<1>0. /\ call \in [Callers -> Calls] /\ sess \in [Sessions -> SessionRecords]
      /\ reg \in Sessions \cup {NoSession}
      /\ \A s \in Sessions : Live(s) => reg = s
      /\ reg # NoSession => Live(reg)
  BY DEF IInv, TypeOK, RegisteredIsLive, Alone, NoSessionIsLost
<1>1. ASSUME NEW c \in Callers, Connect(c) PROVE Alone'
  <2>1. \A d \in Callers : call'[d].phase = "handshaking" => call'[d] = call[d]
    BY <1>0, <1>1 DEF Connect, Calls
  <2> QED
    BY <1>1, <2>1 DEF Connect, Alone, NoSessionIsLost, Live, Waiting, Established, Handshaking
<1>2. ASSUME NEW c \in Callers, Unreachable(c) PROVE Alone'
  <2>1. \A d \in Callers : call'[d].phase = "handshaking" => call'[d] = call[d]
    BY <1>0, <1>2 DEF Unreachable, Calls
  <2> QED
    BY <1>2, <2>1 DEF Unreachable, Alone, NoSessionIsLost, Live, Waiting, Established, Handshaking
<1>3. ASSUME NEW c \in Callers, Reachable(c) PROVE Alone'
  <2>1. PICK s \in Fresh :
          /\ sess' = [t \in Sessions |-> CASE t = s -> Opened("initiator", "inviting-control")
                                           [] t = reg /\ t # s -> Closed(sess[t])
                                           [] OTHER -> sess[t]]
          /\ reg' = s
          /\ call' = [call EXCEPT ![c] = [phase |-> "handshaking", session |-> s]]
    BY <1>3 DEF Reachable
  <2>2. s \in Sessions
    BY DEF Fresh
  <2>3. sess'[s].role = "initiator" /\ Waiting(s)'
    BY <2>1, <2>2 DEF Opened, Waiting
  <2>4. ASSUME NEW t \in Sessions, t # s PROVE ~Live(t)'
    <3>1. CASE t = reg
      BY <2>1, <2>4, <3>1 DEF Closed, Opened, Live, Waiting, Established
    <3>2. CASE t # reg
      <4>1. sess'[t] = sess[t] /\ ~Live(t)
        BY <1>0, <2>1, <2>4, <3>2
      <4> QED
        BY <4>1 DEF Live, Waiting, Established
    <3> QED
      BY <3>1, <3>2
  <2>5. \A d \in Callers : call'[d].session = s
    BY <1>0, <2>1 DEF Orderly
  <2> QED
    BY <2>1, <2>3, <2>4, <2>5 DEF Alone, NoSessionIsLost, Handshaking
<1>4. ASSUME NEW c \in Callers, Backstop(c) PROVE Alone'
  <2>1. reg = NoSession
    BY <1>4 DEF Backstop, Alone, Handshaking
  <2>2. \A d \in Callers : call'[d].phase # "handshaking"
    BY <1>0, <1>4 DEF Backstop, Orderly
  <2> QED
    BY <1>4, <2>1, <2>2 DEF Backstop, Alone, NoSessionIsLost, Live, Waiting, Established, Handshaking
<1>5. CASE Disconnect
  <2>1. device \in Sessions /\ Established(device)
    BY <1>5 DEF Disconnect, IInv, TypeOK, ListedIsEstablished
  <2>2. reg = device /\ reg # NoSession
    BY <1>0, <2>1, NetworkAssumption DEF Live
  <2>3. Close(reg)
    BY <1>5, <2>1, <2>2 DEF Disconnect, Close, Established
  <2>4. \A c \in Callers : call'[c].phase # "handshaking"
    BY <1>5, <2>1, <2>2, WaitsForRegistered DEF Disconnect, Handshaking
  <2> QED
    BY <1>0, <2>1, <2>2, <2>3, <2>4, AloneClose
<1>6. CASE Shutdown
  <2>1. reg' = NoSession /\ ~bound' /\ call' = call
    BY <1>6 DEF Shutdown
  <2>2. sess' = IF reg # NoSession THEN [sess EXCEPT ![reg] = Closed(@)] ELSE sess
    BY <1>6 DEF Shutdown
  <2>3. ASSUME NEW t \in Sessions PROVE sess'[t].role = sess[t].role /\ ~Live(t)'
    <3>1. CASE t = reg
      <4>1. sess'[t] = Closed(sess[t])
        BY <1>0, <2>2, <3>1, NetworkAssumption
      <4> QED
        BY <4>1 DEF Closed, Opened, Live, Waiting, Established
    <3>2. CASE t # reg
      <4>1. sess'[t] = sess[t] /\ ~Live(t)
        BY <1>0, <2>2, <3>2
      <4> QED
        BY <4>1 DEF Live, Waiting, Established
    <3> QED
      BY <3>1, <3>2
  <2>4. \A c \in Callers : Handshaking(c) => call[c].session \in Sessions
    BY <1>0 DEF Calls, Handshaking
  <2> QED
    BY <2>1, <2>3, <2>4 DEF Alone, NoSessionIsLost, Handshaking
<1>7. CASE RecvInvitation
  <2>1. PICK s \in Fresh : sess' = [sess EXCEPT ![s] = Opened("responder", "idle")] /\ reg' = s
    BY <1>7 DEF RecvInvitation
  <2>2. \A t \in Sessions : t # s => sess'[t] = sess[t] /\ ~Live(t)
    BY <1>0, <1>7, <2>1, NetworkAssumption DEF RecvInvitation
  <2>3. \A c \in Callers : ~Handshaking(c)
    BY <1>7, NetworkAssumption DEF RecvInvitation, Alone, IInv, TypeOK, Calls, Handshaking
  <2> QED
    BY <1>7, <2>1, <2>2, <2>3
       DEF RecvInvitation, Alone, NoSessionIsLost, Live, Waiting, Established, Handshaking
<1>8. ASSUME NEW t \in Sessions, RecvControlAccept(t) PROVE Alone'
  <2> DEFINE r == [sess[reg] EXCEPT !.accepted = IF t = reg THEN @ \cup {"control"} ELSE @]
             moves == r.state = "inviting-control"
             q == IF moves THEN [r EXCEPT !.state = "inviting-data"] ELSE Heard(r)
  <2>1. reg \in Sessions
    BY <1>0, <1>8 DEF RecvControlAccept, Verdict
  <2>2. r \in SessionRecords /\ r.role = sess[reg].role /\ r.state = sess[reg].state
    BY <1>0, <2>1 DEF SessionRecords
  <2>3. /\ q.role = r.role
        /\ \/ q.state = r.state
           \/ r.state = "inviting-control" /\ q.state = "inviting-data"
    BY <2>2 DEF Heard, SessionRecords
  <2>4. sess' = [sess EXCEPT ![reg] = q] /\ UNCHANGED <<call, reg>>
    BY <1>8 DEF RecvControlAccept
  <2> HIDE DEF q, r
  <2>5. \A u \in Sessions : sess'[u] = IF u = reg THEN q ELSE sess[u]
    BY <1>0, <2>4
  <2>6. \A u \in Sessions : /\ sess'[u].role = sess[u].role
                            /\ Waiting(u)' <=> Waiting(u)
                            /\ Established(u)' <=> Established(u)
    BY <2>2, <2>3, <2>5 DEF Waiting, Established
  <2> QED
    BY <2>1, <2>4, <2>6, AloneTouch
<1>9. ASSUME NEW t \in Sessions, RecvDataAccept(t) PROVE Alone'
  <2> DEFINE a == IF t = reg THEN sess[reg].accepted \cup {"data"} ELSE sess[reg].accepted
             r == [sess[reg] EXCEPT !.accepted = a]
  <2>1. reg \in Sessions /\ reg # NoSession
    BY <1>0, <1>9 DEF RecvDataAccept
  <2>2. r.role = sess[reg].role /\ r.state = sess[reg].state
    BY <1>0, <2>1 DEF SessionRecords
  <2>3. IF r.state = "inviting-data" THEN Establish(reg, r)
        ELSE sess' = [sess EXCEPT ![reg] = Heard(r)] /\ UNCHANGED <<call, reg>>
    BY <1>9 DEF RecvDataAccept
  <2>4. CASE r.state = "inviting-data"
    BY <2>1, <2>3, <2>4, AloneEstablish
  <2>5. CASE r.state # "inviting-data"
    <3>1. Heard(r).role = r.role /\ Heard(r).state = r.state
      BY <1>0, <2>1 DEF Heard, SessionRecords
    <3>2. \A u \in Sessions : sess'[u] = IF u = reg THEN Heard(r) ELSE sess[u]
      BY <1>0, <2>3, <2>5
    <3>3. \A u \in Sessions : /\ sess'[u].role = sess[u].role
                              /\ Waiting(u)' <=> Waiting(u)
                              /\ Established(u)' <=> Established(u)
      BY <2>2, <3>1, <3>2 DEF Waiting, Established
    <3> QED
      BY <2>1, <2>3, <2>5, <3>3, AloneTouch
  <2> QED
    BY <2>4, <2>5
<1>10. ASSUME NEW t \in Sessions, RecvReject(t) PROVE Alone'
  BY <1>0, <1>10, AfterSettling, AloneClose DEF RecvReject, Verdict, FailConnect
<1>11. CASE RecvDataInvitation
  BY <1>11, AloneEstablish DEF RecvDataInvitation
<1>12. CASE RecvEnd
  <2>1. reg # NoSession /\ Established(reg) /\ Close(reg) /\ call' = call
    BY <1>12 DEF RecvEnd, Orderly
  <2> QED
    BY <1>0, <2>1, WaitsForRegistered, AloneClose DEF Handshaking
<1>13. CASE RecvOther
  <2>1. reg \in Sessions /\ UNCHANGED <<call, reg>> /\ sess' = [sess EXCEPT ![reg] = Heard(@)]
    BY <1>0, <1>13 DEF RecvOther
  <2>2. Heard(sess[reg]).role = sess[reg].role /\ Heard(sess[reg]).state = sess[reg].state
    BY <1>0, <2>1 DEF Heard, SessionRecords
  <2>3. \A u \in Sessions : sess'[u] = IF u = reg THEN Heard(sess[reg]) ELSE sess[u]
    BY <1>0, <2>1
  <2>4. \A u \in Sessions : /\ sess'[u].role = sess[u].role
                            /\ Waiting(u)' <=> Waiting(u)
                            /\ Established(u)' <=> Established(u)
    BY <2>2, <2>3 DEF Waiting, Established
  <2> QED
    BY <2>1, <2>4, AloneTouch
<1>14. ASSUME NEW s \in Sessions, HandshakeTimeout(s) PROVE Alone'
  <2>1. Live(s) /\ reg = s /\ Close(s) /\ call' = Settled(s)
    BY <1>0, <1>14 DEF HandshakeTimeout, FailConnect, Live
  <2> QED
    BY <2>1, AfterSettling, AloneClose, NetworkAssumption
<1>15. ASSUME NEW s \in Sessions, EstablishTimeout(s) PROVE Alone'
  <2>1. Live(s) /\ reg = s /\ reg # NoSession /\ sess[s].role = "responder" /\ Close(s) /\ call' = call
    BY <1>0, <1>15, NetworkAssumption DEF EstablishTimeout, Live
  <2>2. \A c \in Callers : call'[c].phase # "handshaking"
    BY <2>1, WaitsForRegistered DEF Handshaking
  <2> QED
    BY <2>1, <2>2, AloneClose
<1>16. ASSUME NEW s \in Sessions, WatchdogKeeps(s) PROVE Alone'
  <2>1. reg = s /\ UNCHANGED <<call, reg>>
        /\ \E rx \in {"old", "edge"} : sess' = [sess EXCEPT ![s] = [sess[s] EXCEPT !.rx = rx]]
    BY <1>0, <1>16 DEF WatchdogKeeps, Live
  <2>2. \A u \in Sessions : sess'[u].role = sess[u].role /\ sess'[u].state = sess[u].state
    BY <1>0, <2>1 DEF SessionRecords
  <2> QED
    BY <2>1, <2>2, AloneTouch DEF Waiting, Established
<1>17. ASSUME NEW s \in Sessions, WatchdogCloses(s) PROVE Alone'
  <2>1. Live(s) /\ reg = s /\ reg # NoSession /\ Established(s) /\ Close(s) /\ call' = call
    BY <1>0, <1>17, NetworkAssumption DEF WatchdogCloses, Live
  <2>2. \A c \in Callers : call'[c].phase # "handshaking"
    BY <2>1, WaitsForRegistered DEF Handshaking
  <2> QED
    BY <2>1, <2>2, AloneClose
<1>18. CASE UNCHANGED vars
  BY <1>18 DEF vars, Alone, NoSessionIsLost, Live, Waiting, Established, Handshaking
<1> QED
  BY <1>1, <1>2, <1>3, <1>4, <1>5, <1>6, <1>7, <1>8, <1>9, <1>10, <1>11, <1>12, <1>13, <1>14,
     <1>15, <1>16, <1>17, <1>18 DEF Next, Watchdog

(* While connects follow one another and the peer does not hang up on an   *)
(* invitation, every session alive is the registered one: nothing that     *)
(* times out, is refused, ends or is shut down leaves another behind.      *)
THEOREM NoneIsLost ==
  ASSUME Orderly
  PROVE  Spec => []NoSessionIsLost
<1>1. IInv /\ Alone /\ [Next]_vars => Alone'
  BY StepAlone
<1>2. Alone => NoSessionIsLost
  BY DEF Alone
<1> QED
  BY <1>1, <1>2, InitAlone, Inductive, PTL DEF Spec

-----------------------------------------------------------------------------
\* A nonempty set of naturals has a least element.
LEMMA LeastNat ==
  ASSUME NEW T \in SUBSET Nat, T # {}
  PROVE  \E x \in T : \A y \in T : x <= y
<1> DEFINE Less == {ss \in Nat \X Nat : ss[1] < ss[2]}
<1>1. IsWellFoundedOn(Less, Nat)
  BY NatLessThanWellFounded DEF OpToRel
<1>2. PICK x \in T : \A y \in T : <<y, x>> \notin Less
  <2> HIDE DEF Less
  <2> QED
    BY <1>1, WFMin
<1>3. ASSUME NEW y \in T PROVE x <= y
  <2>1. x \in Nat /\ y \in Nat
    OBVIOUS
  <2>2. ~(y < x)
    BY <1>2, <2>1
  <2> QED
    BY <2>1, <2>2
<1> QED
  BY <1>3

\* Waiting discrete events are in the order of their broadcasts.
Queued(queue, kindOf) ==
    /\ queue \in Seq(Nat)
    /\ \A i \in 1 .. Len(queue) : queue[i] \in 1 .. Len(kindOf) /\ Discrete(kindOf[queue[i]])
    /\ \A i, j \in 1 .. Len(queue) : i < j => queue[i] < queue[j]

\* A kind has one slot.
Slotted(latest, kindOf) ==
    /\ latest \in Seq(Nat)
    /\ \A i \in 1 .. Len(latest) : latest[i] \in 1 .. Len(kindOf) /\ kindOf[latest[i]] \in Slots
    /\ \A i, j \in 1 .. Len(latest) : i # j => kindOf[latest[i]] # kindOf[latest[j]]

-----------------------------------------------------------------------------
\* The loop of enqueue.

\* One turn of it takes one event out.
LEMMA DropOneFacts ==
  ASSUME NEW q, Queued(q, log), q # <<>>
  PROVE  /\ Queued(DropOne(q), log)
         /\ Len(DropOne(q)) = Len(q) - 1
         /\ ToSet(DropOne(q)) \subseteq ToSet(q)
<1> DEFINE informational == {i \in DOMAIN q : log[q[i]] = "informational"}
           k == Sacrificed(q)
           before == SubSeq(q, 1, k - 1)
           after == SubSeq(q, k + 1, Len(q))
<1>1. q \in Seq(Nat) /\ Len(q) \in Nat /\ DOMAIN q = 1 .. Len(q) /\ Len(q) > 0
  BY DEF Queued
<1>2. k \in 1 .. Len(q)
  <2>1. CASE informational = {}
    BY <1>1, <2>1 DEF Sacrificed
  <2>2. CASE informational # {}
    <3>1. \E i \in informational : \A j \in informational : i <= j
      <4>1. informational \in SUBSET Nat
        BY <1>1
      <4> HIDE DEF informational
      <4> QED
        BY <2>2, <4>1, LeastNat
    <3>2. k = CHOOSE i \in informational : \A j \in informational : i <= j
      BY <2>2 DEF Sacrificed
    <3> QED
      BY <1>1, <3>1, <3>2
  <2> QED
    BY <2>1, <2>2
<1> HIDE DEF k
<1>3. /\ before \in Seq(Nat) /\ Len(before) = k - 1
      /\ \A i \in 1 .. k - 1 : before[i] = q[i]
  <2>1. \A i \in 1 .. k - 1 : q[i] \in Nat
    BY <1>1, <1>2
  <2>2. k - 1 \in Int /\ 1 \in Int /\ k - 1 - 1 + 1 = k - 1 /\ (1 <= k - 1 \/ k - 1 = 0)
    BY <1>2
  <2>3. /\ SubSeq(q, 1, k - 1) \in Seq(Nat)
        /\ Len(SubSeq(q, 1, k - 1)) = IF 1 <= k - 1 THEN k - 1 - 1 + 1 ELSE 0
        /\ \A i \in 1 .. k - 1 - 1 + 1 : SubSeq(q, 1, k - 1)[i] = q[1 + i - 1]
    BY <2>1, <2>2, SubSeqProperties
  <2> QED
    BY <2>2, <2>3
<1>4. /\ after \in Seq(Nat) /\ Len(after) = Len(q) - k
      /\ \A i \in 1 .. Len(q) - k : after[i] = q[k + i]
  <2>1. \A i \in k + 1 .. Len(q) : q[i] \in Nat
    BY <1>1, <1>2
  <2>2. k + 1 \in Int /\ Len(q) \in Int
    BY <1>1, <1>2
  <2>3. /\ SubSeq(q, k + 1, Len(q)) \in Seq(Nat)
        /\ Len(SubSeq(q, k + 1, Len(q))) = IF k + 1 <= Len(q) THEN Len(q) - (k + 1) + 1 ELSE 0
        /\ \A i \in 1 .. Len(q) - (k + 1) + 1 : SubSeq(q, k + 1, Len(q))[i] = q[k + 1 + i - 1]
    BY <2>1, <2>2, SubSeqProperties
  <2>4. /\ Len(q) - (k + 1) + 1 = Len(q) - k
        /\ IF k + 1 <= Len(q) THEN TRUE ELSE Len(q) - k = 0
    <3>1. k \in Int /\ Len(q) \in Int /\ k <= Len(q)
      BY <1>1, <1>2
    <3> HIDE DEF before, after, informational
    <3> QED
      BY <3>1
  <2>5. ASSUME NEW i \in 1 .. Len(q) - k PROVE k + 1 + i - 1 = k + i
    BY <1>1, <1>2
  <2> QED
    BY <2>3, <2>4, <2>5
<1> HIDE DEF before, after
<1>5. DropOne(q) = before \o after
  BY DEF DropOne, RemoveAt, k, before, after
<1>6. /\ DropOne(q) \in Seq(Nat)
      /\ Len(DropOne(q)) = Len(q) - 1
      /\ \A i \in 1 .. Len(q) - 1 : DropOne(q)[i] = IF i <= k - 1 THEN before[i] ELSE after[i - (k - 1)]
  <2>1. /\ before \o after \in Seq(Nat)
        /\ Len(before \o after) = Len(before) + Len(after)
        /\ \A i \in 1 .. Len(before) + Len(after) :
               (before \o after)[i] = IF i <= Len(before) THEN before[i] ELSE after[i - Len(before)]
    BY <1>3, <1>4, ConcatProperties
  <2>2. Len(before) + Len(after) = Len(q) - 1
    BY <1>1, <1>2, <1>3, <1>4
  <2> QED
    BY <1>3, <1>5, <2>1, <2>2
<1>7. \A i \in 1 .. Len(q) - 1 : /\ i < k => DropOne(q)[i] = q[i]
                                 /\ i >= k => DropOne(q)[i] = q[i + 1]
  <2> TAKE i \in 1 .. Len(q) - 1
  <2>1. CASE i < k
    <3>1. i <= k - 1 /\ i \in 1 .. k - 1 /\ ~(i >= k)
      BY <1>2, <2>1
    <3> QED
      BY <1>3, <1>6, <3>1
  <2>2. CASE i >= k
    <3>1. /\ ~(i <= k - 1) /\ i - (k - 1) \in 1 .. Len(q) - k /\ k + (i - (k - 1)) = i + 1
          /\ ~(i < k)
      BY <1>1, <1>2, <2>2
    <3> QED
      BY <1>4, <1>6, <3>1
  <2> QED
    BY <1>2, <2>1, <2>2
<1> HIDE DEF informational
<1>8. Queued(DropOne(q), log)
  <2>1. ASSUME NEW i \in 1 .. Len(q) - 1
        PROVE  \E p \in {i, i + 1} : /\ p \in 1 .. Len(q) /\ DropOne(q)[i] = q[p]
                                     /\ (p = i => i < k) /\ (p = i + 1 => i >= k)
    <3>1. CASE i < k
      BY <1>1, <1>7, <3>1
    <3>2. CASE i >= k
      BY <1>1, <1>7, <3>2
    <3> QED
      BY <1>2, <3>1, <3>2
  <2>2. \A i \in 1 .. Len(q) - 1 :
           DropOne(q)[i] \in 1 .. Len(log) /\ Discrete(log[DropOne(q)[i]])
    BY <2>1 DEF Queued
  <2>3. ASSUME NEW i \in 1 .. Len(q) - 1, NEW j \in 1 .. Len(q) - 1, i < j
        PROVE  DropOne(q)[i] < DropOne(q)[j]
    <3>1. PICK p \in {i, i + 1} : /\ p \in 1 .. Len(q) /\ DropOne(q)[i] = q[p]
                                  /\ (p = i => i < k) /\ (p = i + 1 => i >= k)
      BY <2>1
    <3>2. PICK r \in {j, j + 1} : /\ r \in 1 .. Len(q) /\ DropOne(q)[j] = q[r]
                                  /\ (r = j => j < k) /\ (r = j + 1 => j >= k)
      BY <2>1
    <3>3. p < r
      BY <1>2, <2>3, <3>1, <3>2
    <3> QED
      BY <3>1, <3>2, <3>3 DEF Queued
  <2> QED
    BY <1>6, <2>2, <2>3 DEF Queued
<1>9. ToSet(DropOne(q)) \subseteq ToSet(q)
  <2> SUFFICES ASSUME NEW i \in 1 .. Len(q) - 1 PROVE DropOne(q)[i] \in ToSet(q)
    BY <1>6 DEF ToSet
  <2>1. \E p \in 1 .. Len(q) : DropOne(q)[i] = q[p]
    BY <1>1, <1>2, <1>7
  <2> QED
    BY <1>1, <2>1 DEF ToSet
<1> QED
  BY <1>6, <1>8, <1>9

\* What the loop leaves after each of its turns.
LEMMA TurnsExist ==
  ASSUME NEW q, NEW m \in Nat
  PROVE  \E f : f = [n \in 0 .. m |-> IF n = 0 THEN q ELSE DropOne(f[n - 1])]
<1> DEFINE Turns(f, n) == f = [i \in 0 .. n |-> IF i = 0 THEN q ELSE DropOne(f[i - 1])]
           None == {n \in Nat : \A f : ~Turns(f, n)}
<1>1. None \in SUBSET Nat /\ (None = {} => \E f : Turns(f, m))
  OBVIOUS
<1>2. SUFFICES ASSUME NEW n \in None, \A i \in None : n <= i PROVE FALSE
  <2> HIDE DEF None
  <2> QED
    BY <1>1, <1>2, LeastNat
<1>3. CASE n = 0
  <2> DEFINE f == [i \in 0 .. 0 |-> q]
  <2>1. Turns(f, 0)
    OBVIOUS
  <2> QED
    BY <1>2, <1>3, <2>1
<1>4. CASE n # 0
  <2>1. n \in Nat /\ n - 1 \in Nat /\ n - 1 \notin None
    <3>1. n \in Nat
      BY <1>1, <1>2
    <3> HIDE DEF None
    <3> QED
      BY <1>2, <1>4, <3>1
  <2>2. PICK f : Turns(f, n - 1)
    BY <2>1
  <2> DEFINE g == [i \in 0 .. n |-> IF i = n THEN DropOne(f[n - 1]) ELSE f[i]]
  <2>3. ASSUME NEW i \in 0 .. n PROVE g[i] = IF i = 0 THEN q ELSE DropOne(g[i - 1])
    <3>1. CASE i = n
      BY <1>4, <2>1, <3>1
    <3>2. CASE i # n
      BY <1>4, <2>1, <2>2, <3>2
    <3> QED
      BY <3>1, <3>2
  <2>4. Turns(g, n)
    BY <2>3
  <2> QED
    BY <1>2, <2>4
<1> QED
  BY <1>3, <1>4

LEMMA TrimmedFacts ==
  ASSUME NEW q, Queued(q, log), NEW depth \in Nat \ {0}
  PROVE  /\ Queued(Trimmed(q, depth), log)
         /\ Len(Trimmed(q, depth)) < depth
         /\ ToSet(Trimmed(q, depth)) \subseteq ToSet(q)
<1> DEFINE excess == Len(q) - depth + 1
           f == CHOOSE f : f = [n \in 0 .. excess |-> IF n = 0 THEN q ELSE DropOne(f[n - 1])]
<1>1. Len(q) \in Nat /\ excess \in Int
  BY DEF Queued
<1>2. CASE excess <= 0
  <2>1. Trimmed(q, depth) = q
    BY <1>2 DEF Trimmed
  <2> QED
    BY <1>1, <1>2, <2>1
<1>3. CASE excess > 0
  <2>1. Trimmed(q, depth) = f[excess]
    BY <1>1, <1>3 DEF Trimmed
  <2>2. f = [n \in 0 .. excess |-> IF n = 0 THEN q ELSE DropOne(f[n - 1])]
    BY <1>1, <1>3, TurnsExist
  <2> HIDE DEF f
  <2>3. excess \in Nat /\ f[0] = q
    BY <1>1, <1>3, <2>2
  <2>4. ASSUME NEW n \in 1 .. excess PROVE f[n] = DropOne(f[n - 1])
    BY <1>1, <1>3, <2>2, <2>4
  <2> DEFINE Fine(n) == /\ Queued(f[n], log) /\ Len(f[n]) = Len(q) - n
                        /\ ToSet(f[n]) \subseteq ToSet(q)
             Bad == {n \in 0 .. excess : ~Fine(n)}
  <2>5. Bad = {}
    <3>1. SUFFICES ASSUME NEW n \in Bad, \A i \in Bad : n <= i PROVE FALSE
      <4>1. Bad \in SUBSET Nat
        BY <2>3
      <4> HIDE DEF Bad
      <4> QED
        BY <3>1, <4>1, LeastNat
    <3>2. n # 0
      BY <1>1, <2>3, <3>1
    <3>3. n - 1 \in 0 .. excess /\ n - 1 \notin Bad /\ n \in 1 .. excess
      BY <2>3, <3>1, <3>2
    <3>4. Fine(n - 1) /\ f[n] = DropOne(f[n - 1])
      BY <2>4, <3>3
    <3>5. f[n - 1] # <<>>
      BY <1>1, <3>3, <3>4
    <3>6. Fine(n)
      BY <1>1, <3>3, <3>4, <3>5, DropOneFacts
    <3> QED
      BY <3>1, <3>6
  <2>6. Fine(excess)
    BY <2>3, <2>5
  <2> QED
    BY <1>1, <2>1, <2>6
<1> QED
  BY <1>1, <1>2, <1>3

-----------------------------------------------------------------------------
\* A slot holds the last value of its kind, and every other slot what it held.
LEMMA OverwrittenFacts ==
  ASSUME NEW latest, NEW kindOf, NEW event \in Nat,
         Slotted(latest, kindOf), event \in 1 .. Len(kindOf), Len(kindOf) \in Nat,
         kindOf[event] \in Slots
  PROVE  /\ Slotted(Overwritten(latest, event, kindOf), kindOf)
         /\ event \in ToSet(Overwritten(latest, event, kindOf))
         /\ ToSet(Overwritten(latest, event, kindOf)) \subseteq ToSet(latest) \cup {event}
         /\ \A n \in ToSet(latest) : \/ n \in ToSet(Overwritten(latest, event, kindOf))
                                     \/ kindOf[n] = kindOf[event]
<1> DEFINE r == Overwritten(latest, event, kindOf)
<1>1. latest \in Seq(Nat) /\ Len(latest) \in Nat /\ DOMAIN latest = 1 .. Len(latest)
  BY DEF Slotted
<1>2. CASE \E i \in 1 .. Len(latest) : kindOf[latest[i]] = kindOf[event]
  <2> DEFINE s == [i \in 1 .. Len(latest) |->
                      IF kindOf[latest[i]] = kindOf[event] THEN event ELSE latest[i]]
  <2>1. r = s
    BY <1>1, <1>2 DEF Overwritten
  <2>2. s \in Seq(Nat) /\ Len(s) = Len(latest) /\ DOMAIN s = 1 .. Len(latest)
    BY <1>1
  <2>3. \A i \in 1 .. Len(latest) :
           s[i] = IF kindOf[latest[i]] = kindOf[event] THEN event ELSE latest[i]
    OBVIOUS
  <2> HIDE DEF s, r
  <2>4. Slotted(s, kindOf)
    BY <1>1, <2>2, <2>3 DEF Slotted
  <2>5. event \in ToSet(s) /\ ToSet(s) \subseteq ToSet(latest) \cup {event}
    <3>1. PICK i \in 1 .. Len(latest) : kindOf[latest[i]] = kindOf[event]
      BY <1>2
    <3>2. s[i] = event
      BY <2>3, <3>1
    <3>3. event \in ToSet(s)
      BY <2>2, <3>2 DEF ToSet
    <3>4. ASSUME NEW j \in 1 .. Len(latest) PROVE s[j] \in ToSet(latest) \cup {event}
      BY <1>1, <2>3 DEF ToSet
    <3> QED
      BY <2>2, <3>3, <3>4 DEF ToSet
  <2>6. \A n \in ToSet(latest) : n \in ToSet(s) \/ kindOf[n] = kindOf[event]
    BY <1>1, <2>2, <2>3 DEF ToSet
  <2> QED
    BY <2>1, <2>4, <2>5, <2>6 DEF r
<1>3. CASE ~\E i \in 1 .. Len(latest) : kindOf[latest[i]] = kindOf[event]
  <2>1. r = Append(latest, event)
    BY <1>1, <1>3 DEF Overwritten
  <2>2. /\ r \in Seq(Nat) /\ Len(r) = Len(latest) + 1
        /\ \A i \in 1 .. Len(latest) : r[i] = latest[i]
        /\ r[Len(latest) + 1] = event
    BY <1>1, <2>1, AppendProperties
  <2> HIDE DEF r
  <2>3. DOMAIN r = 1 .. Len(latest) + 1
    BY <2>2
  <2>4. \A i \in 1 .. Len(r) : i \in 1 .. Len(latest) \/ i = Len(latest) + 1
    BY <1>1, <2>2
  <2>5. Slotted(r, kindOf)
    <3>1. ASSUME NEW i \in 1 .. Len(r)
          PROVE  r[i] \in 1 .. Len(kindOf) /\ kindOf[r[i]] \in Slots
      BY <1>1, <2>2, <2>4 DEF Slotted
    <3>2. ASSUME NEW i \in 1 .. Len(r), NEW j \in 1 .. Len(r), i # j
          PROVE  kindOf[r[i]] # kindOf[r[j]]
      <4>1. CASE i \in 1 .. Len(latest) /\ j \in 1 .. Len(latest)
        BY <1>1, <2>2, <3>2, <4>1 DEF Slotted
      <4>2. CASE i = Len(latest) + 1
        BY <1>1, <1>3, <2>2, <2>4, <3>2, <4>2
      <4>3. CASE j = Len(latest) + 1
        BY <1>1, <1>3, <2>2, <2>4, <3>2, <4>3
      <4> QED
        BY <2>4, <4>1, <4>2, <4>3
    <3> QED
      BY <2>2, <3>1, <3>2 DEF Slotted
  <2>6. event \in ToSet(r) /\ ToSet(r) \subseteq ToSet(latest) \cup {event} /\ ToSet(latest) \subseteq ToSet(r)
    BY <1>1, <2>2, <2>3 DEF ToSet
  <2> QED
    BY <2>5, <2>6 DEF r
<1> QED
  BY <1>2, <1>3

-----------------------------------------------------------------------------
\* What may be told in an order: a later event that is not newer follows a
\* slot of another kind.
InOrder(s, kindOf) ==
    \A i, j \in 1 .. Len(s) :
        i < j /\ s[i] >= s[j] => ~Discrete(kindOf[s[i]]) /\ kindOf[s[i]] # kindOf[s[j]]

\* A tape of past events, in such an order.
Recorded(s, kindOf) ==
    /\ s \in Seq(Nat)
    /\ \A i \in 1 .. Len(s) : s[i] \in 1 .. Len(kindOf)
    /\ InOrder(s, kindOf)

\* All of a tape is older than what waits.
Older(s, waiting) == \A i \in 1 .. Len(s) : \A j \in 1 .. Len(waiting) : s[i] < waiting[j]

LEMMA SlotsAreNotDiscrete ==
  ASSUME NEW kind \in Slots
  PROVE  ~Discrete(kind)
  BY WsOutputAssumption DEF Discrete

LEMMA BatchFacts ==
  ASSUME NEW o, Queued(o.queue, log), Slotted(o.latest, log)
  PROVE  /\ Recorded(Batch(o), log)
         /\ ToSet(Batch(o)) = ToSet(o.latest) \cup ToSet(o.queue)
         /\ \A s : Older(s, o.queue) /\ Older(s, o.latest) => Older(s, Batch(o))
<1> DEFINE b == Batch(o)
           l == Len(o.latest)
<1>1. /\ o.queue \in Seq(Nat) /\ o.latest \in Seq(Nat) /\ Len(o.queue) \in Nat /\ l \in Nat
      /\ DOMAIN o.queue = 1 .. Len(o.queue) /\ DOMAIN o.latest = 1 .. l
  BY DEF Queued, Slotted
<1>2. /\ b \in Seq(Nat) /\ Len(b) = l + Len(o.queue)
      /\ \A i \in 1 .. l + Len(o.queue) : b[i] = IF i <= l THEN o.latest[i] ELSE o.queue[i - l]
  BY <1>1, ConcatProperties DEF Batch
<1> HIDE DEF b, l
<1>3. DOMAIN b = 1 .. l + Len(o.queue)
  BY <1>2
<1>4. ASSUME NEW i \in 1 .. Len(b)
      PROVE  \/ i \in 1 .. l /\ b[i] = o.latest[i]
             \/ i > l /\ i - l \in 1 .. Len(o.queue) /\ b[i] = o.queue[i - l]
  BY <1>1, <1>2
<1>5. ASSUME NEW i \in 1 .. Len(b), NEW j \in 1 .. Len(b), i < j, b[i] >= b[j]
      PROVE  ~Discrete(log[b[i]]) /\ log[b[i]] # log[b[j]]
  <2>1. CASE i \in 1 .. l /\ b[i] = o.latest[i]
    <3>1. log[b[i]] \in Slots /\ ~Discrete(log[b[i]])
      BY <2>1, SlotsAreNotDiscrete DEF Slotted, l
    <3>2. CASE j \in 1 .. l /\ b[j] = o.latest[j]
      <4>1. i # j
        BY <1>5
      <4>2. log[o.latest[i]] # log[o.latest[j]]
        BY <2>1, <3>2, <4>1 DEF Slotted, l
      <4> QED
        BY <2>1, <3>1, <3>2, <4>2
    <3>3. CASE j > l /\ j - l \in 1 .. Len(o.queue) /\ b[j] = o.queue[j - l]
      BY <3>1, <3>3 DEF Queued
    <3> QED
      BY <1>4, <3>2, <3>3
  <2>2. CASE i > l /\ i - l \in 1 .. Len(o.queue) /\ b[i] = o.queue[i - l]
    <3>1. j > l /\ j - l \in 1 .. Len(o.queue) /\ b[j] = o.queue[j - l] /\ i - l < j - l
      BY <1>1, <1>2, <1>4, <1>5, <2>2
    <3>2. o.queue[i - l] < o.queue[j - l]
      BY <2>2, <3>1 DEF Queued
    <3>3. b[i] \in Nat /\ b[j] \in Nat
      BY <1>2
    <3> QED
      BY <1>5, <2>2, <3>1, <3>2, <3>3
  <2> QED
    BY <1>4, <2>1, <2>2
<1>6. \A i \in 1 .. Len(b) : b[i] \in 1 .. Len(log)
  BY <1>4 DEF Queued, Slotted, l
<1>7. Recorded(b, log)
  BY <1>2, <1>5, <1>6 DEF Recorded, InOrder
<1>8. ToSet(b) = ToSet(o.latest) \cup ToSet(o.queue)
  <2>1. ToSet(b) \subseteq ToSet(o.latest) \cup ToSet(o.queue)
    BY <1>1, <1>2, <1>3, <1>4 DEF ToSet
  <2>2. ToSet(o.latest) \subseteq ToSet(b)
    <3>1. ASSUME NEW i \in 1 .. l PROVE o.latest[i] \in ToSet(b)
      <4>1. i \in 1 .. l + Len(o.queue) /\ i <= l
        BY <1>1
      <4>2. b[i] = o.latest[i]
        BY <1>2, <4>1
      <4> QED
        BY <1>3, <4>1, <4>2 DEF ToSet
    <3> QED
      BY <1>1, <3>1 DEF ToSet
  <2>3. ASSUME NEW i \in 1 .. Len(o.queue) PROVE o.queue[i] \in ToSet(b)
    <3> DEFINE p == i + l
    <3>1. p \in 1 .. l + Len(o.queue) /\ ~(p <= l) /\ p - l = i
      BY <1>1
    <3> HIDE DEF p
    <3>2. b[p] = o.queue[i]
      BY <1>2, <3>1
    <3> QED
      BY <1>3, <3>1, <3>2 DEF ToSet
  <2>4. ToSet(o.queue) \subseteq ToSet(b)
    BY <1>1, <2>3 DEF ToSet
  <2> QED
    BY <2>1, <2>2, <2>4
<1>9. ASSUME NEW s, Older(s, o.queue), Older(s, o.latest) PROVE Older(s, b)
  BY <1>4, <1>9 DEF Older, l
<1> QED
  BY <1>7, <1>8, <1>9 DEF b

\* A beginning of a batch goes to the end of a tape.
LEMMA TakenFacts ==
  ASSUME NEW s, NEW b, NEW k \in 0 .. Len(b),
         Recorded(s, log), Recorded(b, log), Older(s, b)
  PROVE  /\ Recorded(s \o SubSeq(b, 1, k), log)
         /\ ToSet(s) \subseteq ToSet(s \o SubSeq(b, 1, k))
         /\ k = Len(b) => ToSet(b) \subseteq ToSet(s \o SubSeq(b, 1, k))
<1> DEFINE t == SubSeq(b, 1, k)
           r == s \o t
<1>1. /\ s \in Seq(Nat) /\ b \in Seq(Nat) /\ Len(s) \in Nat /\ Len(b) \in Nat /\ k \in Nat
      /\ DOMAIN s = 1 .. Len(s) /\ DOMAIN b = 1 .. Len(b)
  BY DEF Recorded
<1>2. /\ t \in Seq(Nat) /\ Len(t) = k /\ \A i \in 1 .. k : t[i] = b[i]
  <2>1. \A i \in 1 .. k : b[i] \in Nat
    BY <1>1
  <2>2. k \in Int /\ 1 \in Int /\ k - 1 + 1 = k /\ (1 <= k \/ k = 0) /\ \A i \in 1 .. k : 1 + i - 1 = i
    BY <1>1
  <2>3. /\ SubSeq(b, 1, k) \in Seq(Nat)
        /\ Len(SubSeq(b, 1, k)) = IF 1 <= k THEN k - 1 + 1 ELSE 0
        /\ \A i \in 1 .. k - 1 + 1 : SubSeq(b, 1, k)[i] = b[1 + i - 1]
    BY <2>1, <2>2, SubSeqProperties
  <2> QED
    BY <2>2, <2>3
<1> HIDE DEF t
<1>3. /\ r \in Seq(Nat) /\ Len(r) = Len(s) + k
      /\ \A i \in 1 .. Len(s) + k : r[i] = IF i <= Len(s) THEN s[i] ELSE t[i - Len(s)]
  BY <1>1, <1>2, ConcatProperties
<1> HIDE DEF r
<1>4. DOMAIN r = 1 .. Len(s) + k
  BY <1>3
<1>5. ASSUME NEW i \in 1 .. Len(r)
      PROVE  \/ i \in 1 .. Len(s) /\ r[i] = s[i]
             \/ i > Len(s) /\ i - Len(s) \in 1 .. Len(b) /\ r[i] = b[i - Len(s)]
  <2>1. CASE i <= Len(s)
    BY <1>1, <1>3, <2>1
  <2>2. CASE ~(i <= Len(s))
    <3>1. i - Len(s) \in 1 .. k /\ i - Len(s) \in 1 .. Len(b) /\ i > Len(s)
      BY <1>1, <1>3, <2>2
    <3> QED
      BY <1>2, <1>3, <2>2, <3>1
  <2> QED
    BY <2>1, <2>2
<1>6. ASSUME NEW i \in 1 .. Len(r), NEW j \in 1 .. Len(r), i < j, r[i] >= r[j]
      PROVE  ~Discrete(log[r[i]]) /\ log[r[i]] # log[r[j]]
  <2>1. CASE j \in 1 .. Len(s) /\ r[j] = s[j]
    <3>1. i \in 1 .. Len(s) /\ r[i] = s[i]
      BY <1>1, <1>3, <1>5, <1>6, <2>1
    <3> QED
      BY <1>6, <2>1, <3>1 DEF Recorded, InOrder
  <2>2. CASE j > Len(s) /\ j - Len(s) \in 1 .. Len(b) /\ r[j] = b[j - Len(s)]
    <3>1. CASE i \in 1 .. Len(s) /\ r[i] = s[i]
      <4>1. s[i] < b[j - Len(s)]
        BY <2>2, <3>1 DEF Older
      <4>2. r[i] \in Nat /\ r[j] \in Nat
        BY <1>3
      <4> QED
        BY <1>6, <2>2, <3>1, <4>1, <4>2
    <3>2. CASE i > Len(s) /\ i - Len(s) \in 1 .. Len(b) /\ r[i] = b[i - Len(s)]
      <4>1. i - Len(s) < j - Len(s)
        BY <1>1, <1>3, <1>6
      <4> QED
        BY <1>6, <2>2, <3>2, <4>1 DEF Recorded, InOrder
    <3> QED
      BY <1>5, <3>1, <3>2
  <2> QED
    BY <1>5, <2>1, <2>2
<1>7. \A i \in 1 .. Len(r) : r[i] \in 1 .. Len(log)
  BY <1>5 DEF Recorded
<1>8. Recorded(r, log)
  BY <1>3, <1>6, <1>7 DEF Recorded, InOrder
<1>9. ToSet(s) \subseteq ToSet(r)
  <2>1. ASSUME NEW i \in 1 .. Len(s) PROVE i \in DOMAIN r /\ r[i] = s[i]
    BY <1>1, <1>3, <1>4
  <2>2. DOMAIN s = 1 .. Len(s)
    BY <1>1
  <2> QED
    BY <2>1, <2>2 DEF ToSet
<1>10. ASSUME k = Len(b), NEW i \in 1 .. Len(b) PROVE b[i] \in ToSet(r)
  <2>1. i + Len(s) \in 1 .. Len(s) + k /\ ~(i + Len(s) <= Len(s)) /\ i + Len(s) - Len(s) = i
    BY <1>1, <1>10
  <2>2. r[i + Len(s)] = t[i + Len(s) - Len(s)]
    BY <1>3, <2>1
  <2>3. r[i + Len(s)] = b[i]
    BY <1>2, <1>10, <2>1, <2>2
  <2> QED
    BY <1>4, <2>1, <2>3 DEF ToSet
<1>11. k = Len(b) => ToSet(b) \subseteq ToSet(r)
  BY <1>1, <1>10 DEF ToSet
<1> QED
  BY <1>8, <1>9, <1>11 DEF r, t


-----------------------------------------------------------------------------
\* An event that kept its place in the account of a connection.
Accounted(c, n) ==
    \/ n \in ToSet(tape[c])
    \/ n \in pruned
    \/ n \in ToSet(out.latest) \cup ToSet(out.queue)
    \/ Superseded(n)

\* Nothing that a client should see is anywhere else.
Reached ==
    ~out.closed =>
        \A c \in clients \ missed :
            Open(c) => \A n \in since[c] + 1 .. Len(log) : Accounted(c, n)

\* Every tape is in order, and all of it older than what waits.
Taped ==
    \A c \in Clients : /\ Recorded(tape[c], log)
                       /\ Older(tape[c], out.queue)
                       /\ Older(tape[c], out.latest)

\* What waits has its flush.
FlushIsDue == ~out.scheduled \/ out.closed => out.queue = <<>> /\ out.latest = <<>>

WsTyped ==
    /\ log \in Seq(Kinds) /\ Len(log) <= MaxEvents
    /\ out \in [queue : Seq(Nat), latest : Seq(Nat), scheduled : BOOLEAN, closed : BOOLEAN]
    /\ clients \subseteq Clients
    /\ socket \in [Clients -> {"none", "open", "closing"}]
    /\ tape \in [Clients -> Seq(Nat)]
    /\ since \in [Clients -> Nat]

WsInv ==
    /\ WsTyped
    /\ Queued(out.queue, log) /\ Len(out.queue) <= Depth
    /\ Slotted(out.latest, log)
    /\ FlushIsDue /\ Taped /\ Reached

LEMMA EmptyFacts ==
  ASSUME NEW kindOf
  PROVE  /\ Queued(<<>>, kindOf) /\ Slotted(<<>>, kindOf) /\ Recorded(<<>>, kindOf)
         /\ ToSet(<<>>) = {} /\ \A s : Older(<<>>, s) /\ Older(s, <<>>)
<1>1. <<>> \in Seq(Nat) /\ Len(<<>>) = 0 /\ 1 .. 0 = {} /\ DOMAIN <<>> = 1 .. 0
  BY EmptySeq
<1> QED
  BY <1>1 DEF Queued, Slotted, Recorded, InOrder, Older, ToSet

\* One more broadcast leaves the earlier ones what they were.
LEMMA GrownFacts ==
  ASSUME NEW kind \in Kinds, log \in Seq(Kinds)
  PROVE  /\ Append(log, kind) \in Seq(Kinds)
         /\ Len(Append(log, kind)) = Len(log) + 1
         /\ Append(log, kind)[Len(log) + 1] = kind
         /\ \A n \in 1 .. Len(log) : Append(log, kind)[n] = log[n]
         /\ Len(log) \in Nat
         /\ \A n \in 1 .. Len(log) : n \in 1 .. Len(log) + 1
  BY AppendProperties, LenProperties

LEMMA GrownSequences ==
  ASSUME NEW kind \in Kinds, log \in Seq(Kinds), NEW s
  PROVE  /\ Queued(s, log) => Queued(s, Append(log, kind))
         /\ Slotted(s, log) => Slotted(s, Append(log, kind))
         /\ Recorded(s, log) => Recorded(s, Append(log, kind))
<1>1. Queued(s, log) => Queued(s, Append(log, kind))
  BY GrownFacts DEF Queued
<1>2. Slotted(s, log) => Slotted(s, Append(log, kind))
  BY GrownFacts DEF Slotted
<1>3. Recorded(s, log) => Recorded(s, Append(log, kind))
  BY GrownFacts DEF Recorded, InOrder
<1> QED
  BY <1>1, <1>2, <1>3

LEMMA WsInitInv == WsInit => WsInv
<1> SUFFICES ASSUME WsInit PROVE WsInv
  OBVIOUS
<1>1. <<>> \in Seq(Kinds) /\ <<>> \in Seq(Nat) /\ Len(<<>>) = 0
  BY EmptySeq
<1>2. WsTyped
  BY <1>1, WsOutputAssumption DEF WsInit, WsTyped
<1>3. Len(out.queue) <= Depth
  BY <1>1, WsOutputAssumption DEF WsInit
<1> QED
  BY <1>2, <1>3, EmptyFacts DEF WsInit, WsInv, FlushIsDue, Taped, Reached

-----------------------------------------------------------------------------
LEMMA BroadcastKeeps ==
  ASSUME WsInv, NEW kind \in Kinds, NEW depth \in {Depth, LagDepth}, Broadcast(kind, depth)
  PROVE  WsInv'
<1> DEFINE event == Len(log) + 1
           cut == Trimmed(out.queue, depth)
<1>1. /\ log' = Append(log, kind) /\ Len(log) < MaxEvents /\ ~out.closed
      /\ clients' = clients /\ socket' = socket /\ tape' = tape /\ since' = since /\ missed' = missed
  BY DEF Broadcast
<1>2. /\ log' \in Seq(Kinds) /\ Len(log') = event /\ log'[event] = kind
      /\ \A n \in 1 .. Len(log) : log'[n] = log[n]
      /\ Len(log) \in Nat /\ event \in Nat /\ event \in 1 .. Len(log')
      /\ \A n \in 1 .. Len(log') : n \in 1 .. Len(log) \/ n = event
  <2>1. /\ log' \in Seq(Kinds) /\ Len(log') = event /\ log'[event] = kind
        /\ \A n \in 1 .. Len(log) : log'[n] = log[n]
        /\ Len(log) \in Nat
    BY <1>1, GrownFacts DEF WsInv, WsTyped
  <2> QED
    BY <2>1
<1>3. \A c \in Clients : Recorded(tape'[c], log')
  BY <1>1, GrownSequences DEF WsInv, WsTyped, Taped
<1>4. ASSUME NEW c \in Clients, NEW i \in 1 .. Len(tape[c]) PROVE tape[c][i] < event
  BY <1>2 DEF WsInv, Taped, Recorded
<1>5. \A n \in 1 .. Len(log) : Superseded(n) => Superseded(n)'
  BY <1>2 DEF Superseded
<1>6. /\ out.queue \in Seq(Nat) /\ out.latest \in Seq(Nat)
      /\ out \in [queue : Seq(Nat), latest : Seq(Nat), scheduled : BOOLEAN, closed : BOOLEAN]
  BY DEF WsInv, WsTyped
<1>7. ASSUME NEW c \in clients' \ missed', Open(c)', ~out.closed',
             NEW n \in since'[c] + 1 .. Len(log'), n # event
      PROVE  Accounted(c, n) /\ n \in 1 .. Len(log)
  <2>1. c \in clients \ missed /\ Open(c) /\ since[c] \in Nat /\ since'[c] = since[c] /\ c \in Clients
    BY <1>1, <1>7 DEF Open, WsInv, WsTyped
  <2>2. n \in since[c] + 1 .. Len(log) /\ n \in 1 .. Len(log)
    BY <1>2, <1>7, <2>1
  <2> QED
    BY <1>1, <2>1, <2>2 DEF WsInv, Reached
<1>8. CASE kind \in Slots
  <2> DEFINE latest == Overwritten(out.latest, event, log')
  <2>1. /\ out'.latest = latest /\ out'.queue = out.queue /\ out'.scheduled = TRUE
        /\ out'.closed = out.closed /\ pruned' = pruned
        /\ out' = [out EXCEPT !.scheduled = TRUE, !.latest = latest]
    BY <1>6, <1>8 DEF Broadcast
  <2>2. Queued(out.queue, log') /\ Slotted(out.latest, log')
    BY <1>1, GrownSequences DEF WsInv, WsTyped
  <2>3. /\ Slotted(latest, log') /\ event \in ToSet(latest)
        /\ ToSet(latest) \subseteq ToSet(out.latest) \cup {event}
        /\ \A n \in ToSet(out.latest) : n \in ToSet(latest) \/ log'[n] = kind
    BY <1>2, <1>8, <2>2, OverwrittenFacts
  <2> HIDE DEF latest
  <2>4. WsTyped'
    <3>1. out' \in [queue : Seq(Nat), latest : Seq(Nat), scheduled : BOOLEAN, closed : BOOLEAN]
      BY <1>6, <2>1, <2>3 DEF Slotted
    <3>2. Len(log') <= MaxEvents
      BY <1>1, <1>2, WsOutputAssumption
    <3> QED
      BY <1>1, <1>2, <3>1, <3>2 DEF WsInv, WsTyped
  <2>5. Taped'
    <3> SUFFICES ASSUME NEW c \in Clients PROVE Older(tape[c], out.queue) /\ Older(tape[c], latest)
      BY <1>1, <1>3, <2>1 DEF Taped
    <3>1. Older(tape[c], out.queue) /\ Older(tape[c], out.latest)
      BY DEF WsInv, Taped
    <3>2. ASSUME NEW i \in 1 .. Len(tape[c]), NEW j \in 1 .. Len(latest)
          PROVE  tape[c][i] < latest[j]
      <4>1. latest[j] \in ToSet(latest)
        BY <2>3 DEF ToSet, Slotted
      <4>2. CASE latest[j] = event
        BY <1>4, <4>2
      <4>3. CASE latest[j] \in ToSet(out.latest)
        <5>1. \E p \in 1 .. Len(out.latest) : latest[j] = out.latest[p]
          <6>1. DOMAIN out.latest = 1 .. Len(out.latest)
            BY <1>6
          <6> QED
            BY <4>3, <6>1 DEF ToSet
        <5> QED
          BY <3>1, <5>1 DEF Older
      <4> QED
        BY <2>3, <4>1, <4>2, <4>3
    <3> QED
      BY <3>1, <3>2 DEF Older
  <2>6. Reached'
    <3> SUFFICES ASSUME NEW c \in clients' \ missed', Open(c)', ~out.closed',
                        NEW n \in since'[c] + 1 .. Len(log')
                 PROVE  Accounted(c, n)'
      BY DEF Reached
    <3>1. CASE n = event
      BY <2>1, <2>3, <3>1 DEF Accounted
    <3>2. CASE n # event
      <4>1. Accounted(c, n) /\ n \in 1 .. Len(log)
        BY <1>7, <3>2
      <4>2. CASE n \in ToSet(out.latest) /\ log'[n] = kind
        <5>1. event \in n + 1 .. Len(log') /\ ~Discrete(log'[n]) /\ log'[event] = log'[n]
          BY <1>2, <1>8, <4>1, <4>2, SlotsAreNotDiscrete
        <5> QED
          BY <5>1 DEF Accounted, Superseded
      <4>3. CASE ~(n \in ToSet(out.latest) /\ log'[n] = kind)
        BY <1>1, <1>5, <2>1, <2>3, <4>1, <4>3 DEF Accounted
      <4> QED
        BY <4>2, <4>3
    <3> QED
      BY <3>1, <3>2
  <2>7. Len(out'.queue) <= Depth
    BY <2>1 DEF WsInv
  <2> QED
    BY <1>1, <2>1, <2>2, <2>3, <2>4, <2>5, <2>6, <2>7 DEF WsInv, FlushIsDue
<1>9. CASE kind \notin Slots
  <2> DEFINE queue == Append(cut, event)
  <2>1. /\ out'.queue = queue /\ out'.latest = out.latest /\ out'.scheduled = TRUE
        /\ out'.closed = out.closed
        /\ out' = [out EXCEPT !.scheduled = TRUE, !.queue = queue]
        /\ pruned' = pruned \cup (ToSet(out.queue) \ ToSet(cut))
    BY <1>6, <1>9 DEF Broadcast
  <2>2. depth \in Nat \ {0} /\ depth <= Depth /\ Depth \in Nat
    BY WsOutputAssumption
  <2>3. Queued(cut, log) /\ Len(cut) < depth /\ ToSet(cut) \subseteq ToSet(out.queue)
    BY <2>2, TrimmedFacts DEF WsInv
  <2> HIDE DEF cut
  <2>4. cut \in Seq(Nat) /\ Len(cut) \in Nat /\ DOMAIN cut = 1 .. Len(cut)
    BY <2>3 DEF Queued
  <2>5. /\ queue \in Seq(Nat) /\ Len(queue) = Len(cut) + 1
        /\ queue[Len(cut) + 1] = event
        /\ \A i \in 1 .. Len(cut) : queue[i] = cut[i]
    BY <1>2, <2>4, AppendProperties
  <2> HIDE DEF queue
  <2>6. \A i \in 1 .. Len(queue) : i \in 1 .. Len(cut) \/ i = Len(cut) + 1
    BY <2>4, <2>5
  <2>7. Discrete(kind)
    BY <1>9 DEF Kinds, Discrete
  <2>8. Queued(cut, log') /\ Slotted(out.latest, log')
    BY <1>1, <2>3, GrownSequences DEF WsInv, WsTyped
  <2>9. Queued(queue, log')
    <3>1. \A i \in 1 .. Len(cut) : cut[i] < event
      BY <1>2, <2>3 DEF Queued
    <3>2. ASSUME NEW i \in 1 .. Len(queue), NEW j \in 1 .. Len(queue), i < j
          PROVE  queue[i] < queue[j]
      <4>1. i \in 1 .. Len(cut)
        BY <2>4, <2>5, <2>6, <3>2
      <4>2. CASE j = Len(cut) + 1
        BY <2>5, <3>1, <4>1, <4>2
      <4>3. CASE j \in 1 .. Len(cut)
        BY <2>5, <2>8, <3>2, <4>1, <4>3 DEF Queued
      <4> QED
        BY <2>6, <4>2, <4>3
    <3>3. \A i \in 1 .. Len(queue) : queue[i] \in 1 .. Len(log') /\ Discrete(log'[queue[i]])
      BY <1>2, <2>5, <2>6, <2>7, <2>8 DEF Queued
    <3> QED
      BY <2>5, <3>2, <3>3 DEF Queued
  <2>10. WsTyped'
    <3>1. out' \in [queue : Seq(Nat), latest : Seq(Nat), scheduled : BOOLEAN, closed : BOOLEAN]
      BY <1>6, <2>1, <2>5
    <3>2. Len(log') <= MaxEvents
      BY <1>1, <1>2, WsOutputAssumption
    <3> QED
      BY <1>1, <1>2, <3>1, <3>2 DEF WsInv, WsTyped
  <2>11. ToSet(cut) \subseteq ToSet(queue) /\ event \in ToSet(queue)
    <3>1. DOMAIN queue = 1 .. Len(cut) + 1
      BY <2>5
    <3> QED
      BY <2>4, <2>5, <3>1 DEF ToSet
  <2>12. Taped'
    <3> SUFFICES ASSUME NEW c \in Clients PROVE Older(tape[c], queue) /\ Older(tape[c], out.latest)
      BY <1>1, <1>3, <2>1 DEF Taped
    <3>1. Older(tape[c], out.queue) /\ Older(tape[c], out.latest)
      BY DEF WsInv, Taped
    <3>2. ASSUME NEW i \in 1 .. Len(tape[c]), NEW j \in 1 .. Len(queue)
          PROVE  tape[c][i] < queue[j]
      <4>1. CASE j = Len(cut) + 1
        BY <1>4, <2>5, <4>1
      <4>2. CASE j \in 1 .. Len(cut)
        <5>1. queue[j] \in ToSet(out.queue)
          <6>1. cut[j] \in ToSet(cut)
            BY <2>4, <4>2 DEF ToSet
          <6> QED
            BY <2>3, <2>5, <4>2, <6>1
        <5>2. \E p \in 1 .. Len(out.queue) : queue[j] = out.queue[p]
          <6>1. DOMAIN out.queue = 1 .. Len(out.queue)
            BY <1>6
          <6> QED
            BY <5>1, <6>1 DEF ToSet
        <5> QED
          BY <3>1, <5>2 DEF Older
      <4> QED
        BY <2>6, <4>1, <4>2
    <3> QED
      BY <3>1, <3>2 DEF Older
  <2>13. Reached'
    <3> SUFFICES ASSUME NEW c \in clients' \ missed', Open(c)', ~out.closed',
                        NEW n \in since'[c] + 1 .. Len(log')
                 PROVE  Accounted(c, n)'
      BY DEF Reached
    <3>1. CASE n = event
      BY <2>1, <2>11, <3>1 DEF Accounted
    <3>2. CASE n # event
      <4>1. Accounted(c, n) /\ n \in 1 .. Len(log)
        BY <1>7, <3>2
      <4> QED
        BY <1>1, <1>5, <2>1, <2>11, <4>1 DEF Accounted
    <3> QED
      BY <3>1, <3>2
  <2>14. Len(out'.queue) <= Depth
    BY <2>1, <2>2, <2>3, <2>4, <2>5
  <2> QED
    BY <1>1, <2>1, <2>8, <2>9, <2>10, <2>12, <2>13, <2>14 DEF WsInv, FlushIsDue
<1> QED
  BY <1>8, <1>9

LEMMA FlushKeeps ==
  ASSUME WsInv, Flush
  PROVE  WsInv'
<1>1. /\ out.scheduled
      /\ socket' = socket /\ log' = log /\ pruned' = pruned /\ since' = since
      /\ out \in [queue : Seq(Nat), latest : Seq(Nat), scheduled : BOOLEAN, closed : BOOLEAN]
  BY DEF Flush, WsInv, WsTyped
<1>2. CASE out.closed
  <2>1. /\ out' = [out EXCEPT !.scheduled = FALSE]
        /\ clients' = clients /\ tape' = tape /\ missed' = missed
    BY <1>2 DEF Flush
  <2>2. /\ out'.queue = out.queue /\ out'.latest = out.latest /\ out'.closed
        /\ out' \in [queue : Seq(Nat), latest : Seq(Nat), scheduled : BOOLEAN, closed : BOOLEAN]
    BY <1>1, <1>2, <2>1
  <2> QED
    BY <1>1, <1>2, <2>1, <2>2 DEF WsInv, WsTyped, FlushIsDue, Taped, Reached
<1>3. CASE ~out.closed
  <2> DEFINE b == Batch(out)
  <2>1. PICK taken \in [Clients -> 0 .. Len(b)] :
          \E failing \in SUBSET {c \in clients : taken[c] < Len(b)} :
            /\ \A c \in Clients : c \notin clients \/ ~Open(c) => taken[c] = 0
            /\ out' = Drained(out)
            /\ tape' = [c \in Clients |-> tape[c] \o SubSeq(b, 1, taken[c])]
            /\ missed' = missed \cup {c \in clients : taken[c] < Len(b)}
            /\ clients' = IF b = <<>> THEN clients
                          ELSE {c \in clients : Open(c)} \ failing
    BY <1>3 DEF Flush
  <2>2. /\ out'.queue = <<>> /\ out'.latest = <<>> /\ out'.closed = FALSE
        /\ out' \in [queue : Seq(Nat), latest : Seq(Nat), scheduled : BOOLEAN, closed : BOOLEAN]
    BY <1>1, <1>3, <2>1, EmptySeq DEF Drained
  <2>3. clients' \subseteq clients
    BY <2>1
  <2>4. /\ Recorded(b, log) /\ ToSet(b) = ToSet(out.latest) \cup ToSet(out.queue)
        /\ \A c \in Clients : Older(tape[c], b)
    BY BatchFacts DEF WsInv, Taped
  <2> HIDE DEF b
  <2>5. Len(b) \in Nat
    BY <2>4 DEF Recorded
  <2>6. ASSUME NEW c \in Clients
        PROVE  /\ Recorded(tape'[c], log) /\ ToSet(tape[c]) \subseteq ToSet(tape'[c])
               /\ taken[c] = Len(b) => ToSet(b) \subseteq ToSet(tape'[c])
    <3>1. taken[c] \in 0 .. Len(b) /\ tape'[c] = tape[c] \o SubSeq(b, 1, taken[c])
      BY <2>1
    <3>2. Recorded(tape[c], log) /\ Older(tape[c], b)
      BY <2>4 DEF WsInv, Taped
    <3> QED
      BY <2>4, <3>1, <3>2, TakenFacts
  <2>7. tape' \in [Clients -> Seq(Nat)]
    <3>1. tape' = [c \in Clients |-> tape'[c]]
      BY <2>1
    <3> QED
      BY <2>6, <3>1 DEF Recorded
  <2>8. WsTyped'
    BY <1>1, <2>2, <2>3, <2>7 DEF WsInv, WsTyped
  <2>9. Taped'
    BY <1>1, <2>2, <2>6, EmptyFacts DEF Taped
  <2>10. Reached'
    <3> SUFFICES ASSUME NEW c \in clients' \ missed', Open(c)', ~out.closed',
                        NEW n \in since'[c] + 1 .. Len(log')
                 PROVE  Accounted(c, n)'
      BY DEF Reached
    <3>1. c \in clients \ missed /\ Open(c) /\ n \in since[c] + 1 .. Len(log) /\ c \in Clients
      BY <1>1, <2>1, <2>3 DEF Open, WsInv, WsTyped
    <3>2. Accounted(c, n)
      BY <1>3, <3>1 DEF WsInv, Reached
    <3>3. taken[c] = Len(b)
      BY <2>1, <2>5, <3>1
    <3>4. Superseded(n) => Superseded(n)'
      BY <1>1 DEF Superseded
    <3> QED
      BY <1>1, <2>4, <2>6, <3>1, <3>2, <3>3, <3>4 DEF Accounted
  <2>11. Len(out'.queue) <= Depth
    BY <2>2, WsOutputAssumption, EmptySeq
  <2> QED
    BY <1>1, <2>2, <2>8, <2>9, <2>10, <2>11, EmptyFacts DEF WsInv, FlushIsDue
<1> QED
  BY <1>2, <1>3

\* A connection that comes, breaks or goes.
LEMMA SocketKeeps ==
  ASSUME WsInv, NEW c \in Clients, HandleConnection(c) \/ Hangup(c) \/ Gone(c)
  PROVE  WsInv'
<1>1. out' = out /\ log' = log /\ pruned' = pruned
  BY DEF HandleConnection, Hangup, Gone, history
<1>2. /\ WsTyped /\ Len(log) \in Nat /\ <<>> \in Seq(Nat)
  BY EmptySeq DEF WsInv, WsTyped
<1>3. \A d, n : tape'[d] = tape[d] /\ Accounted(d, n) => Accounted(d, n)'
  BY <1>1 DEF Accounted, Superseded
<1>4. CASE HandleConnection(c)
  <2>1. WsTyped' /\ tape' = tape
    BY <1>1, <1>2, <1>4 DEF HandleConnection, WsTyped
  <2>2. Reached'
    <3> SUFFICES ASSUME NEW d \in clients' \ missed', Open(d)', ~out.closed',
                        NEW n \in since'[d] + 1 .. Len(log')
                 PROVE  Accounted(d, n)'
      BY DEF Reached
    <3>1. d # c
      BY <1>1, <1>2, <1>4 DEF HandleConnection, WsTyped
    <3>2. d \in clients \ missed /\ Open(d) /\ n \in since[d] + 1 .. Len(log)
      BY <1>1, <1>2, <1>4, <3>1 DEF HandleConnection, WsTyped, Open
    <3> QED
      BY <1>1, <1>3, <2>1, <3>2 DEF WsInv, Reached
  <2> QED
    BY <1>1, <2>1, <2>2 DEF WsInv, FlushIsDue, Taped
<1>5. CASE Hangup(c)
  <2>1. WsTyped' /\ tape' = tape
    BY <1>1, <1>2, <1>5 DEF Hangup, WsTyped, history
  <2>2. Reached'
    <3> SUFFICES ASSUME NEW d \in clients' \ missed', Open(d)', ~out.closed',
                        NEW n \in since'[d] + 1 .. Len(log')
                 PROVE  Accounted(d, n)'
      BY DEF Reached
    <3>1. d \in clients \ missed /\ Open(d) /\ n \in since[d] + 1 .. Len(log)
      BY <1>1, <1>2, <1>5 DEF Hangup, WsTyped, Open, history
    <3> QED
      BY <1>1, <1>3, <2>1, <3>1 DEF WsInv, Reached
  <2> QED
    BY <1>1, <2>1, <2>2 DEF WsInv, FlushIsDue, Taped
<1>6. CASE Gone(c)
  <2>1. WsTyped' /\ tape'[c] = <<>> /\ \A d \in Clients : d # c => tape'[d] = tape[d]
    BY <1>1, <1>2, <1>6 DEF Gone, WsTyped
  <2>2. Reached'
    <3> SUFFICES ASSUME NEW d \in clients' \ missed', Open(d)', ~out.closed',
                        NEW n \in since'[d] + 1 .. Len(log')
                 PROVE  Accounted(d, n)'
      BY DEF Reached
    <3>1. d # c /\ d \in Clients
      BY <1>2, <1>6 DEF Gone, WsTyped
    <3>2. d \in clients \ missed /\ Open(d) /\ n \in since[d] + 1 .. Len(log)
      BY <1>1, <1>2, <1>6, <3>1 DEF Gone, WsTyped, Open
    <3> QED
      BY <1>1, <1>3, <2>1, <3>1, <3>2 DEF WsInv, Reached
  <2>3. Taped'
    <3> SUFFICES ASSUME NEW d \in Clients
                 PROVE  /\ Recorded(tape'[d], log) /\ Older(tape'[d], out.queue)
                        /\ Older(tape'[d], out.latest)
      BY <1>1 DEF Taped
    <3> QED
      BY <2>1, EmptyFacts DEF WsInv, Taped
  <2> QED
    BY <1>1, <2>1, <2>2, <2>3 DEF WsInv, FlushIsDue
<1> QED
  BY <1>4, <1>5, <1>6

LEMMA CloseServerKeeps ==
  ASSUME WsInv, CloseServer
  PROVE  WsInv'
<1>1. /\ out' = [out EXCEPT !.closed = TRUE, !.queue = <<>>, !.latest = <<>>]
      /\ socket' = [c \in Clients |-> IF c \in clients /\ Open(c) THEN "closing" ELSE socket[c]]
      /\ clients' = clients /\ log' = log /\ tape' = tape /\ since' = since
  BY DEF CloseServer, history
<1>2. /\ out' \in [queue : Seq(Nat), latest : Seq(Nat), scheduled : BOOLEAN, closed : BOOLEAN]
      /\ out'.queue = <<>> /\ out'.latest = <<>> /\ out'.closed
  BY <1>1, EmptySeq DEF WsInv, WsTyped
<1>3. WsTyped'
  BY <1>1, <1>2 DEF WsInv, WsTyped
<1>4. Taped'
  BY <1>1, <1>2, EmptyFacts DEF WsInv, Taped
<1>5. Reached' /\ FlushIsDue'
  BY <1>2 DEF Reached, FlushIsDue
<1>6. Len(out'.queue) <= Depth
  BY <1>2, WsOutputAssumption, EmptySeq
<1> QED
  BY <1>2, <1>3, <1>4, <1>5, <1>6, EmptyFacts DEF WsInv

LEMMA WsStepInv == WsInv /\ [WsNext]_wsVars => WsInv'
<1> SUFFICES ASSUME WsInv, [WsNext]_wsVars PROVE WsInv'
  OBVIOUS
<1>1. ASSUME NEW kind \in Kinds, NEW depth \in {Depth, LagDepth}, Broadcast(kind, depth)
      PROVE  WsInv'
  BY <1>1, BroadcastKeeps
<1>2. CASE Flush
  BY <1>2, FlushKeeps
<1>3. CASE CloseServer
  BY <1>3, CloseServerKeeps
<1>4. ASSUME NEW c \in Clients, HandleConnection(c) \/ Hangup(c) \/ Gone(c) PROVE WsInv'
  BY <1>4, SocketKeeps
<1>5. CASE UNCHANGED wsVars
  BY <1>5 DEF wsVars, WsInv, WsTyped, FlushIsDue, Taped, Reached, Accounted, Superseded, Open
<1> QED
  BY <1>1, <1>2, <1>3, <1>4, <1>5 DEF WsNext

LEMMA WsInductive == WsSpec => []WsInv
  BY WsInitInv, WsStepInv, PTL DEF WsSpec

-----------------------------------------------------------------------------
(* Every browser is told things in an order that cannot deceive it: what   *)
(* comes before a newer event is that event's elder, or a slot of another  *)
(* kind that was flushed ahead of the queue (_flushOnce, enqueueLatest).   *)
THEOREM NothingIsStale == WsSpec => []NothingStale
<1>1. ASSUME WsInv PROVE NothingStale
  <2> SUFFICES ASSUME NEW c \in Clients, NEW i \in DOMAIN tape[c], NEW j \in DOMAIN tape[c],
                      i < j, tape[c][i] >= tape[c][j]
               PROVE  ~Discrete(log[tape[c][i]]) /\ log[tape[c][i]] # log[tape[c][j]]
    BY DEF NothingStale
  <2>1. Recorded(tape[c], log)
    BY <1>1 DEF WsInv, Taped
  <2>2. DOMAIN tape[c] = 1 .. Len(tape[c])
    BY <2>1 DEF Recorded
  <2> QED
    BY <2>1, <2>2 DEF Recorded, InOrder
<1> QED
  BY <1>1, WsInductive, PTL

(* A browser that keeps up misses nothing: whatever was broadcast since it *)
(* connected is on its tape, superseded by a newer value, or was given up  *)
(* by _dropOneUnderPressure.                                               *)
THEOREM ClientsKeepUp == WsSpec => []KeptInStep
<1>1. ASSUME WsInv PROVE KeptInStep
  <2> SUFFICES ASSUME ~out.scheduled, ~out.closed, NEW c \in clients \ missed, Open(c),
                      NEW n \in since[c] + 1 .. Len(log)
               PROVE  n \in ToSet(tape[c]) \/ n \in pruned \/ Superseded(n)
    BY DEF KeptInStep
  <2>1. Accounted(c, n)
    BY <1>1 DEF WsInv, Reached
  <2>2. out.queue = <<>> /\ out.latest = <<>>
    BY <1>1 DEF WsInv, FlushIsDue
  <2> QED
    BY <2>1, <2>2, EmptyFacts DEF Accounted
<1> QED
  BY <1>1, WsInductive, PTL

(* The memory of the queue is bounded, whatever the clients do: by its     *)
(* depth and by one slot for each kind.                                    *)
THEOREM WsTypeCorrect == WsSpec => []WsTypeOK
<1>1. ASSUME WsInv PROVE WsTypeOK
  <2>1. /\ Len(log) \in Nat /\ Len(log) <= MaxEvents /\ MaxEvents \in Nat
        /\ out.queue \in Seq(Nat) /\ out.latest \in Seq(Nat)
    BY <1>1, WsOutputAssumption DEF WsInv, WsTyped
  <2>2. \A i \in 1 .. Len(out.queue) : out.queue[i] \in 1 .. MaxEvents
    BY <1>1, <2>1 DEF WsInv, Queued
  <2>3. \A i \in 1 .. Len(out.latest) : out.latest[i] \in 1 .. MaxEvents
    BY <1>1, <2>1 DEF WsInv, Slotted
  <2>4. out.queue \in Seq(1 .. MaxEvents) /\ out.latest \in Seq(1 .. MaxEvents)
    <3>1. ASSUME NEW s \in Seq(Nat), \A i \in 1 .. Len(s) : s[i] \in 1 .. MaxEvents
          PROVE  s \in Seq(1 .. MaxEvents)
      <4> DEFINE T == 1 .. MaxEvents
      <4>1. Len(s) \in Nat /\ s \in [1 .. Len(s) -> T]
        BY <3>1, LenProperties
      <4> HIDE DEF T
      <4>2. s \in Seq(T)
        BY <4>1
      <4> QED
        BY <4>2 DEF T
    <3> QED
      BY <2>1, <2>2, <2>3, <3>1
  <2>5. out \in [queue : Seq(1 .. MaxEvents), latest : Seq(1 .. MaxEvents),
                 scheduled : BOOLEAN, closed : BOOLEAN]
    BY <1>1, <2>4 DEF WsInv, WsTyped
  <2>6. Len(out.latest) <= Cardinality(Slots)
    <3> DEFINE f == [i \in 1 .. Len(out.latest) |-> log[out.latest[i]]]
    <3>1. f \in Injection(1 .. Len(out.latest), Slots)
      BY <1>1 DEF WsInv, Slotted, Injection, IsInjective
    <3>2. Len(out.latest) \in Nat
      BY <2>1
    <3>3. Cardinality(1 .. Len(out.latest)) = Len(out.latest)
      BY <3>2, FS_Interval
    <3> HIDE DEF f
    <3>4. Cardinality(1 .. Len(out.latest)) <= Cardinality(Slots)
      BY <3>1, FS_Injection, WsOutputAssumption
    <3> QED
      BY <3>3, <3>4
  <2> QED
    BY <1>1, <2>5, <2>6 DEF WsInv, WsTyped, WsTypeOK
<1> QED
  BY <1>1, WsInductive, PTL
=============================================================================
