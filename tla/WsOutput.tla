-------------------------------- MODULE WsOutput --------------------------------
(***************************************************************************)
(* WsOutputQueue and the clients of WebSocketServer.  A broadcast is either *)
(* coalesced, the last value of its kind waiting in a slot, or discrete and *)
(* queued, under a depth that shrinks while the event loop lags.  One flush *)
(* is scheduled at a time; it sends the slots first and the queue then.     *)
(*                                                                         *)
(* An event is the number of its broadcast.  Inside a flush nothing drains  *)
(* a socket, so that a client above its watermark gets no more of it: what  *)
(* a client takes of a flush is a beginning of it.                          *)
(***************************************************************************)
EXTENDS Integers, Sequences, SequencesExt, FiniteSets

CONSTANTS
    Clients,    \* sockets a browser may open
    Slots,      \* the kinds of COALESCABLE_EVENTS
    Depth,      \* _maxDepth
    LagDepth,   \* the depth while the event loop lags
    MaxClients, \* MAX_WS_CLIENTS
    MaxEvents   \* bound: broadcasts

ASSUME WsOutputAssumption ==
    /\ LagDepth \in Nat \ {0} /\ Depth \in Nat /\ LagDepth <= Depth
    /\ IsFiniteSet(Slots)
    /\ MaxClients \in Nat /\ MaxEvents \in Nat
    /\ Slots \cap {"critical", "informational"} = {}

VARIABLES
    out,       \* _queue, _latest, _flushScheduled, _closed
    clients,   \* WebSocketServer.clients
    socket,    \* readyState of each socket
    log,       \* history: the kinds of the broadcasts, by number
    pruned,    \* history: the discrete events dropped for depth
    tape,      \* history: what each connection was sent, in order
    since,     \* history: the broadcasts made before each connection
    missed     \* history: connections that were too slow for some event

wsVars == <<out, clients, socket, log, pruned, tape, since, missed>>
history == <<log, pruned, tape, since, missed>>

Kinds == Slots \cup {"critical", "informational"}

-----------------------------------------------------------------------------
\* _dropOneUnderPressure: the oldest informational event, else the oldest.
Sacrificed(queue) ==
    LET informational == {i \in DOMAIN queue : log[queue[i]] = "informational"}
    IN  IF informational = {} THEN 1
        ELSE CHOOSE i \in informational : \A j \in informational : i <= j

DropOne(queue) == RemoveAt(queue, Sacrificed(queue))

\* The while loop of enqueue.
Trimmed(queue, depth) ==
    LET excess == Len(queue) - depth + 1
        after[n \in 0 .. excess] == IF n = 0 THEN queue ELSE DropOne(after[n - 1])
    IN  IF excess <= 0 THEN queue ELSE after[excess]

KeepsFirst(latest, event, kindOf) == \* mutant: a slot keeps the value it has
    IF \E i \in DOMAIN latest : kindOf[latest[i]] = kindOf[event]
    THEN latest ELSE Append(latest, event)

\* Map.set: a kind that has a slot keeps its place in the order of sending.
Overwritten(latest, event, kindOf) ==
    IF \E i \in DOMAIN latest : kindOf[latest[i]] = kindOf[event]
    THEN [i \in DOMAIN latest |-> IF kindOf[latest[i]] = kindOf[event] THEN event ELSE latest[i]]
    ELSE Append(latest, event)

QueueFirst(o) == o.queue \o o.latest \* mutant: the slots are sent last

\* The order of _flushOnce.
Batch(o) == o.latest \o o.queue

Drained(o) == [o EXCEPT !.queue = <<>>, !.latest = <<>>, !.scheduled = FALSE]

Open(c) == socket[c] = "open"

-----------------------------------------------------------------------------
WsInit ==
    /\ out = [queue |-> <<>>, latest |-> <<>>, scheduled |-> FALSE, closed |-> FALSE]
    /\ clients = {}
    /\ socket = [c \in Clients |-> "none"]
    /\ log = <<>> /\ pruned = {}
    /\ tape = [c \in Clients |-> <<>>] /\ since = [c \in Clients |-> 0]
    /\ missed = {}

\* broadcast, which a closed queue ignores.
Broadcast(kind, depth) ==
    LET event == Len(log) + 1
        queue == Trimmed(out.queue, depth)
    IN  /\ Len(log) < MaxEvents /\ ~out.closed
        /\ log' = Append(log, kind)
        /\ IF kind \in Slots
           THEN /\ out' = [out EXCEPT !.scheduled = TRUE,
                                      !.latest = Overwritten(@, event, log')]
                /\ UNCHANGED pruned
           ELSE /\ out' = [out EXCEPT !.scheduled = TRUE, !.queue = Append(queue, event)]
                /\ pruned' = pruned \cup (ToSet(out.queue) \ ToSet(queue))
        /\ UNCHANGED <<clients, socket, tape, since, missed>>

\* _flushOnce and _send.  A socket that is closing is dropped from the clients,
\* and so is one whose send throws; `failing` are those.
Flush ==
    /\ out.scheduled
    /\ IF out.closed
       THEN out' = [out EXCEPT !.scheduled = FALSE] /\ UNCHANGED <<clients, tape, missed>>
       ELSE \E taken \in [Clients -> 0 .. Len(Batch(out))] :
            \E failing \in SUBSET {c \in clients : taken[c] < Len(Batch(out))} :
            /\ \A c \in Clients : c \notin clients \/ ~Open(c) => taken[c] = 0
            /\ out' = Drained(out)
            /\ tape' = [c \in Clients |-> tape[c] \o SubSeq(Batch(out), 1, taken[c])]
            /\ missed' = missed \cup {c \in clients : taken[c] < Len(Batch(out))}
            /\ clients' = IF Batch(out) = <<>> THEN clients
                          ELSE {c \in clients : Open(c)} \ failing
    /\ UNCHANGED <<socket, log, pruned, since>>

\* handleConnection, which turns a client away at the limit.
HandleConnection(c) ==
    /\ socket[c] = "none"
    /\ Cardinality(clients) < MaxClients
    /\ socket' = [socket EXCEPT ![c] = "open"]
    /\ clients' = clients \cup {c}
    /\ since' = [since EXCEPT ![c] = Len(log)]
    /\ UNCHANGED <<out, log, pruned, tape, missed>>

\* The peer closes or the connection breaks.
Hangup(c) ==
    /\ Open(c)
    /\ socket' = [socket EXCEPT ![c] = "closing"]
    /\ UNCHANGED <<out, clients, history>>

\* handleClose, the error handler, and the heartbeat that got no pong.
Gone(c) ==
    /\ socket[c] # "none"
    /\ socket' = [socket EXCEPT ![c] = "none"]
    /\ clients' = clients \ {c}
    /\ tape' = [tape EXCEPT ![c] = <<>>] /\ missed' = missed \ {c}
    /\ since' = [since EXCEPT ![c] = 0]
    /\ UNCHANGED <<out, log, pruned>>

\* close of the server and of its queue.
CloseServer ==
    /\ ~out.closed
    /\ out' = [out EXCEPT !.closed = TRUE, !.queue = <<>>, !.latest = <<>>]
    /\ socket' = [c \in Clients |-> IF c \in clients /\ Open(c) THEN "closing" ELSE socket[c]]
    /\ UNCHANGED <<clients, history>>

WsNext ==
    \/ \E kind \in Kinds, depth \in {Depth, LagDepth} : Broadcast(kind, depth)
    \/ Flush \/ CloseServer
    \/ \E c \in Clients : HandleConnection(c) \/ Hangup(c) \/ Gone(c)

WsSpec == WsInit /\ [][WsNext]_wsVars

-----------------------------------------------------------------------------
Discrete(kind) == kind \in {"critical", "informational"}

(* Each variable has its type. *)
WsTypeOK ==
    /\ out \in [queue : Seq(1 .. MaxEvents), latest : Seq(1 .. MaxEvents),
                scheduled : BOOLEAN, closed : BOOLEAN]
    /\ clients \subseteq Clients
    /\ socket \in [Clients -> {"none", "open", "closing"}]
    /\ Len(out.queue) <= Depth /\ Len(out.latest) <= Cardinality(Slots)

(* The slots overtake the queue, so that the position of a new song may    *)
(* reach a client before the status that announces it; but never does a    *)
(* discrete event overtake anything, nor a value one of its own kind: no   *)
(* position of before a stop arrives after it (_flushOnce, enqueueLatest). *)
NothingStale ==
    \A c \in Clients : \A i, j \in DOMAIN tape[c] :
        i < j /\ tape[c][i] >= tape[c][j] =>
            /\ ~Discrete(log[tape[c][i]])
            /\ log[tape[c][i]] # log[tape[c][j]]

\* A value that has a newer one.
Superseded(n) == ~Discrete(log[n]) /\ \E m \in n + 1 .. Len(log) : log[m] = log[n]

(* Whatever overflowed and whoever else was slow or left: a client that    *)
(* kept up has the last value of every kind and every discrete event that  *)
(* was not sacrificed to the depth, unless a flush is due                  *)
(* (_maybeScheduleFlush, _dropOneUnderPressure, _send).                    *)
KeptInStep ==
    ~out.scheduled /\ ~out.closed =>
        \A c \in clients \ missed :
            Open(c) => \A n \in since[c] + 1 .. Len(log) :
                \/ n \in ToSet(tape[c])
                \/ n \in pruned
                \/ Superseded(n)
=============================================================================
