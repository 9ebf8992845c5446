------------------------------ MODULE EventStream ------------------------------
(***************************************************************************)
(* The live event stream of one session: loopback.py's `_stream` generator *)
(* on the daemon's event loop, following the log of SessionLog for several *)
(* extension windows, and the extension's follow/ingest loop               *)
(* (session-state.ts) that reconnects from the last id it was given.       *)
(*                                                                         *)
(* The generator subscribes, replays what the log holds after the client's *)
(* id, and then follows its queue.  It is suspended at every frame it      *)
(* yields, so the event loop records further events between two frames.    *)
(* A frame that was sent and not received is the same as one not sent: the *)
(* link is gone and the client resumes from the last id it did receive.    *)
(***************************************************************************)
EXTENDS SessionLog

CONSTANTS
  Clients,   \* extension windows
  MaxDrops   \* bound: links that break

ASSUME StreamAssumption == MaxDrops \in Nat

VARIABLES
  link,      \* the connection of each client: "down", "replay", "follow"
  backlog,   \* what `session.since` returned and is not yet yielded, as positions
             \* in the log, which only grows at its end while anything is streamed
  queue,     \* the subscriber queue
  seen,      \* the generator's cursor
  lastId,    \* the client's cursor (SessionState.lastId)
  watching,  \* does the client take the run to be running (SessionState.running)?
  got,       \* history: serials of the stored events the client ingested
  gap,       \* history: serials recorded while this link was replaying
  drops      \* history: links broken

streamVars == <<link, backlog, queue, seen, lastId, watching, got, gap, drops>>
vars == <<logVars, streamVars>>

Since(id) == {i \in DOMAIN events : events[i].id > id}
Stored(e) == e.type \in StoredTypes

-----------------------------------------------------------------------------
(* Session.record hands every event to the queues subscribed at that moment *)

Subscribed(c) == link[c] \in {"replay", "follow"}

Deliver(e) ==
  /\ queue' = [c \in Clients |-> IF Subscribed(c) THEN Append(queue[c], e) ELSE queue[c]]
  /\ gap' = [c \in Clients |-> IF link[c] = "replay" /\ Stored(e)
                               THEN gap[c] \cup {e.n} ELSE gap[c]]
  /\ UNCHANGED <<link, backlog, seen, lastId, watching, got, drops>>

\* A step of the run that stores an event also delivers it.
Publish == /\ \/ Start \/ FollowUp
              \/ Work \/ RecordError \/ RecordFinish \/ RecordMetrics \/ RecordEnd
           /\ Deliver(Last(events'))

\* A transient event is delivered and not stored; it carries the id the next
\* stored event will get.
PublishQuota == RelayQuota /\ Deliver(Stamp("quota", NoPath))

PublishDelta == /\ alive /\ step = "work"
                /\ \A c \in Clients : "delta" \notin {queue[c][i].type : i \in DOMAIN queue[c]}
                /\ \E c \in Clients : Subscribed(c)
                /\ Deliver(Stamp("delta", NoPath))
                /\ UNCHANGED logVars

-----------------------------------------------------------------------------
(* The client: SessionState.ingest *)

\* The monotonic guard: a stored event at or below the cursor is a duplicate.
Ingests(c, e) == Stored(e) /\ e.id > lastId[c]

\* Mutant of Terminal: END says nothing a client acts on.
TerminalFinish(e) == e.type = "finish"

Terminal(e) == e.type \in {"finish", "end"}

\* What the client takes the run for: over at FINISH or END, running again when
\* a turn arrives, and otherwise as before.
Watches(c, e) ==
  \/ e.type \in {"work", "mutation"}
  \/ watching[c] /\ ~Terminal(e)

\* Mutant of Receive: FINISH does not advance the cursor.
ReceiveUncounted(c, e) ==
  IF Ingests(c, e)
  THEN /\ lastId' = IF e.type = "finish" THEN lastId ELSE [lastId EXCEPT ![c] = e.id]
       /\ got' = [got EXCEPT ![c] = Append(@, e.n)]
       /\ watching' = [watching EXCEPT ![c] = Watches(c, e)]
  ELSE UNCHANGED <<lastId, got, watching>>

Receive(c, e) ==
  IF Ingests(c, e)
  THEN /\ lastId' = [lastId EXCEPT ![c] = e.id]
       /\ got' = [got EXCEPT ![c] = Append(@, e.n)]
       /\ watching' = [watching EXCEPT ![c] = Watches(c, e)]
  ELSE UNCHANGED <<lastId, got, watching>>

-----------------------------------------------------------------------------
(* The server: _stream *)

Close(c) ==
  /\ link' = [link EXCEPT ![c] = "down"]
  /\ backlog' = [backlog EXCEPT ![c] = {}]
  /\ queue' = [queue EXCEPT ![c] = <<>>]

Cursor(c) == IF events # <<>> THEN Last(events).id ELSE lastId[c]

\* The generator up to its next suspension with `rest` still to replay: one
\* more frame, or the end of the replay, where the cursor is taken from the log
\* and a finished session with nothing queued is closed.  A client leaves the
\* stream at an END, even one that a later run has followed.
Resume(c, rest, waiting) ==
  IF rest # {}
  THEN /\ Receive(c, events[Min(rest)])
       /\ IF events[Min(rest)].type = "end"
            THEN Close(c)
            ELSE /\ link' = [link EXCEPT ![c] = "replay"]
                 /\ backlog' = [backlog EXCEPT ![c] = rest \ {Min(rest)}]
                 /\ UNCHANGED queue
       /\ UNCHANGED seen
  ELSE /\ seen' = [seen EXCEPT ![c] = Cursor(c)]
       /\ IF ~Running /\ waiting = <<>>
            THEN Close(c)
            ELSE /\ link' = [link EXCEPT ![c] = "follow"]
                 /\ UNCHANGED <<backlog, queue>>
       /\ UNCHANGED <<lastId, got, watching>>

\* GET /v1/sessions/{id}/events with the client's cursor as since_id.
Connect(c) ==
  /\ alive /\ status # "none"
  /\ link[c] = "down" /\ watching[c]
  /\ Resume(c, Since(lastId[c]), <<>>)
  /\ UNCHANGED <<gap, drops, logVars>>

Replay(c) ==
  /\ alive /\ link[c] = "replay"
  /\ Resume(c, backlog[c], queue[c])
  /\ UNCHANGED <<gap, drops, logVars>>

\* relayed as it is: loopback.py's own list of transient types
IsTransient(e) == e.type = "delta"

Take(c) ==
  /\ alive /\ link[c] = "follow" /\ queue[c] # <<>>
  /\ LET e == Head(queue[c])
     IN IF IsTransient(e)
        THEN /\ Receive(c, e)
             /\ queue' = [queue EXCEPT ![c] = Tail(@)]
             /\ UNCHANGED <<link, backlog, seen>>
        ELSE IF e.id <= seen[c]
        THEN /\ queue' = [queue EXCEPT ![c] = Tail(@)]
             /\ UNCHANGED <<link, backlog, seen, lastId, got, watching>>
        ELSE /\ seen' = [seen EXCEPT ![c] = e.id]
             /\ Receive(c, e)
             /\ IF e.type = "end"
                  THEN Close(c)
                  ELSE /\ queue' = [queue EXCEPT ![c] = Tail(@)]
                       /\ UNCHANGED <<link, backlog>>
  /\ UNCHANGED <<gap, drops, logVars>>

\* Fifteen seconds with nothing queued: a comment frame, and the end of the
\* stream when the run is over.
KeepAlive(c) ==
  /\ alive /\ link[c] = "follow" /\ queue[c] = <<>> /\ ~Running
  /\ Close(c)
  /\ UNCHANGED <<seen, lastId, watching, got, gap, drops, logVars>>

-----------------------------------------------------------------------------
(* The environment *)

\* The link breaks; the generator's `finally` unsubscribes.
Drop(c) ==
  /\ Subscribed(c) /\ drops < MaxDrops
  /\ Close(c)
  /\ drops' = drops + 1
  /\ UNCHANGED <<seen, lastId, watching, got, gap, logVars>>

\* A window that takes the run to be over attaches to one that is running (its
\* message or resume was answered "running"); a stream it still has is aborted.
Attach(c) ==
  /\ alive /\ ~watching[c] /\ Running
  /\ watching' = [watching EXCEPT ![c] = TRUE]
  /\ Close(c)
  /\ UNCHANGED <<seen, lastId, got, gap, drops, logVars>>

StreamInit ==
  /\ LogInit
  /\ link = [c \in Clients |-> "down"]
  /\ backlog = [c \in Clients |-> {}] /\ queue = [c \in Clients |-> <<>>]
  /\ seen = [c \in Clients |-> 0] /\ lastId = [c \in Clients |-> 0]
  /\ watching \in [Clients -> BOOLEAN]
  /\ got = [c \in Clients |-> <<>>] /\ gap = [c \in Clients |-> {}]
  /\ drops = 0

Serve(c) == Replay(c) \/ Take(c) \/ KeepAlive(c)

StreamNext ==
  \/ Publish \/ PublishQuota \/ PublishDelta
  \/ Settle /\ UNCHANGED streamVars
  \/ \E c \in Clients : Connect(c) \/ Serve(c) \/ Drop(c) \/ Attach(c)

\* Fairness: the worker thread finishes a run that is ending and the event loop
\* settles it; the event loop runs every generator that has something to do; a
\* client that takes the run to be running reconnects (its backoff is finite).
RunEnds == \/ PublishQuota
           \/ /\ RecordFinish \/ RecordMetrics \/ RecordEnd
              /\ Deliver(Last(events'))

StreamFairness ==
  /\ WF_vars(RunEnds)
  /\ WF_vars(Settle /\ UNCHANGED streamVars)
  /\ \A c \in Clients : WF_vars(Serve(c)) /\ WF_vars(Connect(c))

StreamSpec == StreamInit /\ [][StreamNext]_vars
FairStreamSpec == StreamSpec /\ StreamFairness

-----------------------------------------------------------------------------
(* Properties *)

\* Events a window can never be sent any more: it asks for what follows its
\* cursor, and they are before it.
Skipped(c) == {e \in Range(events) : e.id <= lastId[c] /\ e.n \notin Range(got[c])}

\* `yield Event(QUOTA)` is what a run that returned emits just before FINISH.
BehindQuota(e) ==
  e.type = "finish" /\ \E f \in Range(events) : f.id = e.id - 1 /\ f.type # "error"

\* Every window ingests each event at most once and in the order it was
\* recorded, over any number of reconnects (SessionState.ingest), and loses one
\* for good in two ways only: it was recorded while the window's replay was being
\* sent ("the subscription is taken first so nothing recorded between the two is
\* lost", _stream, covers what comes before the replay starts), or it is the
\* FINISH behind QUOTA.
InOrderOnce ==
  \A c \in Clients :
    /\ \A i, j \in DOMAIN got[c] : i < j => got[c][i] < got[c][j]
    /\ \A e \in Skipped(c) : e.n \in gap[c] \/ BehindQuota(e)

\* A window that watches a run which ends, and is not started again, comes to
\* know that it ended, whatever links broke on the way.
WatchersLearnTheEnd ==
  \A c \in Clients : (step = "finish" /\ watching[c]) ~> (~watching[c] \/ step = "work")
===============================================================================
