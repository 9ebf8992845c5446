------------------------------ MODULE SessionLog ------------------------------
(***************************************************************************)
(* One session's event log in the agent daemon (session.py), the journal   *)
(* it is written down in (journal.py), and what a daemon crash and restart *)
(* do to the two.                                                          *)
(*                                                                         *)
(* The log is the list of stored events a client replays.  The journal is  *)
(* a buffer of encoded lines flushed to events.jsonl, plus a summary       *)
(* (session.json) replaced whenever the mutation list or the terminal      *)
(* status changes.  A restarted daemon rebuilds the session from the       *)
(* summary and reads the journal back only when something asks for it.     *)
(*                                                                         *)
(* An event's payload is abstracted to its serial number `n`, the order in *)
(* which the session recorded it; two events with one `id` and different   *)
(* `n` are two different things that happened under one name.              *)
(***************************************************************************)
EXTENDS Naturals, Sequences, FiniteSets, SequencesExt

CONSTANTS
  Paths,       \* workspace paths a tool may mutate
  NoPath,      \* what an event that mutates nothing carries
  FlushAt,     \* journal.FLUSH_AT: buffered events that force a flush
  MaxWork,     \* bound: stored events of the model's work, all runs together
  MaxRuns,     \* bound: runs started (start, follow-up, resume)
  MaxCrashes,  \* bound: daemon crashes
  TornWrites   \* may a crash inside a flush leave a cut-off last line?

ASSUME LogAssumption ==
  /\ NoPath \notin Paths
  /\ FlushAt \in Nat \ {0}
  /\ MaxWork \in Nat /\ MaxRuns \in Nat /\ MaxCrashes \in Nat
  /\ TornWrites \in BOOLEAN

VARIABLES
  alive,      \* is a daemon process running?
  status,     \* Session.status; "none" before the session is created
  step,       \* what the worker thread emits next
  outcome,    \* the status the run will settle on
  events,     \* Session.events
  nextId,     \* Session._next_id
  mutations,  \* Session.mutations
  pending,    \* Session._events_pending
  buffer,     \* Journal._buffer
  file,       \* the whole lines of events.jsonl that parse
  torn,       \* does events.jsonl end in a line cut short?
  meta,       \* session.json
  died,       \* history: Session.status when the last daemon died
  serial,     \* history: events serial, works, by every daemon
  works,      \* history: those of them that are a run's work
  runs,       \* history: runs started
  crashes     \* history: daemon crashes

logVars == <<alive, status, step, outcome, events, nextId, mutations, pending,
             buffer, file, torn, meta, died, serial, works, runs, crashes>>

\* "done" stands for every outcome finish() writes down, "error" for the run
\* that raised.
Statuses == {"running", "done", "error"}
StoredTypes == {"user", "work", "mutation", "error", "finish", "metrics", "end"}
TransientTypes == {"delta", "quota"}
Event == [id : Nat \ {0}, n : Nat, type : StoredTypes \cup TransientTypes,
          path : Paths \cup {NoPath}]
NoMeta == [status |-> "none", mutations |-> {}]

Running == status = "running"

-----------------------------------------------------------------------------
(* The journal *)

\* What a flush leaves in the file when its first `k` lines reach the disk.  A
\* line appended behind a cut-off one is glued to it and parses as neither.
Appended(lines, k) ==
  IF torn /\ k > 0 THEN file \o SubSeq(lines, 2, k) ELSE file \o SubSeq(lines, 1, k)

Flush(lines) ==
  /\ file' = Appended(lines, Len(lines))
  /\ torn' = (torn /\ lines = <<>>)
  /\ buffer' = <<>>

Buffered(lines) ==
  /\ buffer' = lines
  /\ UNCHANGED <<file, torn>>

Summary(s, muts) == [status |-> s, mutations |-> muts]

-----------------------------------------------------------------------------
(* Session.record *)

\* The event record() builds: it takes the next id, and keeps it only if it is
\* stored.
Stamp(t, p) == [id |-> nextId, n |-> serial + 1, type |-> t, path |-> p]

IsNewMutation(e) == e.type = "mutation" /\ e.path \notin mutations

\* Mutant of Flushes: only a full buffer forces a flush.
FlushesWhenFull(e) == Len(buffer) + 1 >= FlushAt

Flushes(e) ==
  \/ IsNewMutation(e)
  \/ e.type \in {"finish", "end"}
  \/ Len(buffer) + 1 >= FlushAt

Count(e) ==
  /\ serial' = serial + 1
  /\ works' = IF e.type \in {"work", "mutation"} THEN works + 1 ELSE works

\* A stored event: into the list, into the journal, and, when it adds to the
\* list `revert` reads, into the summary as well.
Record(e) ==
  /\ events' = Append(events, e)
  /\ Count(e)
  /\ nextId' = nextId + 1
  /\ IF Flushes(e) THEN Flush(Append(buffer, e)) ELSE Buffered(Append(buffer, e))
  /\ IF IsNewMutation(e)
       THEN /\ mutations' = mutations \cup {e.path}
            /\ meta' = Summary(status, mutations')
       ELSE UNCHANGED <<mutations, meta>>


-----------------------------------------------------------------------------
(* The run: what the worker thread emits, in order *)

Emits(from, to, e) ==
  /\ alive /\ step = from
  /\ step' = to
  /\ Record(e)
  /\ UNCHANGED <<alive, status, pending, died, runs, crashes>>

Work == /\ works < MaxWork
        /\ \/ Emits("work", "work", Stamp("work", NoPath))
           \/ \E p \in Paths : Emits("work", "work", Stamp("mutation", p))
        /\ UNCHANGED outcome

\* The end of a run that returned a result: quota, finish, metrics, end.
RelayQuota == /\ alive /\ step = "work"
              /\ step' = "finish"
              /\ outcome' = "done"
              /\ UNCHANGED <<alive, status, events, nextId, mutations, pending, buffer,
                             file, torn, meta, died, serial, works, runs, crashes>>

\* The end of a run that raised: error, finish, end.
RecordError == /\ Emits("work", "finish", Stamp("error", NoPath))
               /\ outcome' = "error"

RecordFinish ==
  /\ Emits("finish", IF outcome = "error" THEN "end" ELSE "metrics", Stamp("finish", NoPath))
  /\ UNCHANGED outcome

RecordMetrics == /\ Emits("metrics", "end", Stamp("metrics", NoPath))
                 /\ UNCHANGED outcome

RecordEnd == /\ Emits("end", "settle", Stamp("end", NoPath))
             /\ UNCHANGED outcome

\* The terminal status, queued behind the events that justify it.  finish()
\* writes it down; the handler of a crashed run only sets it.
Settle ==
  /\ alive /\ step = "settle"
  /\ step' = "idle"
  /\ status' = outcome
  /\ IF outcome = "error"
       THEN UNCHANGED <<buffer, file, torn, meta>>
       ELSE Flush(buffer) /\ meta' = Summary(outcome, mutations)
  /\ UNCHANGED <<alive, outcome, events, nextId, mutations, pending, died, serial, works, runs, crashes>>

-----------------------------------------------------------------------------
(* Starting runs *)

\* SessionStore.create writes the summary; the first event is the developer's.
Start ==
  /\ alive /\ status = "none" /\ runs < MaxRuns
  /\ status' = "running" /\ step' = "work" /\ runs' = runs + 1
  /\ LET e == Stamp("user", NoPath)
     IN /\ events' = <<e>> /\ Count(e) /\ nextId' = 2
        /\ IF FlushAt = 1 THEN Flush(<<e>>) ELSE Buffered(<<e>>)
  /\ meta' = Summary("running", {})
  /\ UNCHANGED <<alive, outcome, mutations, pending, died, crashes>>

\* Another message on a finished session, or a resume of one.  The status in
\* memory changes; the summary on disk is not rewritten.
FollowUp ==
  /\ alive /\ status \in Statuses \ {"running"} /\ step = "idle" /\ runs < MaxRuns
  /\ status' = "running" /\ step' = "work" /\ runs' = runs + 1
  /\ Record(Stamp("user", NoPath))
  /\ UNCHANGED <<alive, outcome, pending, died, crashes>>

-----------------------------------------------------------------------------
(* Reading the journal back *)

Ids(s) == {s[i].id : i \in DOMAIN s}

\* Mutant of Restored: what memory holds already is read back again.
WholeFile == file

Restored ==
  LET upTo[i \in 0 .. Len(file)] ==
        IF i = 0 THEN <<>>
        ELSE IF file[i].id \in Ids(events) THEN upTo[i - 1] ELSE Append(upTo[i - 1], file[i])
  IN upTo[Len(file)]

IdAfter(evts) == Max(Ids(evts) \cup {0}) + 1

\* Session.hydrate: what the file holds, less every id already in memory, goes
\* in front; the next id follows the highest.
Hydrate ==
  /\ alive /\ pending
  /\ pending' = FALSE
  /\ events' = Restored \o events
  /\ nextId' = IdAfter(events')
  /\ UNCHANGED <<alive, status, step, outcome, mutations, buffer, file, torn, meta,
                 died, serial, works, runs, crashes>>

-----------------------------------------------------------------------------
(* Crash and restart *)

\* What a hard kill takes with it: the process and everything in its memory.
Killed ==
  /\ alive' = FALSE /\ died' = status
  /\ status' = "none" /\ step' = "idle" /\ outcome' = "error"
  /\ events' = <<>> /\ nextId' = 1 /\ mutations' = {} /\ pending' = FALSE
  /\ buffer' = <<>>
  /\ crashes' = crashes + 1

Crash == /\ alive /\ crashes < MaxCrashes
         /\ Killed
         /\ UNCHANGED <<file, torn, meta, serial, works, runs>>

\* A kill inside record(), after some lines of the flush reached the disk and
\* before the summary was replaced.
CrashInFlush ==
  /\ alive /\ crashes < MaxCrashes /\ step \in {"work", "finish", "end"}
  /\ \E e \in {Stamp("work", NoPath), Stamp("finish", NoPath), Stamp("end", NoPath)}
                \cup {Stamp("mutation", p) : p \in Paths} :
       /\ e.type = step \/ (step = "work" /\ e.type = "mutation")
       /\ step = "work" => works < MaxWork
       /\ Flushes(e)
       /\ Count(e)
       /\ \E k \in 0 .. Len(buffer) + 1, cut \in {FALSE, TornWrites} :
            /\ file' = Appended(Append(buffer, e), k)
            /\ torn' = IF k = 0 THEN torn \/ cut ELSE cut /\ k <= Len(buffer)
  /\ Killed
  /\ UNCHANGED <<meta, runs>>

\* A session that was running when the process died has failed.
Revived == IF meta.status = "running" THEN "error" ELSE meta.status

\* SessionStore.restore: the summary comes back, the transcript waits for
\* hydrate.
Restart ==
  /\ ~alive
  /\ alive' = TRUE
  /\ IF meta = NoMeta
       THEN UNCHANGED <<status, mutations, pending>>
       ELSE /\ status' = Revived
            /\ mutations' = meta.mutations
            /\ pending' = TRUE
  /\ UNCHANGED <<step, outcome, events, nextId, buffer, file, torn, meta, died,
                 serial, works, runs, crashes>>

-----------------------------------------------------------------------------
LogInit ==
  /\ alive = TRUE /\ status = "none" /\ step = "idle" /\ outcome = "error"
  /\ events = <<>> /\ nextId = 1 /\ mutations = {} /\ pending = FALSE
  /\ buffer = <<>> /\ file = <<>> /\ torn = FALSE /\ meta = NoMeta
  /\ died = "none" /\ serial = 0 /\ works = 0 /\ runs = 0 /\ crashes = 0

LogNext ==
  \/ Start \/ FollowUp
  \/ Work \/ RelayQuota \/ RecordError \/ RecordFinish \/ RecordMetrics \/ RecordEnd \/ Settle
  \/ Hydrate
  \/ Crash \/ CrashInFlush \/ Restart

LogSpec == LogInit /\ [][LogNext]_logVars

-----------------------------------------------------------------------------
(* Properties *)

\* What a kill at this moment would take: events in memory, not in the file.
Unsaved == Range(events) \ Range(file)

\* What torn writes may cost on top: the event glued to the line a kill cut
\* short, once per crash (Journal.read_events).
Glued == IF TornWrites THEN crashes ELSE 0

\* What a hard kill must not take.
Costly(e) == \/ e.type \in {"finish", "end"}
             \/ e.type = "mutation" /\ e.path \notin meta.mutations

\* Paths the journal shows as changed and the summary does not name: what a
\* revert after a restart would leave behind.  Only a kill between the two
\* writes of one record() makes one (session.py, Session.record).
Unlisted == {e.path : e \in {f \in Range(file) : f.type = "mutation"}} \ meta.mutations

\* A hard kill loses very little (journal.py, FLUSH_AT): fewer than FlushAt
\* events, never the one that says how a run ended, and never a change that
\* `revert` would then not know about.
CrashCostsLittle ==
  /\ alive => /\ Cardinality(Unsaved) < FlushAt + Glued
              /\ Cardinality({e \in Unsaved : Costly(e)}) <= Glued
  /\ Cardinality(Unlisted) <= crashes

\* What the file will hold.
Written == file \o buffer

OneEventPerId ==
  /\ Cardinality(Ids(events \o Written)) = Cardinality(Range(events) \cup Range(Written))
  /\ Cardinality(Ids(Written)) = Len(Written)

\* Where an event stands in memory.
Place(e) == CHOOSE i \in DOMAIN events : events[i] = e

\* While every id names one event, what hydrate would read plus what is still
\* buffered is the log in memory, in the same order (Session.record writes both
\* under one lock).
JournalMirrorsLog ==
  alive /\ ~pending /\ OneEventPerId
    => /\ Cardinality(Range(events)) = Len(events)
       /\ Range(Written) \subseteq Range(events)
       /\ \A i \in 2 .. Len(Written) : Place(Written[i - 1]) < Place(Written[i])
       /\ Len(events) <= Len(Written) + Glued

===============================================================================
