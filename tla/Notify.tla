------------------------------- MODULE Notify -------------------------------
(***************************************************************************)
(* pgcircuit notify (src/internal/cli/notify.go) against the event history *)
(* it polls: backends record events, the server restarts, a webhook takes  *)
(* or refuses each POST, a signal stops the watch.  The history is the     *)
(* abstract EventHistory, read through one connection that is opened once. *)
(***************************************************************************)
EXTENDS Integers, Sequences, FiniteSets

CONSTANTS
    Notifier,      \* the session of the notify process
    RiskEvents,    \* events the hooks record, records with a decision
    Sizes,         \* values of pg_circuit.event_history_size
    DecisionSets,  \* values of --decisions
    CatchUps,      \* values of --catch-up
    MaxEvents,     \* bound: events in one server life
    MaxRestarts    \* bound: server restarts

ASSUME SizesAssumption == Sizes \subseteq 1..4096
ASSUME EventsAssumption == \A e \in RiskEvents : e.decision \in {"WARN", "BLOCK"}
ASSUME OptionsAssumption ==
    /\ DecisionSets \subseteq (SUBSET {"WARN", "BLOCK"}) \ {{}}
    /\ CatchUps \subseteq BOOLEAN
ASSUME BoundsAssumption == MaxEvents \in Nat /\ MaxRestarts \in Nat

VARIABLES
    capacity, issued, recent, views,    \* the event history
    life,          \* server restarts so far
    decisions, catch_up,                \* the command line
    proc,          \* where CmdNotify is
    connected,     \* the connection of c.Conn is open
    signalled,     \* SIGINT or SIGTERM arrived
    seen,          \* event_ids of the Go map
    batch,         \* rows of the last fetchEvents not looked at yet
    fetched,       \* the life whose rows batch holds
    first,         \* events issued when the watch was seeded
    latest,        \* events issued when the history was last fetched
    posts          \* deliverNotify calls for each event of each life

history == <<capacity, issued, recent, views>>
options == <<decisions, catch_up>>
ghosts == <<first, latest>>
vars == <<history, life, options, proc, connected, signalled, seen, batch, fetched,
          ghosts, posts>>

History == INSTANCE EventHistory WITH Readers <- {Notifier}, Detached <- {}

Events == (0..MaxRestarts) \X (1..MaxEvents)
Rows == [event_id: Nat, decision_id: Nat, body: RiskEvents]

TypeOK ==
    /\ History!TypeOK
    /\ life \in 0..MaxRestarts
    /\ decisions \in DecisionSets /\ catch_up \in CatchUps
    /\ proc \in {"off", "connected", "seed", "watch", "poll", "stopped"}
    /\ connected \in BOOLEAN /\ signalled \in BOOLEAN
    /\ seen \subseteq 1..MaxEvents
    /\ batch \in Seq(Rows)
    /\ fetched \in 0..MaxRestarts
    /\ first \in Nat /\ latest \in Nat
    /\ posts \in [Events -> Nat]

Init ==
    /\ History!Init
    /\ life = 0
    /\ decisions \in DecisionSets
    /\ catch_up \in CatchUps
    /\ proc = "off"
    /\ connected = FALSE
    /\ signalled = FALSE
    /\ seen = {}
    /\ batch = <<>>
    /\ fetched = 0
    /\ first = 0
    /\ latest = 0
    /\ posts = [e \in Events |-> 0]

-----------------------------------------------------------------------------
(* The server and the operator                                             *)

Record(e) ==
    /\ issued < MaxEvents
    /\ History!Record(e)
    /\ UNCHANGED <<life, options, proc, connected, signalled, seen, batch, fetched,
                   ghosts, posts>>

(* A restart closes every connection; pgx.Conn does not open it again.     *)
Restart ==
    /\ life < MaxRestarts
    /\ life' = life + 1
    /\ History!Restart
    /\ connected' = FALSE
    /\ UNCHANGED <<options, proc, signalled, seen, batch, fetched, ghosts, posts>>

Signal ==
    /\ proc \in {"watch", "poll"}
    /\ ~signalled
    /\ signalled' = TRUE
    /\ UNCHANGED <<history, life, options, proc, connected, seen, batch, fetched,
                   ghosts, posts>>

Connect ==
    /\ proc = "off"
    /\ proc' = "connected"
    /\ connected' = TRUE
    /\ UNCHANGED <<history, life, options, signalled, seen, batch, fetched, ghosts, posts>>

-----------------------------------------------------------------------------
(* CmdNotify                                                               *)

Fetch ==
    /\ connected /\ ~signalled
    /\ History!Snapshot(Notifier)
    /\ batch' = recent
    /\ fetched' = life
    /\ latest' = issued

(* The first fetch; an error of it ends the command.                       *)
FetchSeed ==
    /\ proc = "connected"
    /\ Fetch
    /\ first' = issued
    /\ proc' = "seed"
    /\ UNCHANGED <<life, options, connected, signalled, seen, posts>>

SeedFails ==
    /\ proc = "connected"
    /\ proc' = "stopped"
    /\ UNCHANGED <<history, life, options, connected, signalled, seen, batch, fetched,
                   ghosts, posts>>

Wanted(row) == row.body.decision \in decisions

Mark(row) == seen' = seen \cup {row.event_id}

Deliver(row) == posts' = [posts EXCEPT ![<<fetched, row.event_id>>] = @ + 1]

(* Mutant: rows count as seen only where they are delivered.               *)
SeedRowCatchUpOnly ==
    /\ proc = "seed"
    /\ batch # <<>>
    /\ IF catch_up /\ Wanted(Head(batch))
       THEN /\ Mark(Head(batch)) /\ Deliver(Head(batch))
            /\ \/ batch' = Tail(batch) /\ UNCHANGED proc
               \/ batch' = <<>> /\ proc' = "stopped"
       ELSE batch' = Tail(batch) /\ UNCHANGED <<proc, seen, posts>>
    /\ UNCHANGED <<history, life, options, connected, signalled, fetched, ghosts>>

(* One turn of the seeding loop: the rows count as seen, and are delivered *)
(* under --catch-up, where a webhook error ends the command.               *)
SeedRow ==
    /\ proc = "seed"
    /\ batch # <<>>
    /\ Mark(Head(batch))
    /\ IF catch_up /\ Wanted(Head(batch))
       THEN /\ Deliver(Head(batch))
            /\ \/ batch' = Tail(batch) /\ UNCHANGED proc
               \/ batch' = <<>> /\ proc' = "stopped"
       ELSE batch' = Tail(batch) /\ UNCHANGED <<proc, posts>>
    /\ UNCHANGED <<history, life, options, connected, signalled, fetched, ghosts>>

Watch ==
    /\ proc \in {"seed", "poll"}
    /\ batch = <<>>
    /\ proc' = "watch"
    /\ UNCHANGED <<history, life, options, connected, signalled, seen, batch, fetched,
                   ghosts, posts>>

(* Mutant: a poll is made only for more rows than were seen.               *)
PollForMore ==
    /\ proc = "watch"
    /\ Len(recent) > Cardinality(seen)
    /\ Fetch
    /\ proc' = "poll"
    /\ UNCHANGED <<life, options, connected, signalled, seen, first, posts>>

(* A tick whose fetch fails is a warning: the watch goes on.               *)
Poll ==
    /\ proc = "watch"
    /\ Fetch
    /\ proc' = "poll"
    /\ UNCHANGED <<life, options, connected, signalled, seen, first, posts>>

(* Mutants of PollRow: a row is marked once the webhook took it; a webhook *)
(* error leaves the loop.                                                  *)
PollRowMarksLate ==
    /\ proc = "poll"
    /\ batch # <<>>
    /\ batch' = Tail(batch)
    /\ IF Head(batch).event_id \notin seen /\ Wanted(Head(batch))
       THEN Deliver(Head(batch)) /\ (Mark(Head(batch)) \/ UNCHANGED seen)
       ELSE Mark(Head(batch)) /\ UNCHANGED posts
    /\ UNCHANGED <<history, life, options, proc, connected, signalled, fetched, ghosts>>

PollRowBreaks ==
    /\ proc = "poll"
    /\ batch # <<>>
    /\ Mark(Head(batch))
    /\ IF Head(batch).event_id \notin seen /\ Wanted(Head(batch))
       THEN Deliver(Head(batch)) /\ (batch' = Tail(batch) \/ batch' = <<>>)
       ELSE batch' = Tail(batch) /\ UNCHANGED posts
    /\ UNCHANGED <<history, life, options, proc, connected, signalled, fetched, ghosts>>

(* One turn of the polling loop.  A row is marked before it is delivered,  *)
(* and a webhook error goes on to the next row.                            *)
PollRow ==
    /\ proc = "poll"
    /\ batch # <<>>
    /\ batch' = Tail(batch)
    /\ Mark(Head(batch))
    /\ IF Head(batch).event_id \notin seen /\ Wanted(Head(batch))
       THEN Deliver(Head(batch))
       ELSE UNCHANGED posts
    /\ UNCHANGED <<history, life, options, proc, connected, signalled, fetched, ghosts>>

Stop ==
    /\ proc = "watch"
    /\ signalled
    /\ proc' = "stopped"
    /\ UNCHANGED <<history, life, options, connected, signalled, seen, batch, fetched,
                   ghosts, posts>>

Next ==
    \/ \E e \in RiskEvents : Record(e)
    \/ Restart
    \/ Signal
    \/ Connect
    \/ FetchSeed
    \/ SeedFails
    \/ SeedRow
    \/ Watch
    \/ Poll
    \/ PollRow
    \/ Stop

Spec == Init /\ [][Next]_vars

(* The process runs: its ticker fires, each deliverNotify returns within   *)
(* the ten seconds of its HTTP client, and a signal is taken at the select.*)
Fairness ==
    /\ WF_vars(SeedRow) /\ WF_vars(Watch) /\ WF_vars(PollRow) /\ WF_vars(Stop)
    /\ WF_vars(Poll)

FairSpec == Spec /\ Fairness

-----------------------------------------------------------------------------
(* Properties                                                              *)

Known(event) == event[1] = fetched /\ event[2] <= latest

(* No event is POSTed twice by one run of notify, whatever the webhook     *)
(* answered, however often the event is polled, and across a restart that  *)
(* numbers events anew (notify.go:153-164).                                *)
AtMostOncePerEvent == \A event \in Events : posts[event] <= 1

(* Without --catch-up what was in the history at the start is never        *)
(* POSTed, and no event is before it was fetched (notify.go:109-123).      *)
OnlyNewEvents ==
    \A event \in Events :
        posts[event] > 0 => Known(event) /\ (catch_up \/ event[2] > first)

(* Between two polls nothing that was fetched is left out: every wanted    *)
(* row after the seed has been handed to the webhook once, even where an   *)
(* earlier row of the same poll failed (notify.go:151-165).                *)
PollsAreExhausted ==
    proc = "watch" =>
        \A i \in 1..Len(views[Notifier]) :
            LET row == views[Notifier][i]
            IN  Wanted(row) /\ row.event_id > first => posts[<<fetched, row.event_id>>] = 1

(* A wanted event recorded during the watch is POSTed, unless the ring     *)
(* loses it first, the connection breaks or the command is told to stop.   *)
Retained(id) == id + capacity > issued

NewEventsArePosted ==
    \A id \in 1..MaxEvents :
        (/\ proc \in {"watch", "poll"} /\ fetched = life
         /\ first < id /\ id <= issued
         /\ Retained(id) /\ recent[issued + 1 - id].body.decision \in decisions)
        ~> (posts[<<fetched, id>>] > 0 \/ ~Retained(id) \/ ~connected \/ signalled)

(* README.md:281 "POST on new BLOCK", over a restart of the server: while  *)
(* notify keeps watching, an event of the new life that stays in the ring  *)
(* is POSTed.                                                              *)
WatchSurvivesRestart ==
    \A id \in 1..MaxEvents :
        (/\ proc = "watch" /\ life > fetched /\ decisions = {"WARN", "BLOCK"}
         /\ id <= issued /\ Retained(id))
        ~> (posts[<<life, id>>] > 0 \/ ~Retained(id) \/ signalled \/ proc = "stopped")

=============================================================================
