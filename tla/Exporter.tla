------------------------------ MODULE Exporter ------------------------------
(***************************************************************************)
(* pgcircuit metrics --listen (src/internal/cli/metrics.go): an HTTP       *)
(* server that renders the metrics from four queries, one after the other, *)
(* in a goroutine for each request.  All share the one connection that     *)
(* Connect opened when the command started, and nothing serialises them.   *)
(***************************************************************************)
EXTENDS Naturals, FiniteSets

CONSTANTS
    Scrapes,       \* requests that may be in flight
    Free, Broken   \* the connection: idle, or closed for good

ASSUME ConnectionAssumption == Free # Broken /\ {Free, Broken} \cap Scrapes = {}

VARIABLES
    conn,          \* the connection, or the scrape whose query it runs
    stage,         \* the query each request is at
    reply,         \* the status it was answered with
    gone,          \* requests whose client went away: r.Context() is done
    met            \* what happened to a request, or to the connection

scrapeVars == <<conn, stage, reply, gone, met>>

Queries == {"status", "version", "runtime", "events"}

ScrapeTypeOK ==
    /\ conn \in Scrapes \cup {Free, Broken}
    /\ stage \in [Scrapes -> Queries \cup {"none"}]
    /\ reply \in [Scrapes -> {"none", "200", "503"}]
    /\ gone \in SUBSET Scrapes
    /\ met \in [Scrapes -> SUBSET {"overlap", "error", "lost"}]

ScrapeInit ==
    /\ conn = Free
    /\ stage = [h \in Scrapes |-> "none"]
    /\ reply = [h \in Scrapes |-> "none"]
    /\ gone = {}
    /\ met = [h \in Scrapes |-> {}]

InFlight(h) == stage[h] # "none"

Meet(S, what) ==
    met' = [h \in Scrapes |-> IF h \in S THEN met[h] \cup {what} ELSE met[h]]

-----------------------------------------------------------------------------
(* External: the clients, the network and the server                       *)

Request(h) ==
    LET others == {g \in Scrapes : InFlight(g)}
        mine == (IF others = {} THEN {} ELSE {"overlap"})
                   \cup (IF conn = Broken THEN {"lost"} ELSE {})
    IN  /\ ~InFlight(h)
        /\ stage' = [stage EXCEPT ![h] = "status"]
        /\ reply' = [reply EXCEPT ![h] = "none"]
        /\ gone' = gone \ {h}
        /\ met' = [g \in Scrapes |-> IF g = h THEN mine
                                     ELSE IF g \in others THEN met[g] \cup {"overlap"}
                                     ELSE met[g]]
        /\ UNCHANGED conn

GoAway(h) ==
    /\ InFlight(h)
    /\ gone' = gone \cup {h}
    /\ UNCHANGED <<conn, stage, reply, met>>

(* The server restarts, or closes the connection.                          *)
Disconnect ==
    /\ conn # Broken
    /\ conn' = Broken
    /\ Meet({h \in Scrapes : InFlight(h)}, "lost")
    /\ UNCHANGED <<stage, reply, gone>>

-----------------------------------------------------------------------------
(* renderPrometheus                                                        *)

Following == [status |-> "version", version |-> "runtime", runtime |-> "events"]

Fail(h) ==
    /\ stage' = [stage EXCEPT ![h] = "none"]
    /\ reply' = [reply EXCEPT ![h] = "503"]

Succeed(h) ==
    IF stage[h] = "events"
    THEN stage' = [stage EXCEPT ![h] = "none"] /\ reply' = [reply EXCEPT ![h] = "200"]
    ELSE stage' = [stage EXCEPT ![h] = Following[stage[h]]] /\ UNCHANGED reply

(* An error ends the scrape, except that of SHOW server_version.           *)
Error(h) == IF stage[h] = "version" THEN Succeed(h) ELSE Fail(h)

(* pgx refuses a query while another runs.                                 *)
Send(h) ==
    /\ InFlight(h) /\ h \notin gone
    /\ conn = Free
    /\ conn' = h
    /\ UNCHANGED <<stage, reply, gone, met>>

(* Mutant: a busy connection is waited for, one that is closed too.        *)
RefusedRetry(h) ==
    /\ InFlight(h) /\ conn # h
    /\ h \in gone
    /\ Error(h)
    /\ UNCHANGED <<conn, gone, met>>

Refused(h) ==
    /\ InFlight(h) /\ conn # h
    /\ h \in gone \/ conn # Free
    /\ Error(h)
    /\ UNCHANGED <<conn, gone, met>>

(* Nothing synchronises that check: two that find the connection free may  *)
(* both write to it, and neither can make sense of what comes back.        *)
Collide(g, h) ==
    /\ g # h
    /\ \A k \in {g, h} : InFlight(k) /\ k \notin gone
    /\ conn = Free
    /\ conn' = Broken
    /\ Meet({k \in Scrapes : InFlight(k)}, "lost")
    /\ UNCHANGED <<stage, reply, gone>>

(* Mutant: the rows of fetchEvents are not closed when the last was read.  *)
AnswerUnclosed(h) ==
    /\ conn = h /\ InFlight(h)
    /\ conn' = IF stage[h] = "events" THEN h ELSE Free
    /\ Succeed(h)
    /\ UNCHANGED <<gone, met>>

Answer(h) ==
    /\ conn = h
    /\ conn' = Free
    /\ Succeed(h)
    /\ UNCHANGED <<gone, met>>

(* The server answers with an error, and goes on.                          *)
QueryError(h) ==
    /\ conn = h
    /\ conn' = Free
    /\ Error(h)
    /\ met' = [met EXCEPT ![h] = @ \cup {"error"}]
    /\ UNCHANGED gone

(* A context that ends while a query runs closes the connection under it.  *)
Interrupt(h) ==
    /\ conn = h
    /\ h \in gone
    /\ conn' = Broken
    /\ Error(h)
    /\ Meet({k \in Scrapes \ {h} : InFlight(k)}, "lost")
    /\ UNCHANGED gone

Step(h) == Send(h) \/ Refused(h) \/ Answer(h) \/ QueryError(h) \/ Interrupt(h)

ScrapeNext ==
    \/ \E h \in Scrapes : Request(h) \/ GoAway(h) \/ Step(h)
    \/ \E g, h \in Scrapes : Collide(g, h)
    \/ Disconnect

ScrapeSpec == ScrapeInit /\ [][ScrapeNext]_scrapeVars

(* A goroutine keeps running, and the server answers a query: the queries  *)
(* wait for nothing but lightweight locks.                                 *)
ScrapeFairSpec == ScrapeSpec /\ \A h \in Scrapes : WF_scrapeVars(Step(h))

-----------------------------------------------------------------------------
(* Properties                                                              *)

(* A scrape that had the exporter to itself, whose client stayed and whose *)
(* queries the server answered, is answered with the metrics, whatever     *)
(* became of the scrapes before it, as long as none of them took the       *)
(* connection down (metrics.go:49-57, 71-85, commands.go:246-268).         *)
ScrapeFailsForAReason ==
    \A h \in Scrapes : reply[h] = "503" => h \in gone \/ met[h] # {}

(* A scrape is answered, with the metrics or an error, with others on the  *)
(* same connection and after it is closed for good.                        *)
ScrapesAreAnswered == \A h \in Scrapes : InFlight(h) ~> ~InFlight(h)

=============================================================================
