--------------------------- MODULE CommandProofs ---------------------------
(***************************************************************************)
(* Proofs about the two commands of pgcircuit that keep running: Exporter, *)
(* for any number of requests at a time, that a scrape fails for a reason  *)
(* of its own; and Notify, for every ring size, every set of decisions and *)
(* every number of events and restarts, that no event is POSTed twice,     *)
(* only new ones are, and nothing that was fetched is left out.            *)
(***************************************************************************)
EXTENDS Exporter, Notify, TLAPS

-----------------------------------------------------------------------------
(* pgcircuit metrics                                                       *)

(* The connection works for a request in flight, a request that meets      *)
(* another one knows, and so does one that lives on a closed connection.   *)
Reasons ==
    /\ conn \in Scrapes => InFlight(conn)
    /\ \A g, h \in Scrapes : InFlight(g) /\ InFlight(h) /\ g # h => met[g] # {}
    /\ conn = Broken => \A h \in Scrapes : InFlight(h) => h \in gone \/ met[h] # {}

ExporterInv ==
    /\ ScrapeTypeOK
    /\ Reasons
    /\ ScrapeFailsForAReason

LEMMA InitExporterInv == ScrapeInit => ExporterInv
BY ConnectionAssumption
   DEF ScrapeInit, ExporterInv, ScrapeTypeOK, Queries, Reasons, InFlight, ScrapeFailsForAReason

-----------------------------------------------------------------------------
(* Types                                                                   *)

LEMMA MeetTypes ==
    ASSUME ScrapeTypeOK, NEW S \in SUBSET Scrapes,
           NEW what \in {"overlap", "error", "lost"}, Meet(S, what)
    PROVE  /\ met' \in [Scrapes -> SUBSET {"overlap", "error", "lost"}]
           /\ \A h \in Scrapes : met[h] \subseteq met'[h]
           /\ \A h \in S : met'[h] # {}
BY DEF ScrapeTypeOK, Meet

(* Whatever becomes of a query, its request goes on to the next one or is  *)
(* answered, and no other request is touched.                              *)
LEMMA QueryEnds ==
    ASSUME ScrapeTypeOK, NEW h \in Scrapes, InFlight(h), Succeed(h) \/ Error(h)
    PROVE  /\ stage' \in [Scrapes -> Queries \cup {"none"}]
           /\ reply' \in [Scrapes -> {"none", "200", "503"}]
           /\ \A g \in Scrapes \ {h} : stage'[g] = stage[g] /\ reply'[g] = reply[g]
<1>1. stage[h] \in Queries
  BY DEF ScrapeTypeOK, InFlight
<1>2. Following \in [{"status", "version", "runtime"} -> Queries]
  BY DEF Following, Queries
<1>3. QED
  BY <1>1, <1>2 DEF ScrapeTypeOK, Succeed, Error, Fail, Queries, InFlight

(* Only an error makes a scrape fail.                                      *)
LEMMA SuccessIsNoFailure ==
    ASSUME ScrapeTypeOK, NEW h \in Scrapes, InFlight(h), Succeed(h), reply'[h] = "503"
    PROVE  reply[h] = "503"
BY DEF ScrapeTypeOK, Succeed, InFlight, Queries

-----------------------------------------------------------------------------
(* Steps                                                                   *)

LEMMA ClientsExporterInv ==
    ASSUME ExporterInv, NEW h \in Scrapes, Request(h) \/ GoAway(h)
    PROVE  ExporterInv'
<1>1. CASE Request(h)
  <2>1. ScrapeTypeOK'
    BY <1>1 DEF Request, ExporterInv, ScrapeTypeOK, Queries
  <2>2. /\ \A g \in Scrapes \ {h} : /\ stage'[g] = stage[g] /\ reply'[g] = reply[g]
                                    /\ met[g] \subseteq met'[g]
                                    /\ InFlight(g) => met'[g] # {} /\ met'[h] # {}
        /\ conn = Broken => met'[h] # {}
        /\ reply'[h] = "none" /\ stage'[h] = "status"
        /\ \A g \in Scrapes \ {h} : g \in gone' <=> g \in gone
    BY <1>1 DEF Request, ExporterInv, ScrapeTypeOK
  <2>3. conn' = conn
    BY <1>1 DEF Request
  <2>4. QED
    BY <2>1, <2>2, <2>3
       DEF ExporterInv, ScrapeTypeOK, Reasons, InFlight, ScrapeFailsForAReason
<1>2. CASE GoAway(h)
  BY <1>2 DEF GoAway, ExporterInv, ScrapeTypeOK, Reasons, InFlight, ScrapeFailsForAReason
<1>3. QED
  BY <1>1, <1>2

LEMMA BreaksExporterInv ==
    ASSUME ExporterInv, Disconnect \/ \E g, h \in Scrapes : Collide(g, h)
    PROVE  ExporterInv'
<1>1. /\ conn' = Broken
      /\ Meet({h \in Scrapes : InFlight(h)}, "lost")
      /\ UNCHANGED <<stage, reply, gone>>
  BY DEF Disconnect, Collide
<1>2. /\ met' \in [Scrapes -> SUBSET {"overlap", "error", "lost"}]
      /\ \A h \in Scrapes : met[h] \subseteq met'[h]
      /\ \A h \in Scrapes : InFlight(h) => met'[h] # {}
  BY <1>1, MeetTypes DEF ExporterInv
<1>3. QED
  BY <1>1, <1>2, ConnectionAssumption
     DEF ExporterInv, ScrapeTypeOK, Reasons, InFlight, ScrapeFailsForAReason

LEMMA SendExporterInv ==
    ASSUME ExporterInv, NEW h \in Scrapes, Send(h)
    PROVE  ExporterInv'
BY ConnectionAssumption
   DEF Send, ExporterInv, ScrapeTypeOK, Reasons, InFlight, ScrapeFailsForAReason

(* A query that ends leaves requests that know of it.                      *)
LEMMA QueryExporterInv ==
    ASSUME ExporterInv, NEW h \in Scrapes,
           Refused(h) \/ Answer(h) \/ QueryError(h) \/ Interrupt(h)
    PROVE  ExporterInv'
<1>1. InFlight(h) /\ (Succeed(h) \/ Error(h)) /\ UNCHANGED gone
  BY DEF Refused, Answer, QueryError, Interrupt, ExporterInv, Reasons
<1>2. /\ met' \in [Scrapes -> SUBSET {"overlap", "error", "lost"}]
      /\ \A g \in Scrapes : met[g] \subseteq met'[g]
  BY MeetTypes DEF Refused, Answer, QueryError, Interrupt, ExporterInv, ScrapeTypeOK
<1>3. \/ conn' = conn /\ conn # h
      \/ conn' = Free
      \/ /\ conn' = Broken
         /\ h \in gone
         /\ \A g \in Scrapes \ {h} : InFlight(g) => met'[g] # {}
  BY MeetTypes DEF Refused, Answer, QueryError, Interrupt, ExporterInv, ScrapeTypeOK
<1>4. ScrapeTypeOK'
  BY <1>1, <1>2, <1>3, QueryEnds DEF ExporterInv, ScrapeTypeOK
<1>5. \A g \in Scrapes \ {h} : stage'[g] = stage[g] /\ reply'[g] = reply[g]
  BY <1>1, QueryEnds DEF ExporterInv
<1>6. Reasons'
  BY <1>1, <1>2, <1>3, <1>5, ConnectionAssumption DEF ExporterInv, Reasons, InFlight
<1>7. reply'[h] = "503" => h \in gone' \/ met'[h] # {}
  <2>1. CASE Answer(h)
    BY <1>1, <1>2, <2>1, SuccessIsNoFailure
       DEF Answer, ExporterInv, ScrapeFailsForAReason
  <2>2. CASE QueryError(h)
    BY <2>2 DEF QueryError, ExporterInv, ScrapeTypeOK
  <2>3. CASE Interrupt(h)
    BY <2>3 DEF Interrupt
  <2>4. CASE Refused(h)
    <3>1. h \in gone \/ conn = Broken \/ (conn \in Scrapes /\ conn # h)
      BY <2>4 DEF Refused, ExporterInv, ScrapeTypeOK
    <3>2. h \in gone \/ met[h] # {}
      BY <1>1, <3>1 DEF ExporterInv, Reasons
    <3>3. QED
      BY <1>1, <1>2, <3>2
  <2>5. QED
    BY <2>1, <2>2, <2>3, <2>4
<1>8. ScrapeFailsForAReason'
  BY <1>1, <1>2, <1>5, <1>7 DEF ExporterInv, ScrapeFailsForAReason
<1>9. QED
  BY <1>4, <1>6, <1>8 DEF ExporterInv

LEMMA NextExporterInv == ExporterInv /\ [ScrapeNext]_scrapeVars => ExporterInv'
<1> SUFFICES ASSUME ExporterInv, [ScrapeNext]_scrapeVars
             PROVE  ExporterInv'
  OBVIOUS
<1>1. CASE UNCHANGED scrapeVars
  BY <1>1 DEF scrapeVars, ExporterInv, ScrapeTypeOK, Reasons, InFlight, ScrapeFailsForAReason
<1>2. QED
  BY <1>1, ClientsExporterInv, BreaksExporterInv, SendExporterInv, QueryExporterInv
     DEF ScrapeNext, Step

(* A scrape fails only when its client left, when a query of its own       *)
(* failed, when it shared the connection, or when that was lost, for any   *)
(* number of requests at a time (metrics.go:49-57, 71-85).                 *)
THEOREM FailuresHaveReasons == ScrapeSpec => []ScrapeFailsForAReason
<1>1. ExporterInv => ScrapeFailsForAReason
  BY DEF ExporterInv
<1>2. QED
  BY <1>1, InitExporterInv, NextExporterInv, PTL DEF ScrapeSpec

-----------------------------------------------------------------------------
(* pgcircuit notify: an event_id means nothing across a restart; what      *)
(* makes the argument inductive is that the connection does not survive    *)
(* one, so that the numbers in seen are all of one life, and that the seed *)
(* saw every row of the ring that a later poll may still find.             *)

(* The ring holds the newest events, newest first.                         *)
RecentAreNewest ==
    /\ issued <= MaxEvents
    /\ Len(recent) = IF issued < capacity THEN issued ELSE capacity
    /\ \A i \in 1..Len(recent) : recent[i].event_id = issued + 1 - i

(* The rows in hand were fetched, each once; none was seen before the      *)
(* seed, and a poll has none from before it that the seed missed.          *)
BatchInOrder ==
    /\ \A i \in 1..Len(batch) : batch[i].event_id \in 1..latest
    /\ \A i, j \in 1..Len(batch) : i < j => batch[i].event_id > batch[j].event_id
    /\ proc = "seed" => \A i \in 1..Len(batch) : batch[i].event_id \notin seen
    /\ proc = "poll" =>
          \A i \in 1..Len(batch) : batch[i].event_id \in seen \/ batch[i].event_id > first

InBatch(id) == \E i \in 1..Len(batch) : batch[i].event_id = id

(* What was retained when the watch began has been seen since.             *)
SeedCovers ==
    connected => \A id \in 1..first :
        id + capacity > first =>
            /\ proc \in {"watch", "poll"} => id \in seen
            /\ proc = "seed" => id \in seen \/ InBatch(id)

SeenOfOneLife ==
    /\ first <= latest /\ latest <= MaxEvents
    /\ seen \subseteq 1..latest
    /\ proc \in {"off", "connected"} => seen = {} /\ latest = 0
    /\ connected /\ proc \in {"seed", "watch", "poll"} => fetched = life /\ latest <= issued

PostedOnce ==
    \A e \in Events :
        /\ posts[e] <= 1
        /\ posts[e] > 0 => e[1] = fetched /\ e[2] \in seen /\ (catch_up \/ e[2] > first)

NotifyInv ==
    /\ TypeOK
    /\ RecentAreNewest
    /\ BatchInOrder
    /\ SeedCovers
    /\ SeenOfOneLife
    /\ PostedOnce

-----------------------------------------------------------------------------
LEMMA InitNotifyInv == Init => NotifyInv
<1> SUFFICES ASSUME Init
             PROVE  NotifyInv
  OBVIOUS
<1>1. /\ capacity \in Sizes /\ capacity \in 1..4096 /\ issued = 0 /\ recent = <<>>
      /\ views = [r \in {Notifier} |-> <<>>]
      /\ batch = <<>> /\ seen = {} /\ first = 0 /\ latest = 0
      /\ posts = [e \in Events |-> 0]
  BY SizesAssumption DEF Init, History!Init
<1>2. History!TypeOK
  BY <1>1 DEF History!TypeOK
<1>3. TypeOK
  <2>1. batch \in Seq(Rows) /\ posts \in [Events -> Nat] /\ seen \subseteq 1..MaxEvents
    BY <1>1
  <2>2. life \in 0..MaxRestarts /\ fetched \in 0..MaxRestarts
    BY BoundsAssumption DEF Init
  <2>3. /\ decisions \in DecisionSets /\ catch_up \in CatchUps
        /\ proc = "off" /\ connected \in BOOLEAN /\ signalled \in BOOLEAN
        /\ first \in Nat /\ latest \in Nat
    BY DEF Init
  <2>4. QED
    BY <1>2, <2>1, <2>2, <2>3 DEF TypeOK
<1>4. RecentAreNewest /\ BatchInOrder
  <2>1. Len(recent) = 0 /\ Len(batch) = 0 /\ 1..0 = {}
    BY <1>1
  <2>2. RecentAreNewest
    BY <1>1, <2>1, BoundsAssumption DEF RecentAreNewest
  <2>3. BatchInOrder
    BY <2>1 DEF BatchInOrder
  <2>4. QED
    BY <2>2, <2>3
<1>5. SeedCovers /\ SeenOfOneLife /\ PostedOnce
  BY <1>1, BoundsAssumption DEF Init, SeedCovers, SeenOfOneLife, PostedOnce
<1>6. QED
  BY <1>3, <1>4, <1>5 DEF NotifyInv

(* One more event: the newest is put first, the oldest falls out.          *)
LEMMA RecordKeepsRing ==
    ASSUME TypeOK, RecentAreNewest, NEW e \in RiskEvents, Record(e)
    PROVE  /\ RecentAreNewest'
           /\ recent' \in Seq(Rows)
           /\ issued' = issued + 1
           /\ \A i \in 1..Len(recent') : i > 1 => recent'[i] = recent[i - 1]
<1> DEFINE row == History!Numbered(e, issued + 1)
           longer == <<row>> \o recent
<1>1. /\ issued \in Nat /\ recent \in Seq(Rows) /\ capacity \in Nat /\ capacity > 0
      /\ issued < MaxEvents /\ MaxEvents \in Nat
  BY SizesAssumption, BoundsAssumption DEF TypeOK, History!TypeOK, Rows, Record
<1>2. row \in Rows /\ row.event_id = issued + 1
  BY <1>1 DEF History!Numbered, Rows
<1> HIDE DEF row
<1>3. /\ longer \in Seq(Rows) /\ Len(longer) = Len(recent) + 1
      /\ longer[1] = row
      /\ \A i \in 2..Len(longer) : longer[i] = recent[i - 1]
  BY <1>1, <1>2
<1> HIDE DEF longer
<1>4. recent' = (IF Len(longer) > capacity THEN SubSeq(longer, 1, capacity) ELSE longer)
      /\ issued' = issued + 1 /\ capacity' = capacity
  BY DEF Record, History!Record, History!AtMost, row, longer
<1>5. /\ recent' \in Seq(Rows)
      /\ Len(recent') = IF Len(longer) > capacity THEN capacity ELSE Len(longer)
      /\ \A i \in 1..Len(recent') : recent'[i] = longer[i]
  BY <1>1, <1>3, <1>4
<1>6. ASSUME NEW i \in 1..Len(longer)
      PROVE  longer[i].event_id = issued' + 1 - i
  <2>1. CASE i = 1
    BY <1>1, <1>2, <1>3, <1>4, <2>1
  <2>2. CASE i # 1
    <3>1. i \in 2..Len(longer) /\ i - 1 \in 1..Len(recent)
      BY <1>1, <1>3, <2>2
    <3>2. longer[i] = recent[i - 1]
      BY <1>3, <3>1
    <3>3. recent[i - 1].event_id = issued + 1 - (i - 1)
      BY <3>1 DEF RecentAreNewest
    <3>4. QED
      BY <1>1, <1>4, <3>1, <3>2, <3>3
  <2>3. QED
    BY <2>1, <2>2
<1>7. Len(recent') = IF issued' < capacity' THEN issued' ELSE capacity'
  BY <1>1, <1>3, <1>4, <1>5 DEF RecentAreNewest
<1>8. ASSUME NEW i \in 1..Len(recent')
      PROVE  recent'[i].event_id = issued' + 1 - i
  <2>1. i \in 1..Len(longer)
    BY <1>1, <1>3, <1>5
  <2>2. QED
    BY <1>5, <1>6, <2>1
<1>9. \A i \in 1..Len(recent') : i > 1 => recent'[i] = recent[i - 1]
  BY <1>1, <1>3, <1>5
<1>10. RecentAreNewest' /\ recent' \in Seq(Rows) /\ issued' = issued + 1
  BY <1>1, <1>4, <1>5, <1>7, <1>8 DEF RecentAreNewest
<1>11. QED
  BY <1>9, <1>10

LEMMA RecordNotifyInv ==
    ASSUME NotifyInv, NEW e \in RiskEvents, Record(e)
    PROVE  NotifyInv'
<1>1. /\ RecentAreNewest' /\ recent' \in Seq(Rows) /\ issued' = issued + 1
      /\ issued \in Nat
  BY RecordKeepsRing DEF NotifyInv, TypeOK, History!TypeOK
<1>2. UNCHANGED <<capacity, views, life, options, proc, connected, signalled, seen, batch,
                  fetched, ghosts, posts>>
  BY DEF Record, History!Record
<1>3. TypeOK'
  BY <1>1, <1>2 DEF NotifyInv, TypeOK, History!TypeOK, Rows, options, ghosts
<1>4. BatchInOrder' /\ SeedCovers' /\ PostedOnce'
  BY <1>2 DEF NotifyInv, BatchInOrder, SeedCovers, InBatch, PostedOnce, options, ghosts
<1>5. SeenOfOneLife'
  BY <1>1, <1>2 DEF NotifyInv, TypeOK, SeenOfOneLife, ghosts
<1>6. QED
  BY <1>1, <1>3, <1>4, <1>5 DEF NotifyInv

LEMMA RestartNotifyInv ==
    ASSUME NotifyInv, Restart
    PROVE  NotifyInv'
<1>1. /\ connected' = FALSE /\ issued' = 0 /\ recent' = <<>> /\ capacity' \in Sizes
      /\ views' = [r \in {Notifier} |-> <<>>]
      /\ life' = life + 1 /\ life < MaxRestarts
      /\ UNCHANGED <<options, proc, signalled, seen, batch, fetched, ghosts, posts>>
  BY DEF Restart, History!Restart
<1>2. TypeOK'
  <2>1. History!TypeOK'
    BY <1>1 DEF History!TypeOK
  <2>2. life' \in 0..MaxRestarts
    BY <1>1, BoundsAssumption DEF NotifyInv, TypeOK
  <2>3. QED
    BY <1>1, <2>1, <2>2 DEF NotifyInv, TypeOK, options, ghosts
<1>3. RecentAreNewest'
  BY <1>1, SizesAssumption, BoundsAssumption DEF RecentAreNewest
<1>4. BatchInOrder' /\ SeedCovers' /\ SeenOfOneLife' /\ PostedOnce'
  BY <1>1 DEF NotifyInv, BatchInOrder, SeedCovers, SeenOfOneLife, PostedOnce, options, ghosts
<1>5. QED
  BY <1>2, <1>3, <1>4 DEF NotifyInv

(* Steps that touch neither the ring nor what was fetched.                 *)
LEMMA CommandNotifyInv ==
    ASSUME NotifyInv, Signal \/ Connect \/ SeedFails \/ Watch \/ Stop
    PROVE  NotifyInv'
<1>1. CASE Signal
  BY <1>1 DEF Signal, NotifyInv, TypeOK, History!TypeOK, RecentAreNewest, BatchInOrder,
              SeedCovers, InBatch, SeenOfOneLife, PostedOnce, history, options, ghosts
<1>2. CASE Connect
  BY <1>2 DEF Connect, NotifyInv, TypeOK, History!TypeOK, RecentAreNewest, BatchInOrder,
              SeedCovers, InBatch, SeenOfOneLife, PostedOnce, history, options, ghosts
<1>3. CASE SeedFails
  <2>1. /\ proc = "connected" /\ proc' = "stopped"
        /\ UNCHANGED <<history, life, options, connected, signalled, seen, batch, fetched,
                       ghosts, posts>>
    BY <1>3 DEF SeedFails
  <2>2. latest' = 0 /\ seen' = {}
    BY <2>1 DEF NotifyInv, SeenOfOneLife, ghosts
  <2>3. TypeOK' /\ RecentAreNewest'
    BY <2>1 DEF NotifyInv, TypeOK, History!TypeOK, RecentAreNewest, history, options, ghosts
  <2>4. BatchInOrder' /\ SeedCovers'
    BY <2>1 DEF NotifyInv, BatchInOrder, SeedCovers, history, ghosts
  <2>5. SeenOfOneLife' /\ PostedOnce'
    BY <2>1, <2>2 DEF NotifyInv, SeenOfOneLife, PostedOnce, history, options, ghosts
  <2>6. QED
    BY <2>3, <2>4, <2>5 DEF NotifyInv
<1>4. CASE Watch \/ Stop
  <2>1. /\ proc \in {"seed", "poll", "watch"} /\ proc' \in {"watch", "stopped"}
        /\ proc = "seed" => batch = <<>>
        /\ UNCHANGED <<history, life, options, connected, signalled, seen, batch, fetched,
                       ghosts, posts>>
    BY <1>4 DEF Watch, Stop
  <2>2. SeedCovers'
    BY <2>1 DEF NotifyInv, SeedCovers, InBatch, history, ghosts
  <2>3. BatchInOrder'
    <3>1. batch' = batch /\ latest' = latest
      BY <2>1 DEF ghosts
    <3>2. QED
      BY <2>1, <3>1 DEF NotifyInv, BatchInOrder
  <2>4. TypeOK' /\ RecentAreNewest'
    BY <2>1 DEF NotifyInv, TypeOK, History!TypeOK, RecentAreNewest, history, options, ghosts
  <2>5. SeenOfOneLife' /\ PostedOnce'
    BY <2>1 DEF NotifyInv, SeenOfOneLife, PostedOnce, history, options, ghosts
  <2>6. QED
    BY <2>2, <2>3, <2>4, <2>5 DEF NotifyInv
<1>5. QED
  BY <1>1, <1>2, <1>3, <1>4

LEMMA RecentInOrder ==
    ASSUME NotifyInv
    PROVE  /\ \A i \in 1..Len(recent) : recent[i].event_id \in 1..issued
           /\ \A i, j \in 1..Len(recent) : i < j => recent[i].event_id > recent[j].event_id
<1>1. /\ issued \in Nat /\ Len(recent) \in Nat /\ capacity \in Nat
      /\ Len(recent) <= issued
  BY SizesAssumption DEF NotifyInv, TypeOK, History!TypeOK, RecentAreNewest
<1>2. \A i \in 1..Len(recent) : recent[i].event_id = issued + 1 - i
  BY DEF NotifyInv, RecentAreNewest
<1>3. QED
  BY <1>1, <1>2

(* A fetch: what it finds is numbered down from the newest.                *)
LEMMA FetchNotifyInv ==
    ASSUME NotifyInv, FetchSeed \/ Poll
    PROVE  NotifyInv'
<1>1. /\ batch' = recent /\ latest' = issued /\ fetched' = life /\ connected
      /\ views' = [views EXCEPT ![Notifier] = recent]
      /\ UNCHANGED <<capacity, issued, recent, life, options, connected, signalled, seen,
                     posts>>
  BY DEF FetchSeed, Poll, Fetch, History!Snapshot
<1>2. /\ issued \in Nat /\ latest \in Nat /\ first \in Nat /\ issued <= MaxEvents
      /\ recent \in Seq(Rows) /\ capacity \in Nat /\ capacity > 0 /\ MaxEvents \in Nat
      /\ life \in 0..MaxRestarts
  BY SizesAssumption, BoundsAssumption
     DEF NotifyInv, TypeOK, History!TypeOK, RecentAreNewest, Rows
<1>3. \A i \in 1..Len(recent) :
         /\ recent[i].event_id = issued + 1 - i
         /\ recent[i].event_id \in 1..issued
         /\ recent[i].event_id + capacity > issued
  BY <1>2 DEF NotifyInv, RecentAreNewest
<1>4. RecentAreNewest'
  BY <1>1 DEF NotifyInv, RecentAreNewest
<1>5. CASE FetchSeed
  <2>1. proc = "connected" /\ proc' = "seed" /\ first' = issued
    BY <1>5 DEF FetchSeed
  <2>2. seen = {} /\ \A e \in Events : ~(posts[e] > 0)
    BY <2>1 DEF NotifyInv, SeenOfOneLife, PostedOnce
  <2>3. TypeOK'
    BY <1>1, <1>2, <2>1 DEF NotifyInv, TypeOK, History!TypeOK, Rows, options
  <2>4. BatchInOrder'
    BY <1>1, <1>4, <2>1, <2>2, RecentInOrder, <1>2 DEF BatchInOrder
  <2>5. SeedCovers'
    <3>1. ASSUME NEW id \in 1..issued, id + capacity > issued
          PROVE  recent[issued + 1 - id].event_id = id /\ issued + 1 - id \in 1..Len(recent)
      <4>1. issued + 1 - id \in 1..Len(recent)
        BY <1>2, <3>1 DEF NotifyInv, RecentAreNewest
      <4>2. QED
        BY <1>2, <1>3, <3>1, <4>1
    <3>2. QED
      BY <1>1, <2>1, <3>1 DEF SeedCovers, InBatch
  <2>6. SeenOfOneLife'
    BY <1>1, <1>2, <2>1, <2>2 DEF SeenOfOneLife
  <2>7. PostedOnce'
    BY <1>1, <2>2 DEF NotifyInv, PostedOnce, options
  <2>8. QED
    BY <1>4, <2>3, <2>4, <2>5, <2>6, <2>7 DEF NotifyInv
<1>6. CASE Poll
  <2>1. proc = "watch" /\ proc' = "poll" /\ first' = first /\ fetched = life
        /\ latest <= issued /\ first <= latest
    BY <1>1, <1>6 DEF Poll, NotifyInv, SeenOfOneLife
  <2>2. TypeOK'
    BY <1>1, <1>2, <2>1 DEF NotifyInv, TypeOK, History!TypeOK, Rows, options
  <2>3. BatchInOrder'
    <3>1. ASSUME NEW i \in 1..Len(recent)
          PROVE  recent[i].event_id \in seen \/ recent[i].event_id > first
      BY <1>1, <1>2, <1>3, <2>1 DEF NotifyInv, SeedCovers
    <3>2. QED
      BY <1>1, <2>1, <3>1, RecentInOrder, <1>2 DEF BatchInOrder
  <2>4. SeedCovers'
    BY <1>1, <2>1 DEF NotifyInv, SeedCovers
  <2>5. SeenOfOneLife'
    BY <1>1, <1>2, <2>1 DEF NotifyInv, SeenOfOneLife
  <2>6. PostedOnce'
    BY <1>1, <2>1 DEF NotifyInv, PostedOnce, options
  <2>7. QED
    BY <1>4, <2>2, <2>3, <2>4, <2>5, <2>6 DEF NotifyInv
<1>7. QED
  BY <1>5, <1>6

(* A row is taken off the batch and counts as seen.                        *)
LEMMA RowSeen ==
    ASSUME NotifyInv, batch # <<>>,
           batch' = Tail(batch) \/ (batch' = <<>> /\ proc' = "stopped"),
           proc' = proc \/ proc' = "stopped",
           Mark(Head(batch)),
           UNCHANGED <<history, life, options, connected, signalled, fetched, ghosts>>
    PROVE  /\ Head(batch) \in Rows
           /\ Head(batch).event_id \in 1..latest
           /\ proc = "seed" => Head(batch).event_id \notin seen
           /\ proc = "poll" => Head(batch).event_id \in seen \/ Head(batch).event_id > first
           /\ batch' \in Seq(Rows)
           /\ BatchInOrder' /\ SeedCovers' /\ SeenOfOneLife'
<1> DEFINE id == Head(batch).event_id
<1>1. /\ batch \in Seq(Rows) /\ Len(batch) \in Nat \ {0} /\ Head(batch) = batch[1]
      /\ Tail(batch) \in Seq(Rows) /\ Len(Tail(batch)) = Len(batch) - 1
      /\ \A i \in 1..Len(Tail(batch)) : Tail(batch)[i] = batch[i + 1]
  BY DEF NotifyInv, TypeOK
<1>2. batch[1] \in Rows /\ 1 \in 1..Len(batch)
  BY <1>1
<1>3. /\ id \in 1..latest
      /\ proc = "seed" => id \notin seen
      /\ proc = "poll" => id \in seen \/ id > first
  BY <1>1, <1>2 DEF NotifyInv, BatchInOrder
<1>4. seen' = seen \cup {id} /\ first' = first /\ latest' = latest /\ capacity' = capacity
      /\ issued' = issued
  BY DEF Mark, ghosts, history
<1>5. batch' # <<>> => batch' = Tail(batch)
  OBVIOUS
<1>6. \A i \in 2..Len(batch) : batch[i].event_id < id /\ batch[i].event_id \in 1..latest
  BY <1>1, <1>2, <1>3 DEF NotifyInv, BatchInOrder, TypeOK
<1> HIDE DEF id
<1>7. BatchInOrder'
  <2>1. CASE batch' = <<>>
    BY <2>1 DEF BatchInOrder
  <2>2. CASE batch' # <<>>
    <3>1. ASSUME NEW i \in 1..Len(batch')
          PROVE  /\ batch'[i] = batch[i + 1] /\ i + 1 \in 2..Len(batch)
                 /\ batch[i + 1].event_id # id /\ batch[i + 1].event_id \in 1..latest
      <4>1. batch'[i] = batch[i + 1] /\ i + 1 \in 2..Len(batch)
        BY <1>1, <1>5, <2>2
      <4>2. batch[i + 1].event_id < id /\ batch[i + 1].event_id \in 1..latest
        BY <1>6, <4>1
      <4>3. latest \in Nat
        BY DEF NotifyInv, TypeOK
      <4>4. QED
        BY <1>3, <4>1, <4>2, <4>3
    <3>2. \A i, j \in 1..Len(batch') : i < j => batch'[i].event_id > batch'[j].event_id
      BY <1>1, <3>1 DEF NotifyInv, BatchInOrder
    <3>3. QED
      BY <1>1, <1>4, <3>1, <3>2 DEF NotifyInv, BatchInOrder
  <2>3. QED
    BY <2>1, <2>2
<1>8. SeedCovers'
  <2>1. SUFFICES ASSUME connected, NEW k \in 1..first, k + capacity > first
                 PROVE  /\ proc' \in {"watch", "poll"} => k \in seen'
                        /\ proc' = "seed" => k \in seen' \/ InBatch(k)'
    BY <1>4 DEF SeedCovers
  <2>2. CASE proc' = "seed"
    <3>1. proc = "seed" /\ batch' = Tail(batch)
      BY <2>2
    <3>2. k \in seen \/ InBatch(k)
      BY <2>1, <3>1 DEF NotifyInv, SeedCovers
    <3>3. CASE k \in seen \/ k = id
      BY <1>4, <2>2, <3>3
    <3>4. CASE InBatch(k) /\ k # id
      <4>1. PICK i \in 1..Len(batch) : batch[i].event_id = k
        BY <3>4 DEF InBatch
      <4>2. i # 1
        BY <1>1, <3>4, <4>1 DEF id
      <4>3. i - 1 \in 1..Len(Tail(batch)) /\ Tail(batch)[i - 1] = batch[i]
        BY <1>1, <4>1, <4>2
      <4>4. QED
        BY <2>2, <3>1, <4>1, <4>3 DEF InBatch
    <3>5. QED
      BY <3>2, <3>3, <3>4
  <2>3. CASE proc' # "seed"
    BY <1>4, <2>1, <2>3 DEF NotifyInv, SeedCovers
  <2>4. QED
    BY <2>2, <2>3
<1>9. SeenOfOneLife'
  <2>1. proc \notin {"off", "connected"}
    BY <1>1, <1>3 DEF NotifyInv, SeenOfOneLife
  <2>2. QED
    BY <1>3, <1>4, <2>1 DEF NotifyInv, SeenOfOneLife, ghosts
<1>10. batch' \in Seq(Rows)
  <2>1. CASE batch' = <<>>
    BY <2>1
  <2>2. CASE batch' = Tail(batch)
    BY <1>1, <2>2
  <2>3. QED
    BY <1>5, <2>1, <2>2
<1>11. QED
  BY <1>1, <1>2, <1>3, <1>7, <1>8, <1>9, <1>10 DEF id

(* A row that was not seen has not been POSTed.                            *)
LEMMA RowPosted ==
    ASSUME NotifyInv, NEW row \in Rows, row.event_id \in 1..latest,
           row.event_id \notin seen, catch_up \/ row.event_id > first,
           Deliver(row), Mark(row), UNCHANGED <<fetched, options, ghosts>>
    PROVE  posts' \in [Events -> Nat] /\ PostedOnce'
<1> DEFINE event == <<fetched, row.event_id>>
<1>1. event \in Events /\ event[1] = fetched /\ event[2] = row.event_id
  BY BoundsAssumption DEF NotifyInv, TypeOK, SeenOfOneLife, Events
<1>2. posts \in [Events -> Nat]
  BY DEF NotifyInv, TypeOK
<1> HIDE DEF event
<1>3. posts[event] = 0
  BY <1>1, <1>2 DEF NotifyInv, PostedOnce
<1>4. posts' = [posts EXCEPT ![event] = posts[event] + 1]
  BY DEF Deliver, event
<1>5. \A e \in Events : posts'[e] = IF e = event THEN 1 ELSE posts[e]
  BY <1>1, <1>2, <1>3, <1>4
<1>6. QED
  BY <1>1, <1>2, <1>4, <1>5 DEF NotifyInv, PostedOnce, Mark, options, ghosts

LEMMA RowPassed ==
    ASSUME NotifyInv, NEW row, Mark(row), UNCHANGED <<posts, fetched, options, ghosts>>
    PROVE  posts' \in [Events -> Nat] /\ PostedOnce'
BY DEF NotifyInv, TypeOK, PostedOnce, Mark, options, ghosts

LEMMA RowNotifyInv ==
    ASSUME NotifyInv, SeedRow \/ PollRow
    PROVE  NotifyInv'
<1> DEFINE row == Head(batch)
<1>1. /\ batch # <<>>
      /\ batch' = Tail(batch) \/ (batch' = <<>> /\ proc' = "stopped")
      /\ proc' = proc \/ proc' = "stopped"
      /\ Mark(row)
      /\ UNCHANGED <<history, life, options, connected, signalled, fetched, ghosts>>
  BY DEF SeedRow, PollRow
<1>2. /\ row \in Rows /\ row.event_id \in 1..latest
      /\ proc = "seed" => row.event_id \notin seen
      /\ proc = "poll" => row.event_id \in seen \/ row.event_id > first
      /\ batch' \in Seq(Rows)
      /\ BatchInOrder' /\ SeedCovers' /\ SeenOfOneLife'
  BY <1>1, RowSeen
<1> HIDE DEF row
<1>3. posts' \in [Events -> Nat] /\ PostedOnce'
  <2>1. CASE UNCHANGED posts
    BY <1>1, <2>1, RowPassed
  <2>2. CASE Deliver(row) /\ row.event_id \notin seen /\ (catch_up \/ row.event_id > first)
    BY <1>1, <1>2, <2>2, RowPosted
  <2>3. QED
    BY <1>2, <2>1, <2>2 DEF SeedRow, PollRow, row
<1>4. RecentAreNewest'
  BY <1>1 DEF NotifyInv, RecentAreNewest, history
<1>5. TypeOK'
  <2>1. seen' \subseteq 1..MaxEvents
    BY <1>1, <1>2, BoundsAssumption DEF NotifyInv, TypeOK, SeenOfOneLife, Mark
  <2>2. History!TypeOK'
    BY <1>1 DEF NotifyInv, TypeOK, History!TypeOK, history
  <2>3. QED
    BY <1>1, <1>2, <1>3, <2>1, <2>2 DEF NotifyInv, TypeOK, options, ghosts
<1>6. QED
  BY <1>2, <1>3, <1>4, <1>5 DEF NotifyInv

LEMMA NextNotifyInv == NotifyInv /\ [Next]_vars => NotifyInv'
<1> SUFFICES ASSUME NotifyInv, [Next]_vars
             PROVE  NotifyInv'
  OBVIOUS
<1>1. CASE UNCHANGED vars
  BY <1>1 DEF vars, NotifyInv, TypeOK, History!TypeOK, RecentAreNewest, BatchInOrder,
              SeedCovers, InBatch, SeenOfOneLife, PostedOnce, history, options, ghosts
<1>2. QED
  BY <1>1, RecordNotifyInv, RestartNotifyInv, CommandNotifyInv, FetchNotifyInv,
     RowNotifyInv DEF Next

(* The numbers in seen are of the one life the connection was opened in,   *)
(* and cover what the ring held at the start (notify.go:94-167).           *)
THEOREM NotifyInvariant == Spec => []NotifyInv
<1>1. QED
  BY InitNotifyInv, NextNotifyInv, PTL DEF Spec

(* No event is POSTed twice by one run of notify.                          *)
THEOREM PostedAtMostOnce == Spec => []AtMostOncePerEvent
<1>1. NotifyInv => AtMostOncePerEvent
  BY DEF NotifyInv, PostedOnce, AtMostOncePerEvent
<1>2. QED
  BY <1>1, NotifyInvariant, PTL

(* Without --catch-up only what came after the start is POSTed, whatever   *)
(* the size of the ring and however often the server restarts.             *)
THEOREM PostedOnlyIfNew == Spec => []OnlyNewEvents
<1>1. NotifyInv => OnlyNewEvents
  BY DEF NotifyInv, TypeOK, SeenOfOneLife, PostedOnce, OnlyNewEvents, Known, Events
<1>2. QED
  BY <1>1, NotifyInvariant, PTL

-----------------------------------------------------------------------------
(***************************************************************************)
(* What a poll leaves behind.  An event keeps its row for as long as the   *)
(* ring holds it, so that a number seen in an earlier poll says what a     *)
(* later poll will find under it; and the ring forgets only its oldest, so *)
(* that a number seen and still in the ring was in the last view.          *)
(***************************************************************************)
View == views[Notifier]

Watching == connected /\ proc \in {"seed", "watch", "poll"}

(* The last view is what the ring held when latest events were issued.     *)
ViewOfRing ==
    /\ Len(View) = IF latest < capacity THEN latest ELSE capacity
    /\ \A i \in 1..Len(View) : View[i].event_id = latest + 1 - i
    /\ \A i \in 1..Len(View) :
          i + issued - latest <= Len(recent) => recent[i + issued - latest] = View[i]

(* The batch is the part of the view that was not looked at.               *)
BatchIsRest ==
    /\ proc = "watch" => batch = <<>>
    /\ Len(batch) <= Len(View)
    /\ \A i \in 1..Len(batch) : batch[i] = View[Len(View) - Len(batch) + i]
    /\ \A i \in 1..(Len(View) - Len(batch)) : View[i].event_id \in seen

Posted(row) ==
    row.event_id \in seen /\ Wanted(row) /\ row.event_id > first
        => posts[<<fetched, row.event_id>>] = 1

SeenArePosted ==
    /\ proc = "seed" => first = latest
    /\ \A i \in 1..Len(View) : Posted(View[i])

DeliveryInv ==
    /\ ~connected => View = <<>>
    /\ Watching => ViewOfRing /\ BatchIsRest /\ SeenArePosted

LEMMA InitDeliveryInv == Init => DeliveryInv
BY DEF Init, History!Init, DeliveryInv, Watching, View

(* Types of what the conjuncts speak about.                                *)
LEMMA DeliveryTypes ==
    ASSUME NotifyInv
    PROVE  /\ issued \in Nat /\ latest \in Nat /\ first \in Nat
           /\ capacity \in Nat /\ capacity > 0
           /\ View \in Seq(Rows) /\ Len(View) \in Nat
           /\ recent \in Seq(Rows) /\ Len(recent) \in Nat
           /\ batch \in Seq(Rows) /\ Len(batch) \in Nat
<1>1. /\ issued \in Nat /\ latest \in Nat /\ first \in Nat
      /\ capacity \in Nat /\ capacity > 0
  BY SizesAssumption DEF NotifyInv, TypeOK, History!TypeOK
<1>2. View \in Seq(Rows) /\ recent \in Seq(Rows) /\ batch \in Seq(Rows)
  BY DEF NotifyInv, TypeOK, History!TypeOK, Rows, View
<1>3. QED
  BY <1>1, <1>2

(* An event more: the rows of the ring move one place down.                *)
LEMMA RecordDelivery ==
    ASSUME NotifyInv, DeliveryInv, NEW e \in RiskEvents, Record(e)
    PROVE  DeliveryInv'
<1>1. /\ issued' = issued + 1
      /\ \A i \in 1..Len(recent') : i > 1 => recent'[i] = recent[i - 1]
      /\ Len(recent') \in Nat /\ Len(recent') <= Len(recent) + 1
  <2>1. RecentAreNewest' /\ recent' \in Seq(Rows) /\ issued' = issued + 1
    BY RecordKeepsRing DEF NotifyInv
  <2>2. capacity' = capacity
    BY DEF Record, History!Record
  <2>3. Len(recent') \in Nat /\ Len(recent') <= Len(recent) + 1
    BY <2>1, <2>2, DeliveryTypes DEF NotifyInv, RecentAreNewest
  <2>4. QED
    BY <2>1, <2>3, RecordKeepsRing DEF NotifyInv
<1>2. UNCHANGED <<capacity, views, life, options, proc, connected, signalled, seen, batch,
                  fetched, ghosts, posts>>
  BY DEF Record, History!Record
<1>3. View' = View /\ first' = first /\ latest' = latest /\ decisions' = decisions
  BY <1>2 DEF View, ghosts, options
<1>4. ASSUME Watching
      PROVE  ViewOfRing'
  <2>1. ASSUME NEW i \in 1..Len(View), i + (issued + 1) - latest <= Len(recent')
        PROVE  recent'[i + (issued + 1) - latest] = View[i]
    <3>1. latest <= issued
      BY <1>4 DEF NotifyInv, SeenOfOneLife, Watching
    <3> DEFINE k == i + (issued + 1) - latest
    <3>2. k \in 1..Len(recent') /\ k > 1
      BY <1>1, <2>1, <3>1, DeliveryTypes
    <3>3. k - 1 = i + issued - latest /\ i + issued - latest <= Len(recent)
      BY <1>1, <2>1, DeliveryTypes
    <3> HIDE DEF k
    <3>4. recent'[k] = recent[k - 1]
      BY <1>1, <3>2
    <3>5. recent[i + issued - latest] = View[i]
      BY <1>4, <3>3 DEF DeliveryInv, ViewOfRing
    <3>6. QED
      BY <3>3, <3>4, <3>5 DEF k
  <2>2. QED
    BY <1>1, <1>2, <1>3, <1>4, <2>1 DEF DeliveryInv, ViewOfRing
<1>5. ASSUME Watching
      PROVE  BatchIsRest' /\ SeenArePosted'
  BY <1>2, <1>3, <1>5 DEF DeliveryInv, BatchIsRest, SeenArePosted, Posted, Wanted
<1>6. QED
  BY <1>2, <1>3, <1>4, <1>5 DEF DeliveryInv, Watching

(* A restart closes the connection for good.                               *)
LEMMA RestartDelivery ==
    ASSUME NotifyInv, DeliveryInv, Restart
    PROVE  DeliveryInv'
<1>1. connected' = FALSE /\ View' = <<>>
  BY DEF Restart, History!Restart, View
<1>2. QED
  BY <1>1 DEF DeliveryInv, Watching

LEMMA CommandDelivery ==
    ASSUME NotifyInv, DeliveryInv, Signal \/ Connect \/ SeedFails \/ Watch \/ Stop
    PROVE  DeliveryInv'
<1>1. UNCHANGED <<history, seen, batch, fetched, ghosts, posts, options>>
  BY DEF Signal, Connect, SeedFails, Watch, Stop
<1>2. View' = View /\ (ViewOfRing <=> ViewOfRing')
  BY <1>1 DEF View, ViewOfRing, history, ghosts
<1>3. CASE Watch
  <2>1. proc \in {"seed", "poll"} /\ proc' = "watch" /\ connected' = connected /\ batch = <<>>
    BY <1>3 DEF Watch
  <2>2. Watching => BatchIsRest'
    BY <1>1, <1>2, <2>1 DEF DeliveryInv, BatchIsRest
  <2>3. Watching => SeenArePosted'
    BY <1>1, <1>2, <2>1 DEF DeliveryInv, SeenArePosted, Posted, Wanted, ghosts, options
  <2>4. QED
    BY <1>2, <2>1, <2>2, <2>3 DEF DeliveryInv, Watching
<1>4. CASE Signal
  <2>1. proc' = proc /\ connected' = connected
    BY <1>4 DEF Signal
  <2>2. Watching => BatchIsRest'
    BY <1>1, <1>2, <2>1 DEF DeliveryInv, BatchIsRest
  <2>3. Watching => SeenArePosted'
    BY <1>1, <1>2, <2>1 DEF DeliveryInv, SeenArePosted, Posted, Wanted, ghosts, options
  <2>4. QED
    BY <1>2, <2>1, <2>2, <2>3 DEF DeliveryInv, Watching
<1>5. CASE Connect \/ SeedFails \/ Stop
  <2>1. proc' \in {"connected", "stopped"} /\ (connected' = connected \/ connected')
    BY <1>5 DEF Connect, SeedFails, Stop
  <2>2. QED
    BY <1>2, <2>1 DEF DeliveryInv, Watching
<1>6. QED
  BY <1>3, <1>4, <1>5

(* A fetch: a number seen before was in the last view, under the same row. *)
LEMMA FetchDelivery ==
    ASSUME NotifyInv, DeliveryInv, FetchSeed \/ Poll
    PROVE  DeliveryInv'
<1>1. /\ batch' = recent /\ latest' = issued /\ fetched' = life /\ connected
      /\ connected' = connected /\ View' = recent
      /\ UNCHANGED <<capacity, issued, recent, life, options, seen, posts>>
  BY DEF FetchSeed, Poll, Fetch, History!Snapshot, NotifyInv, TypeOK, History!TypeOK, View
<1>2. ViewOfRing'
  <2>1. /\ Len(recent) = IF issued < capacity THEN issued ELSE capacity
        /\ \A i \in 1..Len(recent) : recent[i].event_id = issued + 1 - i
    BY DEF NotifyInv, RecentAreNewest
  <2>2. \A i \in 1..Len(recent) : i + issued - issued = i
    BY DeliveryTypes
  <2>3. QED
    BY <1>1, <2>1, <2>2 DEF ViewOfRing
<1>3. proc' # "watch"
  BY DEF FetchSeed, Poll
<1>4. BatchIsRest'
  <2>1. Len(recent) - Len(recent) = 0 /\ 1..0 = {}
    BY DeliveryTypes
  <2>2. \A i \in 1..Len(recent) : Len(recent) - Len(recent) + i = i
    BY DeliveryTypes
  <2>3. Len(recent) <= Len(recent)
    BY DeliveryTypes
  <2>4. QED
    BY <1>1, <1>3, <2>1, <2>2, <2>3 DEF BatchIsRest
<1>5. CASE FetchSeed
  <2>1. proc = "connected" /\ first' = issued /\ seen = {}
    BY <1>5 DEF FetchSeed, NotifyInv, SeenOfOneLife
  <2>2. SeenArePosted'
    BY <1>1, <2>1 DEF SeenArePosted, Posted
  <2>3. QED
    BY <1>1, <1>2, <1>4, <2>2 DEF DeliveryInv
<1>6. CASE Poll
  <2>1. proc = "watch" /\ first' = first /\ proc' = "poll"
    BY <1>6 DEF Poll
  <2>2. /\ Watching /\ ViewOfRing /\ SeenArePosted /\ fetched = life /\ latest <= issued
        /\ seen \subseteq 1..latest
    BY <1>1, <2>1 DEF DeliveryInv, Watching, NotifyInv, SeenOfOneLife
  <2>3. ASSUME NEW j \in 1..Len(recent), recent[j].event_id \in seen
        PROVE  \E i \in 1..Len(View) : recent[j] = View[i]
    <3>1. /\ recent[j].event_id = issued + 1 - j
          /\ Len(recent) = IF issued < capacity THEN issued ELSE capacity
      BY DEF NotifyInv, RecentAreNewest
    <3>2. issued + 1 - j <= latest
      BY <2>2, <2>3, <3>1, DeliveryTypes
    <3>3. DEFINE i == j - (issued - latest)
    <3>4. i \in 1..Len(View) /\ i + issued - latest = j
      BY <2>2, <3>1, <3>2, DeliveryTypes DEF ViewOfRing
    <3> HIDE DEF i
    <3>5. j <= Len(recent)
      BY DeliveryTypes
    <3>6. recent[i + issued - latest] = View[i]
      BY <2>2, <3>4, <3>5 DEF ViewOfRing
    <3>7. QED
      BY <3>4, <3>6
  <2>4. \A j \in 1..Len(recent) : Posted(recent[j])
    BY <2>2, <2>3 DEF SeenArePosted, Posted
  <2>5. SeenArePosted'
    BY <1>1, <2>1, <2>2, <2>4 DEF SeenArePosted, Posted, Wanted, options
  <2>6. QED
    BY <1>1, <1>2, <1>4, <2>5 DEF DeliveryInv
<1>7. QED
  BY <1>5, <1>6

(* A row looked at counts as seen, and was handed to the webhook if it was *)
(* wanted and new.                                                         *)
LEMMA RowDelivery ==
    ASSUME NotifyInv, DeliveryInv, SeedRow \/ PollRow
    PROVE  DeliveryInv'
<1> DEFINE row == Head(batch)
           next == Len(View) - Len(batch) + 1
<1>1. /\ batch # <<>> /\ Mark(row)
      /\ UNCHANGED <<history, life, options, connected, signalled, fetched, ghosts>>
      /\ (proc' = proc /\ batch' = Tail(batch)) \/ proc' = "stopped"
      /\ proc \in {"seed", "poll"}
  BY DEF SeedRow, PollRow
<1>2. View' = View /\ first' = first /\ latest' = latest
  BY <1>1 DEF View, history, ghosts
<1>3. CASE ~Watching \/ proc' = "stopped"
  <2>1. ~Watching'
    BY <1>1, <1>3 DEF Watching
  <2>2. QED
    BY <1>1, <1>2, <2>1 DEF DeliveryInv
<1>4. CASE Watching /\ proc' = proc /\ batch' = Tail(batch)
  <2>1. ViewOfRing /\ BatchIsRest /\ SeenArePosted
    BY <1>4 DEF DeliveryInv
  <2>2. /\ row = batch[1] /\ Len(batch) \in Nat \ {0}
        /\ Len(batch') = Len(batch) - 1
        /\ \A i \in 1..Len(batch') : batch'[i] = batch[i + 1]
    BY <1>1, <1>4, DeliveryTypes
  <2>3. next \in 1..Len(View) /\ row = View[next]
    BY <2>1, <2>2, DeliveryTypes DEF BatchIsRest
  <2>4. seen' = seen \cup {row.event_id}
    BY <1>1 DEF Mark
  <2>5. ViewOfRing'
    BY <1>1, <1>2, <2>1 DEF ViewOfRing, history
  <2>6. BatchIsRest'
    <3>1. proc # "watch"
      BY <1>1
    <3>2. ASSUME NEW i \in 1..Len(batch')
          PROVE  batch'[i] = View[Len(View) - Len(batch') + i]
      <4>1. i + 1 \in 1..Len(batch) /\ Len(View) - Len(batch) + (i + 1) = Len(View) - Len(batch') + i
        BY <2>2, DeliveryTypes
      <4>2. batch[i + 1] = View[Len(View) - Len(batch) + (i + 1)]
        BY <2>1, <4>1 DEF BatchIsRest
      <4>3. QED
        BY <2>2, <4>1, <4>2
    <3>3. ASSUME NEW i \in 1..(Len(View) - Len(batch'))
          PROVE  View[i].event_id \in seen'
      <4>1. i = next \/ i \in 1..(Len(View) - Len(batch))
        <5>1. Len(View) - Len(batch') = Len(View) - Len(batch) + 1
          BY <2>2, DeliveryTypes
        <5> DEFINE past == Len(View) - Len(batch)
        <5>2. past \in Int /\ next = past + 1
          BY DeliveryTypes
        <5> HIDE DEF past
        <5>3. i \in 1..(past + 1)
          BY <5>1 DEF past
        <5>4. i = past + 1 \/ i \in 1..past
          BY <5>2, <5>3
        <5>5. QED
          BY <5>2, <5>4 DEF past
      <4>2. QED
        BY <2>1, <2>3, <2>4, <4>1 DEF BatchIsRest
    <3>4. Len(batch') <= Len(View)
      BY <2>1, <2>2, DeliveryTypes DEF BatchIsRest
    <3>5. QED
      BY <1>2, <1>4, <3>1, <3>2, <3>3, <3>4 DEF BatchIsRest
  <2> HIDE DEF next, row
  <2>7. SeenArePosted'
    <3>1. CASE proc = "seed"
      <4>1. first = latest
        BY <2>1, <3>1 DEF SeenArePosted
      <4>2. \A i \in 1..Len(View) : ~(View[i].event_id > first)
        BY <2>1, <4>1, DeliveryTypes DEF ViewOfRing
      <4>3. QED
        BY <1>2, <1>4, <4>1, <4>2 DEF SeenArePosted, Posted
    <3>2. CASE proc = "poll"
      <4>1. ASSUME NEW i \in 1..Len(View), View[i].event_id \in seen', Wanted(View[i]),
                   View[i].event_id > first
            PROVE  posts'[<<fetched, View[i].event_id>>] = 1
        <5> DEFINE event == <<fetched, View[i].event_id>>
                   given == <<fetched, row.event_id>>
        <5>1. /\ posts \in [Events -> Nat] /\ row.event_id \in 1..latest
              /\ View[i].event_id \in 1..latest /\ latest <= MaxEvents
              /\ fetched \in 0..MaxRestarts /\ MaxRestarts \in Nat /\ MaxEvents \in Nat
          <6>1. /\ posts \in [Events -> Nat] /\ fetched \in 0..MaxRestarts
                /\ latest <= MaxEvents /\ MaxRestarts \in Nat /\ MaxEvents \in Nat
            BY BoundsAssumption DEF NotifyInv, TypeOK, SeenOfOneLife
          <6>2. \A j \in 1..Len(View) : View[j].event_id \in 1..latest
            BY <2>1, DeliveryTypes DEF ViewOfRing
          <6>3. QED
            BY <2>3, <6>1, <6>2
        <5>2. event \in Events /\ given \in Events
          <6>1. View[i].event_id \in 1..MaxEvents /\ row.event_id \in 1..MaxEvents
            BY <5>1, DeliveryTypes
          <6>2. QED
            BY <5>1, <6>1 DEF Events
        <5>3. CASE View[i].event_id \in seen
          <6>1. posts[event] = 1
            BY <2>1, <4>1, <5>3 DEF SeenArePosted, Posted
          <6>2. CASE row.event_id \in seen
            BY <3>2, <6>1, <6>2 DEF SeedRow, PollRow, row
          <6>3. CASE row.event_id \notin seen
            <7>1. event # given
              BY <5>3, <6>3
            <7>2. posts' = posts \/ posts' = [posts EXCEPT ![given] = @ + 1]
              BY <3>2 DEF SeedRow, PollRow, Deliver, row
            <7>3. QED
              BY <5>1, <5>2, <6>1, <7>1, <7>2
          <6>4. QED
            BY <6>2, <6>3
        <5>4. CASE View[i].event_id \notin seen
          <6>1. View[i].event_id = row.event_id /\ i = next
            BY <2>1, <2>3, <2>4, <4>1, <5>4, DeliveryTypes DEF ViewOfRing
          <6>2. posts' = [posts EXCEPT ![event] = @ + 1]
            BY <2>3, <3>2, <4>1, <5>4, <6>1 DEF SeedRow, PollRow, Deliver, row
          <6>3. posts[event] = 0
            BY <5>1, <5>2, <5>4 DEF NotifyInv, PostedOnce
          <6>4. QED
            BY <5>1, <5>2, <6>2, <6>3
        <5>5. QED
          BY <5>3, <5>4
      <4>2. fetched' = fetched /\ decisions' = decisions
        BY <1>1 DEF options
      <4>3. QED
        BY <1>2, <1>4, <3>2, <4>1, <4>2 DEF SeenArePosted, Posted, Wanted
    <3>3. QED
      BY <1>1, <3>1, <3>2
  <2>8. QED
    BY <1>1, <1>4, <2>5, <2>6, <2>7 DEF DeliveryInv, Watching
<1>5. QED
  BY <1>1, <1>3, <1>4

LEMMA NextDeliveryInv == NotifyInv /\ DeliveryInv /\ [Next]_vars => DeliveryInv'
<1> SUFFICES ASSUME NotifyInv, DeliveryInv, [Next]_vars
             PROVE  DeliveryInv'
  OBVIOUS
<1>1. CASE UNCHANGED vars
  <2>1. UNCHANGED <<history, proc, connected, seen, batch, fetched, ghosts, posts, options>>
    BY <1>1 DEF vars
  <2>2. View' = View /\ (Watching <=> Watching')
    BY <2>1 DEF View, Watching, history
  <2>3. (ViewOfRing <=> ViewOfRing') /\ (BatchIsRest <=> BatchIsRest')
    BY <2>1, <2>2 DEF ViewOfRing, BatchIsRest, history, ghosts
  <2>4. SeenArePosted <=> SeenArePosted'
    BY <2>1, <2>2 DEF SeenArePosted, Posted, Wanted, ghosts, options
  <2>5. QED
    BY <2>1, <2>2, <2>3, <2>4 DEF DeliveryInv
<1>2. QED
  BY <1>1, RecordDelivery, RestartDelivery, CommandDelivery, FetchDelivery,
     RowDelivery DEF Next

(* Between two polls every wanted event that was fetched and came after    *)
(* the start has been handed to the webhook exactly once, whatever became  *)
(* of the rows before it and however often it was fetched                  *)
(* (notify.go:151-165).                                                    *)
THEOREM PollsLeaveNothingOut == Spec => []PollsAreExhausted
<1>1. Spec => []DeliveryInv
  BY InitDeliveryInv, NextDeliveryInv, NotifyInvariant, PTL DEF Spec
<1>2. NotifyInv /\ DeliveryInv => PollsAreExhausted
  <2> SUFFICES ASSUME NotifyInv, DeliveryInv, proc = "watch", NEW i \in 1..Len(View),
                      Wanted(View[i]), View[i].event_id > first
               PROVE  posts[<<fetched, View[i].event_id>>] = 1
    BY DEF PollsAreExhausted, View
  <2>1. connected
    BY DEF DeliveryInv
  <2>2. ViewOfRing /\ BatchIsRest /\ SeenArePosted
    BY <2>1 DEF DeliveryInv, Watching
  <2>3. View[i].event_id \in seen
    <3>1. Len(batch) = 0 /\ Len(View) - Len(batch) = Len(View)
      BY <2>2, DeliveryTypes DEF BatchIsRest
    <3>2. QED
      BY <2>2, <3>1 DEF BatchIsRest
  <2>4. QED
    BY <2>2, <2>3 DEF SeenArePosted, Posted
<1>3. QED
  BY <1>1, <1>2, NotifyInvariant, PTL

=============================================================================
