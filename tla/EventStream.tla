---------------------------- MODULE EventStream ----------------------------
(***************************************************************************)
(* The stream of a session's events to one browser                         *)
(* (backend/api/streaming.py, backend/api/event_poller.py,                  *)
(* frontend/src/lib/utils/sse.ts) on top of EventPipeline, which publishes  *)
(* the events and brings them to PostgreSQL.                                *)
(*                                                                          *)
(* A connection subscribes to the channel of the session or, when Redis is  *)
(* down, polls PostgreSQL; a browser that has lost its connection names the *)
(* last event it has seen, and is first sent what it missed.  The server    *)
(* may be interrupted wherever it yields an event.                          *)
(***************************************************************************)
EXTENDS EventPipeline, SequencesExt

CONSTANTS
  Watched,          \* the session the browser shows
  batch_size,       \* events of one poll (50)
  MaxConnections    \* bound: connections of the browser

ASSUME StreamAssumption ==
  Watched \in Sessions /\ batch_size \in Nat \ {0} /\ MaxConnections \in Nat

VARIABLES
  lastEventId,      \* of the browser: the number of the last event, or 0
  got,              \* every event the browser has received, in order
  stream,           \* the generator of the server
  inbox,            \* messages of the channel it has not read
  outbox,           \* events it has read from a store and not sent
  behind,           \* the first connection whose replay lacked an event, or 0
  connections,      \* connections so far
  since             \* events published before the last of them that had no id

streamVars == <<lastEventId, got, stream, inbox, outbox, behind, connections, since>>
allVars == <<vars, streamVars>>

Off == [stage |-> "off", via |-> "pubsub", resume |-> 0, seen |-> {}, last_sequence |-> 0]

StreamInit ==
  /\ Init
  /\ lastEventId = 0 /\ got = <<>> /\ stream = Off /\ inbox = <<>> /\ outbox = <<>>
  /\ behind = 0 /\ connections = 0 /\ since = 0

Number(e) == published[e].number
Numbers(list) == {Number(list[i]) : i \in DOMAIN list}
Connected == stream.stage \in {"connected", "replaying", "live"}

----------------------------------------------------------------------------
(* Mutant: the subscription begins when the replay is over. *)
Subscribed_after_replay == stream.via = "pubsub" /\ stream.stage = "live"


(* The listing of events in the order in which they were published.          *)
InTurn(S) == {list \in SetToSeqs(S) : \A i, j \in DOMAIN list : i < j => list[i] < list[j]}

(* Messages of the channel are kept for the stream from its first step on.   *)
Subscribed == stream.via = "pubsub" /\ Connected

(* The channel carries what publish_event publishes to it; when its call     *)
(* fails the message may have been sent all the same.                        *)
Hear ==
  \E heard \in SUBSET {e \in (Len(published) + 1)..Len(published') :
                         published'[e].session = Watched /\ published'[e].reach # "none"} :
    /\ \A e \in (Len(published) + 1)..Len(published') :
         published'[e].session = Watched /\ published'[e].reach = "all" => e \in heard
    /\ \E list \in InTurn(heard) : inbox' = IF Subscribed THEN inbox \o list ELSE inbox

(* A step of the pipeline; the death of the process takes the stream along.  *)
Beside(A) ==
  /\ A
  /\ faults'.crash = faults.crash
  /\ Hear
  /\ UNCHANGED <<lastEventId, got, stream, outbox, behind, connections, since>>

Restart ==
  /\ Crash
  /\ stream' = IF Connected THEN Off ELSE stream
  /\ inbox' = <<>> /\ outbox' = <<>>
  /\ UNCHANGED <<lastEventId, got, behind, connections, since>>

StreamStep == LoopFree /\ UNCHANGED <<published, memory, stores, worker, meeting>>

----------------------------------------------------------------------------
(* stream_session_events up to its first yield: the subscription or, when    *)
(* the circuit is open or the ping fails, the poller.                        *)
Connect ==
  /\ StreamStep
  /\ stream.stage = "off" /\ connections < MaxConnections
  /\ \E redis \in {0, 1} :
       /\ Spend(0, 0, redis)
       /\ stream' = [Off EXCEPT !.stage = "connected", !.resume = lastEventId,
                       !.via = IF redis = 0 THEN "pubsub" ELSE "polling",
                       !.last_sequence = IF redis = 0 THEN 0 ELSE lastEventId]
  /\ connections' = connections + 1
  /\ since' = IF lastEventId = 0 THEN Len(published) ELSE since
  /\ UNCHANGED <<lastEventId, got, inbox, outbox, behind>>

Later(number) == {e \in Of(Watched) : Number(e) > number}

(* get_events, and what is newer than a number: the rows of the session in   *)
(* the order of their sequence; what is read of each is the event with the   *)
(* number of its publication.                                                *)
get_events(number) ==
  {[i \in DOMAIN list |-> list[i].event] : list \in
     {l \in SetToSeqs({r \in rows : r.event \in Later(number)}) :
        \A i, j \in DOMAIN l : i < j => l[i].sequence <= l[j].sequence}}

(* events_history of the session: every event that reached the list.         *)
Listed(number) == {e \in Later(number) : published[e].reach # "none"}

(* get_event_history_with_fallback, read in one piece: the list in Redis or,  *)
(* if that fails or is empty, the table; when the table fails too the stream *)
(* goes on without a replay.  The first connection of a browser has none.    *)
MissedEvents ==
  IF stream.resume = 0 THEN {[events |-> <<>>, pg |-> 0, redis |-> 0]}
  ELSE LET redis == IF Listed(0) = {} THEN 0 ELSE 1 IN
       {[events |-> list, pg |-> 0, redis |-> 0] :
          list \in IF Listed(0) = {} THEN {} ELSE InTurn(Listed(stream.resume))}
       \cup {[events |-> list, pg |-> 0, redis |-> redis] : list \in get_events(stream.resume)}
       \cup {[events |-> <<>>, pg |-> 1, redis |-> redis]}

(* A replay that precedes the channel falls short of the list in Redis.      *)
FallsShort(events) ==
  stream.via = "pubsub" /\ stream.resume # 0 /\ ToSet(events) # Listed(stream.resume)

Replay ==
  /\ StreamStep
  /\ stream.stage = "connected"
  /\ \E missed \in MissedEvents :
       /\ Spend(missed.pg, 0, missed.redis)
       /\ outbox' = missed.events
       /\ stream' = [stream EXCEPT
            !.stage = IF missed.events = <<>> THEN "live" ELSE "replaying",
            !.last_sequence = IF stream.via = "polling"
              THEN Max({@} \cup Numbers(missed.events)) ELSE @]
       /\ behind' = IF behind = 0 /\ FallsShort(missed.events) THEN connections ELSE behind
  /\ UNCHANGED <<lastEventId, got, inbox, connections, since>>

(* The browser takes over the id of each message (processMessage).           *)
Yield(e) == got' = Append(got, e) /\ lastEventId' = Number(e)

SendReplayed ==
  /\ StreamStep
  /\ stream.stage = "replaying"
  /\ Yield(Head(outbox))
  /\ outbox' = Tail(outbox)
  /\ stream' = [stream EXCEPT !.seen = @ \cup {Number(Head(outbox))},
                              !.stage = IF Len(outbox) = 1 THEN "live" ELSE @]
  /\ UNCHANGED <<faults, inbox, behind, connections, since>>

(* "complete" ends the stream, and so does an error, which is critical.       *)
Closes(e) == CASE published[e].kind = "complete" -> {TRUE}
               [] published[e].kind = "critical" -> BOOLEAN
               [] OTHER -> {FALSE}

(* Mutant: what was replayed is sent again. *)
Deliver_undeduplicated(e, rest) ==
  \E closed \in Closes(e) :
    /\ Yield(e)
    /\ stream' = IF closed THEN [Off EXCEPT !.stage = "closed"]
                 ELSE [stream EXCEPT !.seen = @ \cup {Number(e)}]
    /\ rest' = IF closed THEN <<>> ELSE Tail(rest)

(* Mutant: a duplicate ends the loop over the batch. *)
Deliver_breaks_at_duplicate(e, rest) ==
  IF Number(e) \in stream.seen
    THEN rest' = <<>> /\ UNCHANGED <<lastEventId, got, stream>>
    ELSE \E closed \in Closes(e) :
           /\ Yield(e)
           /\ stream' = IF closed THEN [Off EXCEPT !.stage = "closed"]
                        ELSE [stream EXCEPT !.seen = @ \cup {Number(e)}]
           /\ rest' = IF closed THEN <<>> ELSE Tail(rest)


(* The next event of a live stream, out of the channel or of a poll.  The    *)
(* browser is an administrator's: from any other strip_cost_data withholds   *)
(* the events of costs, here and in the replay, without noting their number. *)
Deliver(e, rest) ==
  IF Number(e) \in stream.seen
    THEN rest' = Tail(rest) /\ UNCHANGED <<lastEventId, got, stream>>
    ELSE \E closed \in Closes(e) :
           /\ Yield(e)
           /\ stream' = IF closed THEN [Off EXCEPT !.stage = "closed"]
                        ELSE [stream EXCEPT !.seen = @ \cup {Number(e)}]
           /\ rest' = IF closed THEN <<>> ELSE Tail(rest)

SendHeard ==
  /\ StreamStep
  /\ stream.stage = "live" /\ stream.via = "pubsub"
  /\ inbox # <<>>
  /\ Deliver(Head(inbox), inbox)
  /\ UNCHANGED <<faults, outbox, behind, connections, since>>

SendPolled ==
  /\ StreamStep
  /\ stream.stage = "live" /\ stream.via = "polling"
  /\ outbox # <<>>
  /\ Deliver(Head(outbox), outbox)
  /\ UNCHANGED <<faults, inbox, behind, connections, since>>

(* get_message raises: from here on the stream polls from the last event.    *)
RedisError ==
  /\ StreamStep
  /\ stream.stage = "live" /\ stream.via = "pubsub"
  /\ Spend(0, 0, 1)
  /\ stream' = [stream EXCEPT !.via = "polling",
       !.last_sequence = IF stream.seen = {} THEN stream.resume ELSE Max(stream.seen)]
  /\ inbox' = <<>>
  /\ UNCHANGED <<lastEventId, got, outbox, behind, connections, since>>

(* poll_once; an error of PostgreSQL counts as an empty poll.                 *)
Poll ==
  /\ StreamStep
  /\ stream.stage = "live" /\ stream.via = "polling"
  /\ outbox = <<>>
  /\ \E new \in get_events(stream.last_sequence) :
       /\ new # <<>>
       /\ outbox' = SubSeq(new, 1, Min({batch_size, Len(new)}))
       /\ stream' = [stream EXCEPT !.last_sequence = Max(Numbers(outbox'))]
  /\ UNCHANGED <<faults, lastEventId, got, inbox, behind, connections, since>>

(* Mutant: what was read for a broken connection is kept for the next one. *)
Disconnect_keeps_outbox ==
  /\ StreamStep
  /\ Connected
  /\ stream' = Off /\ inbox' = <<>>
  /\ UNCHANGED <<faults, lastEventId, got, outbox, behind, connections, since>>


(* The connection breaks, before or after what was sent has arrived - which  *)
(* is the same, since the server keeps nothing of a broken connection.       *)
Disconnect ==
  /\ StreamStep
  /\ Connected
  /\ stream' = Off /\ inbox' = <<>> /\ outbox' = <<>>
  /\ UNCHANGED <<faults, lastEventId, got, behind, connections, since>>

Serve == Replay \/ SendReplayed \/ SendHeard \/ SendPolled \/ Poll

StreamNext == Beside(Next) \/ Restart \/ Connect \/ Serve \/ RedisError \/ Disconnect

StreamSpec == StreamInit /\ [][StreamNext]_allVars

(* The generator goes on whenever it can, and the worker ends what it has    *)
(* begun, since it holds the loop; nothing more is needed.                   *)
StreamFairSpec ==
  /\ StreamSpec
  /\ WF_allVars(Beside(RemoveEntry \/ Reschedule))
  /\ WF_allVars(Serve)

----------------------------------------------------------------------------
StreamTypeOK ==
  /\ lastEventId \in Nat
  /\ got \in Seq(Ids) /\ inbox \in Seq(Ids) /\ outbox \in Seq(Ids)
  /\ stream \in [stage : {"off", "connected", "replaying", "live", "closed"},
                 via : {"pubsub", "polling"}, resume : Nat, seen : SUBSET Nat,
                 last_sequence : Nat]
  /\ stream.stage \notin {"replaying", "live"} => outbox = <<>>
  /\ ~Subscribed => inbox = <<>>
  /\ connections \in 0..MaxConnections /\ behind \in 0..connections /\ since \in Nat

(* The browser gets no event twice and none before an older one, whatever    *)
(* connections break and stores fail, while the process lives, no event had  *)
(* to be saved by the retry worker and none was stored twice, as it is when  *)
(* PostgreSQL's answer is lost (seen_sequences, Last-Event-ID and the        *)
(* poller's last_sequence must fit together).  Where a replay out of the     *)
(* table, which lags behind the channel, lacked an event of the list, the    *)
(* channel may bring an older event after a newer one: nothing is sent twice *)
(* by that connection, but the next one starts from the older event.         *)
Calm ==
  /\ faults.crash = 0
  /\ \A q, r \in rows : q.by = "batcher" /\ (q.event = r.event => q = r)
InOrder ==
  Calm => \A i, j \in DOMAIN got :
            i < j => /\ behind = 0 => got[i] < got[j]
                     /\ behind \in {0, connections} => got[i] # got[j]

(* The browser misses nothing between two events: what was published since   *)
(* it connected, without an id as yet, went all the way and is older than an *)
(* event it has got, it has got too - unless a replay fell short of the list *)
(* or PostgreSQL refused an event.  It speaks of events that are shown: the  *)
(* stream is not filtered.                                                   *)
Got == {got[i] : i \in DOMAIN got}
NoGap ==
  faults.crash + faults.pg = 0 /\ behind = 0 =>
    \A e \in Got, d \in Of(Watched) :
      since < d /\ d < e /\ published[d].reach = "all" => d \in Got

(* While a connection lasts the browser is sent what its stream has at hand: *)
(* what was read from a store, what the channel has brought, and what a      *)
(* poller finds in the table.  A stream that turns from the channel to the   *)
(* table still owes what it has not sent once it is stored.  After a restart *)
(* the numbers begin anew, and seen_sequences and last_sequence take new     *)
(* events for old ones.                                                      *)
AtHand(e) ==
  \/ e \in {outbox[i] : i \in DOMAIN outbox} \cup {inbox[i] : i \in DOMAIN inbox}
  \/ /\ stream.stage = "live" /\ stream.via = "polling"
     /\ e \in Stored \cap Of(Watched) /\ Number(e) > stream.last_sequence
Delivered ==
  \A e \in 1..MaxEvents :
    faults.crash = 0 /\ AtHand(e) ~> e \in Got \/ ~Connected \/ (stream.via = "polling" /\ e \notin Stored)
=============================================================================
