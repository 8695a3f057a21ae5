------------------------ MODULE EventPipelineProofs ------------------------
(***************************************************************************)
(* Theorems about EventPipeline, for any number of sessions, events and     *)
(* failures, and about EventStream, which brings its events to a browser,   *)
(* for any number of connections.                                           *)
(*                                                                          *)
(* The first part is about the pipeline: what its invariant says (Inv),     *)
(* that it implements EventLedger, what reaches the table and in which      *)
(* order (Rows), what is lost and the verdict.  The second part is about    *)
(* the stream, and rests on the first: the types of its queues (Typed), how *)
(* its marks keep the order (Orderly), and where an event is that the       *)
(* browser is owed (Complete).                                              *)
(***************************************************************************)
EXTENDS EventStream, FiniteSetTheorems, SequenceTheorems, WellFoundedInduction, TLAPS

----------------------------------------------------------------------------
(* Lemmas about the operators.                                              *)

Announced == [session : Sessions, kind : Kinds, number : Nat, reach : Reaches]
Lists == Seq([kind : Kinds, reach : Reaches])
Faults == [pg : Nat, ack : Nat, redis : Nat, crash : Nat]
Row == [event : Nat, sequence : Nat, by : {"batcher", "worker"}, copy : Nat]

LEMMA SeqOfFunction ==
  ASSUME NEW S, NEW n \in Nat, NEW f \in [1 .. n -> S]
  PROVE  f \in Seq(S) /\ Len(f) = n
OBVIOUS

(* A failed publication costs at least one failure.                         *)
LEMMA CostFacts ==
  ASSUME NEW list \in Lists
  PROVE  /\ IsFiniteSet({i \in DOMAIN list : list[i].reach # "all"})
         /\ Cost(list) \in Nat
         /\ Cost(list) = 0 => \A i \in DOMAIN list : list[i].reach = "all"
<1> DEFINE bad == {i \in DOMAIN list : list[i].reach # "all"}
<1>1. DOMAIN list = 1 .. Len(list) /\ Len(list) \in Nat
  BY DEF Lists
<1>2. IsFiniteSet(1 .. Len(list))
  BY <1>1, FS_Interval
<1>3. IsFiniteSet(bad) /\ Cardinality(bad) \in Nat
  BY <1>1, <1>2, FS_Subset, FS_CardinalityType
<1>4. Cardinality(bad) = 0 => bad = {}
  BY <1>3, FS_EmptySet
<1>. QED
  BY <1>3, <1>4 DEF Cost

(* What publish_event adds: the events keep their numbers, the new ones come *)
(* after them, and a task is left behind for each that went all the way.     *)
LEMMA AnnounceFacts ==
  ASSUME NEW s \in Sessions, NEW list \in Lists, Announce(s, list),
         published \in Seq(Announced), counters \in [Sessions -> Nat]
  PROVE  /\ published' \in Seq(Announced)
         /\ Len(published') = Len(published) + Len(list)
         /\ \A i \in 1 .. Len(published) : published'[i] = published[i]
         /\ \A i \in 1 .. Len(list) : published'[Len(published) + i].reach = list[i].reach
         /\ counters' \in [Sessions -> Nat]
         /\ tasks' = tasks \cup {i \in Len(published) + 1 .. Len(published') :
                                   published'[i].reach = "all"}
<1> DEFINE n == Len(published)
           added == [i \in DOMAIN list |-> [session |-> s, kind |-> list[i].kind,
                       number |-> counters[s] + i, reach |-> list[i].reach]]
<1>1. /\ n \in Nat /\ Len(list) \in Nat
      /\ DOMAIN list = 1 .. Len(list)
      /\ \A i \in 1 .. Len(list) : list[i] \in [kind : Kinds, reach : Reaches]
  BY LenProperties, ElementOfSeq DEF Lists
<1>2. \A i \in 1 .. Len(list) : added[i] \in Announced
  BY <1>1 DEF Announced
<1>3. added \in Seq(Announced) /\ Len(added) = Len(list)
  <2>1. added \in [1 .. Len(list) -> Announced]
    BY <1>1, <1>2
  <2>. QED
    BY <1>1, <2>1, SeqOfFunction
<1>4. published' = published \o added
  BY DEF Announce
<1>a. \A i \in 1 .. Len(list) : added[i].reach = list[i].reach
  BY <1>1
<1>. HIDE DEF added
<1>5. /\ published' \in Seq(Announced)
      /\ Len(published') = n + Len(list)
      /\ \A i \in 1 .. n : published'[i] = published[i]
      /\ \A i \in 1 .. Len(list) : published'[n + i] = added[i]
  <2>1. /\ published \o added \in Seq(Announced)
        /\ Len(published \o added) = Len(published) + Len(added)
        /\ \A i \in 1 .. Len(published) + Len(added) : (published \o added)[i] =
             IF i <= Len(published) THEN published[i] ELSE added[i - Len(published)]
    BY <1>3, ConcatProperties
  <2>2. ASSUME NEW i \in 1 .. n
        PROVE  published'[i] = published[i]
    <3>1. i \in 1 .. Len(published) + Len(added) /\ i <= Len(published)
      BY <1>1, <1>3
    <3>. QED
      BY <3>1, <2>1, <1>4
  <2>3. ASSUME NEW i \in 1 .. Len(list)
        PROVE  published'[n + i] = added[i]
    <3>1. n + i \in 1 .. Len(published) + Len(added) /\ ~(n + i <= Len(published)) /\ (n + i) - n = i
      BY <1>1, <1>3
    <3>. QED
      BY <3>1, <2>1, <1>4
  <2>. QED
    BY <2>1, <2>2, <2>3, <1>3, <1>4
<1>6. \A i \in 1 .. Len(list) : published'[n + i].reach = list[i].reach
  BY <1>5, <1>a
<1>7. {n + i : i \in {k \in DOMAIN list : list[k].reach = "all"}}
        = {i \in n + 1 .. Len(published') : published'[i].reach = "all"}
  <2>1. ASSUME NEW i \in n + 1 .. Len(published')
        PROVE  i - n \in 1 .. Len(list) /\ i = n + (i - n)
    BY <2>1, <1>1, <1>5
  <2>2. ASSUME NEW i \in n + 1 .. Len(published'), published'[i].reach = "all"
        PROVE  \E k \in DOMAIN list : list[k].reach = "all" /\ i = n + k
    BY <2>1, <2>2, <1>1, <1>6
  <2>3. ASSUME NEW k \in DOMAIN list, list[k].reach = "all"
        PROVE  n + k \in n + 1 .. Len(published') /\ published'[n + k].reach = "all"
    BY <2>3, <1>1, <1>5, <1>6
  <2>. QED
    BY <2>2, <2>3
<1>8. counters' \in [Sessions -> Nat]
  BY <1>1 DEF Announce
<1>. QED
  BY <1>5, <1>6, <1>7, <1>8 DEF Announce

(* The events that a failed publication loses are at most what it costs.     *)
LEMMA NewlyLost ==
  ASSUME NEW s \in Sessions, NEW list \in Lists, Announce(s, list),
         published \in Seq(Announced), counters \in [Sessions -> Nat]
  PROVE  LET new == {i \in Len(published) + 1 .. Len(published') :
                       published'[i].reach # "all"}
         IN IsFiniteSet(new) /\ Cardinality(new) <= Cost(list)
<1> DEFINE n == Len(published)
           new == {i \in n + 1 .. Len(published') : published'[i].reach # "all"}
           bad == {i \in DOMAIN list : list[i].reach # "all"}
           f == [i \in bad |-> n + i]
<1>1. /\ n \in Nat /\ Len(list) \in Nat
      /\ DOMAIN list = 1 .. Len(list)
  BY DEF Lists
<1>2. /\ Len(published') = n + Len(list)
      /\ \A i \in 1 .. Len(list) : published'[n + i].reach = list[i].reach
  BY AnnounceFacts
<1>3. f \in [bad -> new]
  BY <1>1, <1>2
<1>4. ASSUME NEW i \in new
      PROVE  \E j \in bad : f[j] = i
  <2>1. i - n \in 1 .. Len(list) /\ n + (i - n) = i
    BY <1>1, <1>2
  <2>. QED
    BY <2>1, <1>1, <1>2
<1>5. f \in Surjection(bad, new)
  BY <1>3, <1>4 DEF Surjection
<1>6. IsFiniteSet(bad)
  BY CostFacts
<1>. QED
  BY <1>5, <1>6, FS_Surjection DEF Cost

(* A flush stores its buffer, or pays for the batch that failed and for each *)
(* event that was refused once more; it doubles a row only when a commit was *)
(* not acknowledged.                                                         *)
Refused(buf, f) == {x \in buf : f.times[x] = 0}
LEMMA FlushFacts ==
  ASSUME NEW buf, IsFiniteSet(buf), NEW f \in Flushes(buf)
  PROVE  /\ f.times \in [buf -> Nat]
         /\ f.pg \in Nat /\ f.ack \in Nat
         /\ f.ack = 0 => \A x \in buf : f.times[x] <= 1
         /\ IsFiniteSet(Refused(buf, f)) /\ Cardinality(Refused(buf, f)) <= f.pg
<1>1. \A c \in Calls : /\ c.copies \in Nat /\ c.ok \in BOOLEAN /\ (c.ok => c.copies > 0)
                       /\ (~Unsure(c) => c.copies <= 1 /\ (~c.ok => c.copies = 0))
  BY BatchAssumption DEF Calls, Unsure
<1>2. Once \in Calls /\ Once.ok
  BY BatchAssumption DEF Once, Calls
<1>3. CASE \E c \in Calls : f = Batch(buf, c) /\ c.ok
  <2>1. PICK c \in Calls : f = Batch(buf, c) /\ c.ok
    BY <1>3
  <2>2. /\ f.times = [x \in buf |-> c.copies] /\ f.pg = 0
        /\ f.ack = IF Unsure(c) THEN 1 ELSE 0
    BY <2>1 DEF Batch
  <2>3. Refused(buf, f) = {}
    BY <1>1, <2>1, <2>2 DEF Refused
  <2>. QED
    BY <1>1, <2>2, <2>3, FS_EmptySet
<1>4. CASE \E c \in Calls, single \in [buf -> Calls] : ~c.ok /\ f = Fallback(buf, c, single)
  <2>1. PICK c \in Calls, single \in [buf -> Calls] : ~c.ok /\ f = Fallback(buf, c, single)
    BY <1>4
  <2> DEFINE bad == {x \in buf : ~single[x].ok}
             open == {x \in buf : Unsure(single[x])}
  <2>2. /\ f.times = [x \in buf |-> c.copies + single[x].copies]
        /\ f.pg = 1 + Cardinality(bad)
        /\ f.ack = (IF Unsure(c) THEN 1 ELSE 0) + Cardinality(open)
    BY <2>1 DEF Fallback
  <2>3. /\ IsFiniteSet(bad) /\ Cardinality(bad) \in Nat
        /\ IsFiniteSet(open) /\ Cardinality(open) \in Nat /\ (Cardinality(open) = 0 => open = {})
    BY FS_Subset, FS_CardinalityType, FS_EmptySet
  <2>4. \A x \in buf : single[x] \in Calls /\ f.times[x] = c.copies + single[x].copies
    BY <2>2
  <2>5. f.times \in [buf -> Nat] /\ f.pg \in Nat /\ f.ack \in Nat
    BY <1>1, <2>1, <2>2, <2>3
  <2>6. ASSUME f.ack = 0, NEW x \in buf
        PROVE  f.times[x] <= 1
    <3>1. ~Unsure(c) /\ open = {}
      BY <2>2, <2>3, <2>6
    <3>2. ~Unsure(single[x])
      BY <3>1
    <3>. QED
      BY <1>1, <2>1, <2>4, <3>1, <3>2
  <2>7. Refused(buf, f) \subseteq bad
    BY <1>1, <2>1, <2>4 DEF Refused
  <2>8. IsFiniteSet(Refused(buf, f)) /\ Cardinality(Refused(buf, f)) <= Cardinality(bad)
        /\ Cardinality(Refused(buf, f)) \in Nat
    BY <2>3, <2>7, FS_Subset, FS_CardinalityType
  <2>. QED
    BY <2>2, <2>3, <2>5, <2>6, <2>8
<1>. QED
  BY <1>2, <1>3, <1>4 DEF Flushes

(* What an insertion adds to the table.                                      *)
LEMMA InsertFacts ==
  ASSUME NEW table \in SUBSET Row, IsFiniteSet(table),
         NEW entries \in SUBSET [event : Nat, sequence : Nat], IsFiniteSet(entries),
         NEW times \in [entries -> Nat],
         NEW by \in {"batcher", "worker"}, NEW new, new = Insert(table, times, by)
  PROVE  /\ new \subseteq Row /\ IsFiniteSet(new)
         /\ table \subseteq new
         /\ \A x \in entries : times[x] > 0 => \E r \in new : r.event = x.event
         /\ \A r \in new : r \in table \/
              (r.by = by /\ \E x \in entries : /\ times[x] > 0
                                              /\ x.event = r.event /\ x.sequence = r.sequence)
         /\ (\A x \in entries : times[x] <= 1) =>
              \A q, r \in new \ table : q.event = r.event /\ q.sequence = r.sequence => q = r
<1> DEFINE present(x) == Cardinality({q \in table : q.event = x.event})
           rowOf(x, k) == [event |-> x.event, sequence |-> x.sequence, by |-> by,
                           copy |-> present(x) + k]
           copies(x) == {rowOf(x, k) : k \in 1 .. times[x]}
           added == {copies(x) : x \in entries}
<1>1. new = table \cup UNION added
  BY DEF Insert
<1>2. ASSUME NEW x \in entries
      PROVE  present(x) \in Nat /\ times[x] \in Nat
  <2>1. {q \in table : q.event = x.event} \subseteq table
    OBVIOUS
  <2>. QED
    BY <2>1, FS_Subset, FS_CardinalityType
<1>. HIDE DEF present
<1>3. ASSUME NEW x \in entries, NEW k \in 1 .. times[x]
      PROVE  /\ rowOf(x, k) \in Row /\ rowOf(x, k).by = by
             /\ rowOf(x, k).event = x.event /\ rowOf(x, k).sequence = x.sequence
             /\ times[x] > 0
  <2>1. k \in Nat /\ times[x] > 0 /\ present(x) + k \in Nat
    BY <1>2
  <2>. QED
    BY <2>1 DEF Row
<1>4. ASSUME NEW x \in entries
      PROVE  IsFiniteSet(copies(x))
  <2> DEFINE f == [k \in 1 .. times[x] |-> rowOf(x, k)]
  <2>1. f \in Surjection(1 .. times[x], copies(x))
    BY DEF Surjection
  <2>2. IsFiniteSet(1 .. times[x])
    BY <1>2, FS_Interval
  <2>. QED
    BY <2>1, <2>2, FS_Surjection
<1>5. \A r \in UNION added : \E x \in entries : \E k \in 1 .. times[x] : r = rowOf(x, k)
  <2> HIDE DEF rowOf
  <2>1. \A r \in UNION added : \E x \in entries : r \in copies(x)
    OBVIOUS
  <2>. QED
    BY <2>1
<1>6. \A x \in entries : \A k \in 1 .. times[x] : rowOf(x, k) \in UNION added
  OBVIOUS
<1>7. IsFiniteSet(UNION added)
  <2> HIDE DEF copies
  <2> DEFINE f == [x \in entries |-> copies(x)]
  <2>1. f \in Surjection(entries, added)
    BY DEF Surjection
  <2>2. IsFiniteSet(added) /\ \A T \in added : IsFiniteSet(T)
    BY <1>4, <2>1, FS_Surjection
  <2> HIDE DEF added
  <2>. QED
    BY <2>2, FS_UNION
<1>. HIDE DEF added, copies
<1>8. IsFiniteSet(new)
  <2> DEFINE more == UNION added
  <2>1. new = table \cup more /\ IsFiniteSet(more)
    BY <1>1, <1>7
  <2> HIDE DEF more
  <2>2. IsFiniteSet(table \cup more)
    BY <2>1, FS_Union
  <2>. QED
    BY <2>1, <2>2
<1>9. \A x \in entries : times[x] > 0 => \E r \in new : r.event = x.event
  <2> SUFFICES ASSUME NEW x \in entries, times[x] > 0
               PROVE  \E r \in new : r.event = x.event
    OBVIOUS
  <2>1. 1 \in 1 .. times[x]
    BY <1>2
  <2>2. rowOf(x, 1) \in new /\ rowOf(x, 1).event = x.event
    BY <1>1, <1>6, <2>1
  <2>. QED
    BY <2>2
<1>10. \A r \in UNION added : r \in Row /\ r.by = by /\ \E x \in entries :
          times[x] > 0 /\ x.event = r.event /\ x.sequence = r.sequence
  <2> SUFFICES ASSUME NEW r \in UNION added
               PROVE  r \in Row /\ r.by = by /\ \E x \in entries :
                        times[x] > 0 /\ x.event = r.event /\ x.sequence = r.sequence
    OBVIOUS
  <2>1. PICK x \in entries : \E k \in 1 .. times[x] : r = rowOf(x, k)
    BY <1>5
  <2>2. PICK k \in 1 .. times[x] : r = rowOf(x, k)
    BY <2>1
  <2>. HIDE DEF rowOf
  <2>. QED
    BY <1>3, <2>2
<1>11. ASSUME \A x \in entries : times[x] <= 1, NEW q \in new \ table, NEW r \in new \ table,
              q.event = r.event, q.sequence = r.sequence
       PROVE  q = r
  <2>1. PICK x \in entries : \E k \in 1 .. times[x] : q = rowOf(x, k)
    BY <1>1, <1>5
  <2>2. PICK y \in entries : \E k \in 1 .. times[y] : r = rowOf(y, k)
    BY <1>1, <1>5
  <2>3. \A z \in entries : \A k \in 1 .. times[z] : k = 1
    BY <1>2, <1>11
  <2>4. x.event = y.event /\ x.sequence = y.sequence
    BY <1>11, <2>1, <2>2
  <2>5. x = y
    BY <2>4
  <2>. QED
    BY <2>1, <2>2, <2>3, <2>5
<1>. QED
  BY <1>1, <1>8, <1>9, <1>10, <1>11

----------------------------------------------------------------------------
(* The steps of everything but the retry worker have one form: at most the   *)
(* oldest task (in E) hands its event to the batcher, which stores the       *)
(* entries S and keeps the others in its buffer or, when it flushes, drops   *)
(* them at the price of pg failures; events of Q go to the sorted set; and   *)
(* events are published, those that do not go all the way at the price of    *)
(* redis failures.  Only a commit that was not acknowledged adds two rows    *)
(* for one entry, or stores an event that is queued as well.                 *)
Adds(S, by) ==
  /\ rows' \subseteq [event : Ids, sequence : Nat, by : {"batcher", "worker"}, copy : Nat]
  /\ IsFiniteSet(rows')
  /\ rows \subseteq rows'
  /\ Stored' = Stored \cup {x.event : x \in S}
  /\ \A r \in rows' \ rows :
       r.by = by /\ \E x \in S : x.event = r.event /\ x.sequence = r.sequence
  /\ faults'.ack = faults.ack =>
       \A q, r \in rows' \ rows : q.event = r.event /\ q.sequence = r.sequence => q = r

Entries(E) == buffer \cup {Entry(e) : e \in E}
NewIds == Len(published) + 1 .. Len(published')
Dropped(E, S) == Entries(E) \ (S \cup buffer')
Unheard == {i \in NewIds : published'[i].reach # "all"}

Takes(E, S, Q) ==
  /\ E = {} \/ \E e \in tasks : E = {e} /\ \A other \in tasks : e <= other
  /\ S \subseteq Entries(E) /\ Q \subseteq E
  /\ Q # {} => buffer' = {} /\ (faults'.ack = faults.ack => S \subseteq buffer)
  /\ (S = {} /\ buffer' = Entries(E)) \/ buffer' = {}
  /\ \A x \in buffer' \ buffer : ~Critical(x.event)
  /\ seq_counter' = IF E = {} THEN seq_counter ELSE seq_counter + 1
  /\ Adds(S, "batcher")
  /\ failed' = failed \cup {[event |-> e, retry_count |-> 0] : e \in Q}
  /\ worker = Idle /\ worker' = Idle /\ dlq' = dlq

Publishes(E) ==
  /\ published' \in Seq(Announced) /\ Len(published) <= Len(published')
  /\ \A i \in Ids : published'[i] = published[i]
  /\ E # {} => Len(published') = Len(published)
  /\ tasks' = (tasks \ E) \cup {i \in NewIds : published'[i].reach = "all"}
  /\ counters' \in [Sessions -> Nat]

Paid(pg, ack, redis) ==
  /\ faults' \in Faults
  /\ faults'.pg = faults.pg + pg /\ faults'.ack = faults.ack + ack
  /\ faults'.redis = faults.redis + redis /\ faults'.crash = faults.crash
Pays(E, S, Q, pg, ack, redis) ==
  /\ pg \in Nat /\ ack \in Nat /\ redis \in Nat
  /\ Q # {} => pg > 0
  /\ Paid(pg, ack, redis)
  /\ IsFiniteSet(Dropped(E, S)) /\ Cardinality(Dropped(E, S)) <= pg
  /\ \A x \in Dropped(E, S) \ buffer :
       Critical(x.event) => x.event \in Q \/ redis > 0
  /\ IsFiniteSet(Unheard) /\ Cardinality(Unheard) <= redis

Flow == \E E \in SUBSET tasks : \E Q \in SUBSET E, S \in SUBSET Entries(E), pg, ack, redis \in Nat :
          Takes(E, S, Q) /\ Publishes(E) /\ Pays(E, S, Q, pg, ack, redis)

TypeRest ==
  /\ published \in Seq(Announced)
  /\ counters \in [Sessions -> Nat] /\ seq_counter \in Nat
  /\ tasks \subseteq Ids
  /\ buffer \subseteq [event : Ids, sequence : Nat]
  /\ IsFiniteSet(buffer)
  /\ rows \subseteq [event : Ids, sequence : Nat, by : {"batcher", "worker"}, copy : Nat]
  /\ IsFiniteSet(rows)
  /\ failed \subseteq [event : Ids, retry_count : Nat]
  /\ dlq \subseteq Ids
  /\ \/ worker = Idle
     \/ worker \in [at : {"remove"}, entry : failed, success : BOOLEAN]
     \/ worker \in [at : {"reschedule"}, entry : [event : Ids, retry_count : Nat],
                    success : {FALSE}]
  /\ faults \in Faults
TypeMeeting ==
  meeting \in [Sessions -> [phase : {"running", "completing", "counting", "ok",
                                     "warned", "unverified"}, tries : Nat, seen : Nat]]

LEMMA TypeParts == TypeOK <=> TypeRest /\ TypeMeeting
BY DEF TypeOK, TypeRest, TypeMeeting, Faults, Announced

LEMMA TypePartsNext == TypeOK' <=> TypeRest' /\ TypeMeeting'
BY DEF TypeOK, TypeRest, TypeMeeting, Faults, Announced, Ids

LEMMA LenType == TypeRest => Len(published) \in Nat /\ Ids \subseteq Nat
BY DEF TypeRest, Ids

(* What Spend does to the failures.                                          *)
LEMMA SpendFacts ==
  ASSUME TypeRest, NEW pg \in Nat, NEW ack \in Nat, NEW redis \in Nat, Spend(pg, ack, redis)
  PROVE  Paid(pg, ack, redis)
<1>1. faults \in [pg : Nat, ack : Nat, redis : Nat, crash : Nat]
  BY DEF TypeRest, Faults
<1>2. faults.pg + pg \in Nat /\ faults.ack + ack \in Nat /\ faults.redis + redis \in Nat
  BY <1>1
<1>. QED
  BY <1>1, <1>2 DEF Spend, Paid, Faults

(* The entries of a flow are numbered by the batcher.                        *)
LEMMA EntriesType ==
  ASSUME TypeRest, NEW E \in SUBSET tasks, E = {} \/ \E e \in tasks : E = {e}
  PROVE  /\ Entries(E) \subseteq [event : Ids, sequence : Nat]
         /\ IsFiniteSet(Entries(E))
<1>1. \A e \in E : Entry(e) \in [event : Ids, sequence : Nat]
  BY DEF TypeRest, Entry
<1>2. Entries(E) \subseteq [event : Ids, sequence : Nat]
  BY <1>1 DEF Entries, TypeRest
<1>3. CASE E = {}
  <2>1. Entries(E) = buffer
    BY <1>3 DEF Entries
  <2>. QED
    BY <1>2, <2>1 DEF TypeRest
<1>4. CASE \E e \in tasks : E = {e}
  <2>1. PICK e \in tasks : Entries(E) = buffer \cup {Entry(e)}
    BY <1>4 DEF Entries
  <2>2. IsFiniteSet(buffer \cup {Entry(e)})
    BY FS_AddElement DEF TypeRest
  <2>. QED
    BY <1>2, <2>1, <2>2
<1>. QED
  BY <1>3, <1>4

LEMMA InsertedRows ==
  ASSUME TypeRest, NEW entries \in SUBSET [event : Ids, sequence : Nat], IsFiniteSet(entries),
         NEW times \in [entries -> Nat], NEW by \in {"batcher", "worker"},
         rows' = Insert(rows, times, by),
         faults'.ack = faults.ack => \A x \in entries : times[x] <= 1
  PROVE  Adds({x \in entries : times[x] > 0}, by)
<1> DEFINE S == {x \in entries : times[x] > 0}
           new == Insert(rows, times, by)
<1>1. rows \in SUBSET Row /\ entries \in SUBSET [event : Nat, sequence : Nat] /\ IsFiniteSet(rows)
  BY LenType DEF TypeRest, Row
<1>a. rows' = new
  OBVIOUS
<1>. HIDE DEF new
<1>2. /\ new \subseteq Row /\ IsFiniteSet(new) /\ rows \subseteq new
      /\ \A x \in entries : times[x] > 0 => \E r \in new : r.event = x.event
      /\ \A r \in new : r \in rows \/
           (r.by = by /\ \E x \in entries : /\ times[x] > 0
                                           /\ x.event = r.event /\ x.sequence = r.sequence)
      /\ (\A x \in entries : times[x] <= 1) =>
           \A q, r \in new \ rows : q.event = r.event /\ q.sequence = r.sequence => q = r
  BY <1>1, InsertFacts DEF new
<1>b. /\ \A x \in S : \E r \in new : r.event = x.event
      /\ \A r \in new : r \in rows \/
           (r.by = by /\ \E x \in S : x.event = r.event /\ x.sequence = r.sequence)
  BY <1>2
<1>c. S \subseteq [event : Ids, sequence : Nat]
  OBVIOUS
<1>. HIDE DEF S
<1>3. \A r \in new \ rows : r \in Row /\ r.event \in Ids
  BY <1>2, <1>b, <1>c
<1>4. new \subseteq [event : Ids, sequence : Nat, by : {"batcher", "worker"}, copy : Nat]
  BY <1>2, <1>3 DEF TypeRest, Row
<1>5. {r.event : r \in new} = {r.event : r \in rows} \cup {x.event : x \in S}
  <2>1. ASSUME NEW r \in new
        PROVE  r.event \in {q.event : q \in rows} \cup {x.event : x \in S}
    BY <1>b
  <2>2. ASSUME NEW r \in rows
        PROVE  r.event \in {q.event : q \in new}
    BY <1>2
  <2>3. ASSUME NEW x \in S
        PROVE  x.event \in {q.event : q \in new}
    BY <1>b
  <2>. QED
    BY <2>1, <2>2, <2>3
<1>6. Stored' = Stored \cup {x.event : x \in S}
  BY <1>5, <1>a DEF Stored
<1>7. Adds(S, by)
  BY <1>2, <1>a, <1>b, <1>4, <1>6 DEF Adds
<1>. QED
  BY <1>7 DEF S

LEMMA NothingAdded ==
  ASSUME TypeRest, rows' = rows, NEW by
  PROVE  Adds({}, by)
BY DEF TypeRest, Adds, Stored

----------------------------------------------------------------------------
(* Each of those steps is a flow.                                            *)

LEMMA NoFailure ==
  ASSUME TypeRest, faults' = faults
  PROVE  Paid(0, 0, 0)
<1>1. faults \in [pg : Nat, ack : Nat, redis : Nat, crash : Nat]
  BY DEF TypeRest, Faults
<1>. QED
  BY <1>1 DEF Paid, Faults

(* Nothing is published.                                                     *)
LEMMA QuietPublishes ==
  ASSUME TypeRest, NEW E \in SUBSET tasks, published' = published, counters' = counters,
         tasks' = tasks \ E
  PROVE  /\ Publishes(E)
         /\ IsFiniteSet(Unheard) /\ Cardinality(Unheard) = 0
<1>1. NewIds = {}
  BY LenType DEF NewIds
<1>2. Unheard = {} /\ {i \in NewIds : published'[i].reach = "all"} = {}
  BY <1>1 DEF Unheard
<1>3. tasks' = (tasks \ E) \cup {i \in NewIds : published'[i].reach = "all"}
  BY <1>2
<1>4. IsFiniteSet(Unheard) /\ Cardinality(Unheard) = 0
  BY <1>2, FS_EmptySet
<1>5. Len(published') = Len(published) /\ Len(published) <= Len(published')
  BY LenType
<1>. QED
  BY <1>3, <1>4, <1>5 DEF Publishes, TypeRest

(* Nothing is taken from the tasks, and the buffer is let alone.             *)
LEMMA NothingTaken ==
  ASSUME TypeRest, worker = Idle, UNCHANGED <<buffer, seq_counter, rows, failed, dlq, worker>>
  PROVE  /\ Takes({}, {}, {})
         /\ Dropped({}, {}) = {}
         /\ IsFiniteSet(Dropped({}, {})) /\ Cardinality(Dropped({}, {})) = 0
<1>1. Entries({}) = buffer
  BY DEF Entries
<1>2. Adds({}, "batcher")
  BY NothingAdded
<1>3. Dropped({}, {}) = {}
  BY <1>1 DEF Dropped
<1>4. {[event |-> e, retry_count |-> 0] : e \in {}} = {}
  OBVIOUS
<1>5. failed' = failed \cup {[event |-> e, retry_count |-> 0] : e \in {}}
  BY <1>4
<1>. QED
  BY <1>1, <1>2, <1>3, <1>5, FS_EmptySet DEF Takes

(* The buffer is flushed and nothing taken from the tasks.                   *)
LEMMA OnlyFlushed ==
  ASSUME TypeRest, worker = Idle, UNCHANGED <<seq_counter, failed, dlq, worker>>,
         buffer' = {}, NEW f \in Flushes(buffer), rows' = Insert(rows, f.times, "batcher"),
         NEW more \in Nat, NEW redis \in Nat, Spend(f.pg + more, f.ack, redis),
         Publishes({}), IsFiniteSet(Unheard), Cardinality(Unheard) <= redis
  PROVE  Flow
<1> DEFINE S == {x \in buffer : f.times[x] > 0}
<1>1. Entries({}) = buffer
  BY DEF Entries
<1>2. buffer \in SUBSET [event : Ids, sequence : Nat] /\ IsFiniteSet(buffer)
  BY DEF TypeRest
<1>3. /\ f.times \in [buffer -> Nat] /\ f.pg \in Nat /\ f.ack \in Nat
      /\ f.ack = 0 => \A x \in buffer : f.times[x] <= 1
      /\ IsFiniteSet(Refused(buffer, f)) /\ Cardinality(Refused(buffer, f)) <= f.pg
  BY <1>2, FlushFacts
<1>4. f.pg + more \in Nat
  BY <1>3
<1>5. Paid(f.pg + more, f.ack, redis)
  BY <1>3, <1>4, SpendFacts
<1>6. faults'.ack = faults.ack => f.ack = 0
  <2>1. faults.ack \in Nat /\ faults'.ack = faults.ack + f.ack
    BY <1>5 DEF Paid, TypeRest, Faults
  <2>. QED
    BY <1>3, <2>1
<1>7. Adds(S, "batcher")
  BY <1>2, <1>3, <1>6, InsertedRows
<1>8. Dropped({}, S) = Refused(buffer, f)
  BY <1>1, <1>3 DEF Dropped, Refused
<1>9. {[event |-> e, retry_count |-> 0] : e \in {}} = {}
  OBVIOUS
<1>10. failed' = failed \cup {[event |-> e, retry_count |-> 0] : e \in {}}
  BY <1>9
<1>11. S \in SUBSET Entries({}) /\ Dropped({}, S) \subseteq buffer
  BY <1>1 DEF Dropped
<1>. HIDE DEF S
<1>12. Takes({}, S, {})
  BY <1>7, <1>10, <1>11 DEF Takes
<1>13. Cardinality(Dropped({}, S)) <= f.pg + more
  BY <1>2, <1>3, <1>8, FS_CardinalityType
<1>14. Pays({}, S, {}, f.pg + more, f.ack, redis)
  BY <1>3, <1>4, <1>5, <1>8, <1>11, <1>13 DEF Pays
<1>. QED
  BY <1>3, <1>4, <1>11, <1>12, <1>14 DEF Flow

(* What publish_event does to the events.                                    *)
LEMMA AnnouncePublishes ==
  ASSUME TypeRest, NEW s \in Sessions, NEW list \in Lists, Announce(s, list)
  PROVE  Publishes({}) /\ IsFiniteSet(Unheard) /\ Cardinality(Unheard) <= Cost(list)
<1>1. published \in Seq(Announced) /\ counters \in [Sessions -> Nat]
  BY DEF TypeRest
<1>2. Len(list) \in Nat /\ Len(published) \in Nat
  BY LenType DEF Lists
<1>3. /\ published' \in Seq(Announced)
      /\ Len(published') = Len(published) + Len(list)
      /\ \A i \in 1 .. Len(published) : published'[i] = published[i]
      /\ counters' \in [Sessions -> Nat]
      /\ tasks' = tasks \cup {i \in Len(published) + 1 .. Len(published') :
                                published'[i].reach = "all"}
  BY <1>1, AnnounceFacts
<1>4. Publishes({})
  BY <1>2, <1>3 DEF Publishes, NewIds, Ids
<1>. QED
  BY <1>1, <1>4, NewlyLost DEF Unheard, NewIds

(* publish_event, and the warning of the collector.                          *)
LEMMA PublishFlow ==
  ASSUME TypeRest, worker = Idle, UNCHANGED <<buffer, seq_counter, rows, failed, dlq, worker>>,
         NEW s \in Sessions, NEW list \in Lists, Announce(s, list),
         Spend(0, 0, Cost(list))
  PROVE  Flow
<1>1. Takes({}, {}, {}) /\ Dropped({}, {}) = {} /\ IsFiniteSet(Dropped({}, {}))
      /\ Cardinality(Dropped({}, {})) = 0
  BY NothingTaken
<1>2. Publishes({}) /\ IsFiniteSet(Unheard) /\ Cardinality(Unheard) <= Cost(list)
  BY AnnouncePublishes
<1>3. Cost(list) \in Nat
  BY CostFacts
<1>4. Paid(0, 0, Cost(list))
  BY <1>3, SpendFacts
<1>5. Pays({}, {}, {}, 0, 0, Cost(list))
  BY <1>1, <1>2, <1>3, <1>4 DEF Pays
<1>. QED
  BY <1>1, <1>2, <1>3, <1>5 DEF Flow

(* What the collector publishes when a meeting has ended.                    *)
LEMMA CompletionAnnounces ==
  ASSUME NEW s \in Sessions, HandleCompletion(s)
  PROVE  \E f \in Flushes(buffer), list \in Lists :
           /\ rows' = Insert(rows, f.times, "batcher")
           /\ Announce(s, list)
           /\ Spend(f.pg, f.ack, Cost(list))
<1>1. PICK f \in Flushes(buffer), reach \in Reaches,
           costs \in UNION {[1 .. n -> Reaches] : n \in 0 .. 2} :
        LET list == [i \in DOMAIN costs |-> [kind |-> "normal", reach |-> costs[i]]]
                      \o <<[kind |-> "complete", reach |-> reach]>> IN
        /\ rows' = Insert(rows, f.times, "batcher")
        /\ Announce(s, list)
        /\ Spend(f.pg, f.ack, Cost(list))
  BY DEF HandleCompletion
<1>2. PICK n \in 0 .. 2 : costs \in [1 .. n -> Reaches]
  OBVIOUS
<1> DEFINE first == [i \in DOMAIN costs |-> [kind |-> "normal", reach |-> costs[i]]]
<1>3. first \in Lists
  <2>1. n \in Nat /\ first \in [1 .. n -> [kind : Kinds, reach : Reaches]]
    BY <1>2 DEF Kinds
  <2>. QED
    BY <2>1, SeqOfFunction DEF Lists
<1>4. <<[kind |-> "complete", reach |-> reach]>> \in Lists
  BY DEF Lists, Kinds
<1>. HIDE DEF first
<1>5. first \o <<[kind |-> "complete", reach |-> reach]>> \in Lists
  BY <1>3, <1>4, ConcatProperties DEF Lists
<1>. QED
  BY <1>1, <1>5 DEF first

LEMMA HandleCompletionFlow ==
  ASSUME TypeRest, NEW s \in Sessions, HandleCompletion(s)
  PROVE  Flow
<1>1. PICK f \in Flushes(buffer), list \in Lists :
        /\ rows' = Insert(rows, f.times, "batcher")
        /\ Announce(s, list)
        /\ Spend(f.pg, f.ack, Cost(list))
  BY CompletionAnnounces
<1>2. worker = Idle /\ buffer' = {} /\ UNCHANGED <<seq_counter, failed, dlq, worker>>
  BY DEF HandleCompletion, LoopFree
<1>3. Publishes({}) /\ IsFiniteSet(Unheard) /\ Cardinality(Unheard) <= Cost(list)
  BY <1>1, AnnouncePublishes
<1>4. f.pg + 0 = f.pg
  BY FlushFacts DEF TypeRest
<1>5. Cost(list) \in Nat /\ 0 \in Nat
  BY CostFacts
<1>6. Spend(f.pg + 0, f.ack, Cost(list))
  BY <1>1, <1>4
<1>. QED
  BY <1>1, <1>2, <1>3, <1>5, <1>6, OnlyFlushed

LEMMA VerifyFlow ==
  ASSUME TypeRest, NEW s \in Sessions, Verify(s)
  PROVE  Flow
<1>1. PICK f \in Flushes(buffer), uncounted \in {0, 1} :
        rows' = Insert(rows, f.times, "batcher") /\ Spend(f.pg + uncounted, f.ack, 0)
  BY DEF Verify
<1>2. /\ worker = Idle /\ buffer' = {} /\ UNCHANGED <<seq_counter, failed, dlq, worker>>
      /\ UNCHANGED <<published, counters, tasks>>
  BY DEF Verify, LoopFree
<1>3. Publishes({}) /\ IsFiniteSet(Unheard) /\ Cardinality(Unheard) <= 0
  <2>1. Publishes({}) /\ IsFiniteSet(Unheard) /\ Cardinality(Unheard) = 0
    BY <1>2, QuietPublishes
  <2>. QED
    BY <2>1
<1>4. uncounted \in Nat /\ 0 \in Nat
  OBVIOUS
<1>. QED
  BY <1>1, <1>2, <1>3, <1>4, OnlyFlushed

(* A step that moves nothing, with or without a failure of PostgreSQL.       *)
LEMMA StillFlow ==
  ASSUME TypeRest, worker = Idle, UNCHANGED <<published, memory, stores, worker>>,
         NEW pg \in Nat, Paid(pg, 0, 0)
  PROVE  Flow
<1>1. Takes({}, {}, {}) /\ Dropped({}, {}) = {} /\ IsFiniteSet(Dropped({}, {}))
      /\ Cardinality(Dropped({}, {})) = 0
  BY NothingTaken DEF memory, stores
<1>2. Publishes({}) /\ IsFiniteSet(Unheard) /\ Cardinality(Unheard) = 0
  BY QuietPublishes DEF memory
<1>4. Cardinality(Dropped({}, {})) <= pg /\ Cardinality(Unheard) <= 0
  BY <1>1, <1>2
<1>5. Pays({}, {}, {}, pg, 0, 0)
  BY <1>1, <1>2, <1>4 DEF Pays
<1>. QED
  BY <1>1, <1>2, <1>5 DEF Flow

(* What TakeTask has in common.                                              *)
LEMMA TaskTaken ==
  ASSUME TypeRest, NEW e \in tasks, TakeTask(e)
  PROVE  /\ worker = Idle /\ worker' = Idle
         /\ Publishes({e})
         /\ IsFiniteSet(Unheard) /\ Cardinality(Unheard) = 0
         /\ seq_counter' = seq_counter + 1
         /\ \A other \in tasks : e <= other
         /\ Entries({e}) = buffer \cup {Entry(e)}
         /\ Entry(e).event = e
BY QuietPublishes DEF TakeTask, LoopFree, Entries, Entry

LEMMA BufferEventFlow ==
  ASSUME TypeRest, NEW e \in tasks, BufferEvent(e)
  PROVE  Flow
<1>1. /\ TakeTask(e) /\ ~Critical(e)
      /\ buffer' = buffer \cup {Entry(e)} /\ UNCHANGED <<stores, faults>>
  BY DEF BufferEvent
<1>2. Entries({e}) = buffer \cup {Entry(e)} /\ Entry(e).event = e
  BY <1>1, TaskTaken
<1>3. Adds({}, "batcher")
  BY <1>1, NothingAdded DEF stores
<1>4. {[event |-> d, retry_count |-> 0] : d \in {}} = {}
  OBVIOUS
<1>5. failed' = failed \cup {[event |-> d, retry_count |-> 0] : d \in {}}
  BY <1>1, <1>4 DEF stores
<1>6. Takes({e}, {}, {})
  BY <1>1, <1>2, <1>3, <1>5, TaskTaken DEF Takes, stores
<1>7. Dropped({e}, {}) = {}
  BY <1>1, <1>2 DEF Dropped
<1>8. Paid(0, 0, 0)
  BY <1>1, NoFailure
<1>9. Pays({e}, {}, {}, 0, 0, 0)
  <2>1. IsFiniteSet(Dropped({e}, {})) /\ Cardinality(Dropped({e}, {})) <= 0
    BY <1>7, FS_EmptySet
  <2>2. IsFiniteSet(Unheard) /\ Cardinality(Unheard) <= 0
    <3>1. IsFiniteSet(Unheard) /\ Cardinality(Unheard) = 0
      BY <1>1, TaskTaken
    <3>. QED
      BY <3>1
  <2>. QED
    BY <1>7, <1>8, <2>1, <2>2 DEF Pays
<1>. QED
  BY <1>1, <1>6, <1>9, TaskTaken DEF Flow

LEMMA BufferAndFlushFlow ==
  ASSUME TypeRest, NEW e \in tasks, BufferAndFlush(e)
  PROVE  Flow
<1>1. TakeTask(e) /\ ~Critical(e) /\ buffer' = {} /\ UNCHANGED <<failed, dlq>>
  BY DEF BufferAndFlush
<1>2. Entries({e}) = buffer \cup {Entry(e)} /\ Entry(e).event = e
  BY <1>1, TaskTaken
<1>3. PICK f \in Flushes(Entries({e})) :
        rows' = Insert(rows, f.times, "batcher") /\ Spend(f.pg, f.ack, 0)
  BY <1>2 DEF BufferAndFlush
<1> DEFINE S == {x \in Entries({e}) : f.times[x] > 0}
<1>4. Entries({e}) \in SUBSET [event : Ids, sequence : Nat] /\ IsFiniteSet(Entries({e}))
  BY EntriesType
<1>5. /\ f.times \in [Entries({e}) -> Nat] /\ f.pg \in Nat /\ f.ack \in Nat
      /\ f.ack = 0 => \A x \in Entries({e}) : f.times[x] <= 1
      /\ IsFiniteSet(Refused(Entries({e}), f)) /\ Cardinality(Refused(Entries({e}), f)) <= f.pg
  BY <1>4, FlushFacts
<1>6. Dropped({e}, S) = Refused(Entries({e}), f)
  BY <1>1, <1>5 DEF Dropped, Refused
<1>7. {[event |-> d, retry_count |-> 0] : d \in {}} = {}
  OBVIOUS
<1>8. failed' = failed \cup {[event |-> d, retry_count |-> 0] : d \in {}}
  BY <1>1, <1>7
<1>9. Paid(f.pg, f.ack, 0)
  BY <1>3, <1>5, SpendFacts
<1>10. faults'.ack = faults.ack => f.ack = 0
  <2>1. faults.ack \in Nat /\ faults'.ack = faults.ack + f.ack
    BY <1>9 DEF Paid, TypeRest, Faults
  <2>. QED
    BY <1>5, <2>1
<1>11. Adds(S, "batcher")
  BY <1>3, <1>4, <1>5, <1>10, InsertedRows
<1>12. S \in SUBSET Entries({e})
  OBVIOUS
<1>13. \A x \in Dropped({e}, S) \ buffer : ~Critical(x.event)
  BY <1>1, <1>2 DEF Dropped
<1>. HIDE DEF S
<1>14. Takes({e}, S, {})
  BY <1>1, <1>8, <1>11, <1>12, TaskTaken DEF Takes
<1>15. IsFiniteSet(Unheard) /\ Cardinality(Unheard) <= 0
  <2>1. IsFiniteSet(Unheard) /\ Cardinality(Unheard) = 0
    BY <1>1, TaskTaken
  <2>. QED
    BY <2>1
<1>16. Pays({e}, S, {}, f.pg, f.ack, 0)
  BY <1>5, <1>6, <1>9, <1>13, <1>15 DEF Pays
<1>. QED
  BY <1>1, <1>5, <1>12, <1>14, <1>16, TaskTaken DEF Flow

(* A critical event is stored, or queued, or an error of Redis lets it go.   *)
LEMMA SavedAtOnce ==
  ASSUME TypeRest, NEW e \in tasks, TakeTask(e), NEW f \in Flushes(buffer), NEW c \in Calls,
         NEW redis \in {0, 1}, SaveAtOnce(e, f, c, redis), buffer' = {}, dlq' = dlq,
         NEW Q \in SUBSET {e}, Q # {} => ~c.ok, ~c.ok => Q = {e} \/ redis > 0,
         failed' = failed \cup {[event |-> d, retry_count |-> 0] : d \in Q}
  PROVE  Flow
<1> DEFINE D == Entries({e})
           times == AndThen(f.times, Entry(e), c.copies)
           S == {x \in D : times[x] > 0}
           pg == f.pg + (IF c.ok THEN 0 ELSE 1)
           ack == f.ack + (IF Unsure(c) THEN 1 ELSE 0)
<1>1. D = buffer \cup {Entry(e)} /\ Entry(e).event = e
  BY TaskTaken
<1>2. D \in SUBSET [event : Ids, sequence : Nat] /\ IsFiniteSet(D) /\ IsFiniteSet(buffer)
  BY EntriesType DEF TypeRest
<1>3. /\ f.times \in [buffer -> Nat] /\ f.pg \in Nat /\ f.ack \in Nat
      /\ f.ack = 0 => \A x \in buffer : f.times[x] <= 1
      /\ IsFiniteSet(Refused(buffer, f)) /\ Cardinality(Refused(buffer, f)) <= f.pg
  BY <1>2, FlushFacts
<1>4. /\ c.copies \in Nat /\ c.ok \in BOOLEAN /\ (c.ok => c.copies > 0)
      /\ (~Unsure(c) => c.copies <= 1 /\ (~c.ok => c.copies = 0))
  BY BatchAssumption DEF Calls, Unsure
<1>5. /\ times \in [D -> Nat] /\ times[Entry(e)] = c.copies
      /\ \A x \in D : x # Entry(e) => x \in buffer /\ times[x] = f.times[x]
  BY <1>1, <1>3, <1>4 DEF AndThen
<1>6. pg \in Nat /\ ack \in Nat /\ redis \in Nat /\ (~c.ok => pg > 0)
  BY <1>3
<1>7. rows' = Insert(rows, times, "batcher") /\ Spend(pg, ack, redis)
  BY DEF SaveAtOnce
<1>. HIDE DEF pg, D, times
<1>8. Paid(pg, ack, redis)
  BY <1>6, <1>7, SpendFacts
<1>9. faults'.ack = faults.ack => f.ack = 0 /\ ~Unsure(c)
  <2>1. faults.ack \in Nat /\ faults'.ack = faults.ack + ack
    BY <1>8 DEF Paid, TypeRest, Faults
  <2>. QED
    BY <1>3, <1>6, <2>1
<1>. HIDE DEF ack
<1>10. faults'.ack = faults.ack => \A x \in D : times[x] <= 1
  BY <1>3, <1>4, <1>5, <1>9
<1>11. Adds(S, "batcher")
  BY <1>2, <1>5, <1>7, <1>10, InsertedRows
<1>12. S \in SUBSET Entries({e})
  BY DEF D
<1>13. Q # {} /\ faults'.ack = faults.ack => S \subseteq buffer
  BY <1>4, <1>5, <1>9
<1>14. Dropped({e}, S) \subseteq Refused(buffer, f) \cup (IF c.ok THEN {} ELSE {Entry(e)})
  <2> SUFFICES ASSUME NEW x \in D, x \notin S
               PROVE  x \in Refused(buffer, f) \cup (IF c.ok THEN {} ELSE {Entry(e)})
    BY DEF Dropped, D
  <2>1. times[x] = 0
    BY <1>5
  <2>2. CASE x = Entry(e)
    BY <1>4, <1>5, <2>1, <2>2
  <2>3. CASE x # Entry(e)
    BY <1>5, <2>1, <2>3 DEF Refused
  <2>. QED
    BY <2>2, <2>3
<1>. HIDE DEF S
<1>15. IsFiniteSet(Dropped({e}, S)) /\ Cardinality(Dropped({e}, S)) <= pg
  <2> DEFINE R == Refused(buffer, f)
             T == R \cup (IF c.ok THEN {} ELSE {Entry(e)})
  <2>1. /\ IsFiniteSet(R \cup {Entry(e)}) /\ Cardinality(R) \in Nat
        /\ Cardinality(R \cup {Entry(e)}) = IF Entry(e) \in R THEN Cardinality(R)
                                                             ELSE Cardinality(R) + 1
    BY <1>3, FS_AddElement, FS_CardinalityType
  <2>2. IsFiniteSet(T) /\ Cardinality(T) <= pg
    <3>1. CASE c.ok
      <4>1. T = R
        BY <3>1
      <4>. QED
        BY <1>3, <3>1, <4>1 DEF pg
    <3>2. CASE ~c.ok
      <4>1. T = R \cup {Entry(e)}
        BY <3>2
      <4>. QED
        BY <1>3, <2>1, <3>2, <4>1 DEF pg
    <3>. QED
      BY <3>1, <3>2
  <2>3. IsFiniteSet(Dropped({e}, S)) /\ Cardinality(Dropped({e}, S)) <= Cardinality(T)
    BY <1>14, <2>2, FS_Subset
  <2>4. Cardinality(Dropped({e}, S)) \in Nat /\ Cardinality(T) \in Nat
    BY <2>2, <2>3, FS_CardinalityType
  <2>. QED
    BY <1>6, <2>2, <2>3, <2>4
<1>16. Takes({e}, S, Q)
  BY <1>11, <1>12, <1>13, TaskTaken DEF Takes
<1>17. \A x \in Dropped({e}, S) \ buffer : x.event \in Q \/ redis > 0
  BY <1>1, <1>14 DEF Refused
<1>18. IsFiniteSet(Unheard) /\ Cardinality(Unheard) <= redis
  <2>1. IsFiniteSet(Unheard) /\ Cardinality(Unheard) = 0
    BY TaskTaken
  <2>. QED
    BY <2>1, <1>6
<1>19. Pays({e}, S, Q, pg, ack, redis)
  BY <1>6, <1>8, <1>15, <1>17, <1>18 DEF Pays
<1>20. Publishes({e})
  BY TaskTaken
<1>. QED
  BY <1>6, <1>12, <1>16, <1>19, <1>20 DEF Flow

LEMMA SaveCriticalFlow ==
  ASSUME TypeRest, NEW e \in tasks, SaveCritical(e)
  PROVE  Flow
<1>1. TakeTask(e) /\ buffer' = {} /\ UNCHANGED <<failed, dlq>>
  BY DEF SaveCritical
<1>2. PICK f \in Flushes(buffer), c \in Calls : c.ok /\ SaveAtOnce(e, f, c, 0)
  BY DEF SaveCritical
<1>3. {[event |-> d, retry_count |-> 0] : d \in {}} = {}
  OBVIOUS
<1>4. failed' = failed \cup {[event |-> d, retry_count |-> 0] : d \in {}}
  BY <1>1, <1>3
<1>. QED
  BY <1>1, <1>2, <1>4, SavedAtOnce

LEMMA CriticalRefusedFlow ==
  ASSUME TypeRest, NEW e \in tasks, CriticalRefused(e)
  PROVE  Flow
<1>1. TakeTask(e) /\ buffer' = {} /\ dlq' = dlq
  BY DEF CriticalRefused
<1>2. PICK f \in Flushes(buffer), c \in Calls, redis \in {0, 1} :
        ~c.ok /\ SaveAtOnce(e, f, c, redis) /\ queue_failed_event(e, redis)
  BY DEF CriticalRefused
<1> DEFINE Q == IF redis = 0 THEN {e} ELSE {}
<1>3. failed' = failed \cup {[event |-> d, retry_count |-> 0] : d \in Q}
  BY <1>2 DEF queue_failed_event
<1>4. Q \in SUBSET {e} /\ (Q = {e} \/ redis > 0)
  OBVIOUS
<1>. HIDE DEF Q
<1>. QED
  BY <1>1, <1>2, <1>3, <1>4, SavedAtOnce

(* So everything but the worker and the crash is a flow.                     *)
LEMMA Steps ==
  ASSUME TypeRest, Next
  PROVE  Flow \/ Work \/ Crash
<1>1. ASSUME NEW s \in Sessions, NEW kind \in {"normal", "critical"}, NEW reach \in Reaches,
             publish_event(s, kind, reach)
      PROVE  Flow
  <2>1. <<[kind |-> kind, reach |-> reach]>> \in Lists
    BY DEF Lists, Kinds
  <2>. QED
    BY <1>1, <2>1, PublishFlow DEF publish_event, LoopFree, stores
<1>2. ASSUME NEW e \in tasks, RunTask(e)
      PROVE  Flow
  BY <1>2, BufferEventFlow, BufferAndFlushFlow, SaveCriticalFlow, CriticalRefusedFlow DEF RunTask
<1>3. ASSUME NEW s \in Sessions, Recount(s)
      PROVE  Flow
  <2>1. /\ worker = Idle /\ UNCHANGED <<published, memory, stores, worker>>
        /\ faults' = faults
    BY <1>3 DEF Recount, Slept, LoopFree
  <2>2. Paid(0, 0, 0)
    BY <2>1, NoFailure
  <2>. QED
    BY <2>1, <2>2, StillFlow
<1>4. ASSUME NEW s \in Sessions, Warn(s)
      PROVE  Flow
  <2>1. /\ worker = Idle /\ UNCHANGED <<buffer, seq_counter, rows, failed, dlq, worker>>
        /\ \E reach \in Reaches :
              LET list == <<[kind |-> "normal", reach |-> reach]>> IN
              Announce(s, list) /\ Spend(0, 0, Cost(list))
    BY <1>4 DEF Warn, Slept, LoopFree, stores
  <2>2. PICK reach \in Reaches :
              LET list == <<[kind |-> "normal", reach |-> reach]>> IN
              Announce(s, list) /\ Spend(0, 0, Cost(list))
    BY <2>1
  <2>3. <<[kind |-> "normal", reach |-> reach]>> \in Lists
    BY DEF Lists, Kinds
  <2>. QED
    BY <2>1, <2>2, <2>3, PublishFlow
<1>5. ASSUME NEW s \in Sessions, VerifyFails(s)
      PROVE  Flow
  <2>1. /\ worker = Idle /\ UNCHANGED <<published, memory, stores, worker>> /\ Spend(1, 0, 0)
    BY <1>5 DEF VerifyFails, LoopFree
  <2>2. Paid(1, 0, 0)
    BY <2>1, SpendFacts
  <2>. QED
    BY <2>1, <2>2, StillFlow
<1>. QED
  BY <1>1, <1>2, <1>3, <1>4, <1>5, HandleCompletionFlow, VerifyFlow DEF Next, Check

----------------------------------------------------------------------------
(* Type correctness.                                                         *)

LEMMA FlowType ==
  ASSUME TypeRest, Flow
  PROVE  TypeRest'
<1>1. PICK E \in SUBSET tasks :
        \E Q \in SUBSET E, S \in SUBSET Entries(E), pg, ack, redis \in Nat :
          Takes(E, S, Q) /\ Publishes(E) /\ Pays(E, S, Q, pg, ack, redis)
  BY DEF Flow
<1>2. PICK Q \in SUBSET E, S \in SUBSET Entries(E), pg \in Nat, ack \in Nat, redis \in Nat :
        Takes(E, S, Q) /\ Publishes(E) /\ Pays(E, S, Q, pg, ack, redis)
  BY <1>1
<1>3. Entries(E) \subseteq [event : Ids, sequence : Nat] /\ IsFiniteSet(Entries(E))
  BY <1>2, EntriesType DEF Takes
<1>5. /\ rows' \subseteq [event : Ids, sequence : Nat, by : {"batcher", "worker"}, copy : Nat]
      /\ IsFiniteSet(rows')
  BY <1>2 DEF Takes, Adds
<1>6. Ids \subseteq Ids' /\ NewIds \subseteq Ids' /\ Len(published) \in Nat /\ Len(published') \in Nat
  BY <1>2, LenType DEF Publishes, Ids, NewIds
<1>7. tasks' \subseteq Ids'
  BY <1>2, <1>6 DEF Publishes, TypeRest
<1>8. buffer' \subseteq [event : Ids', sequence : Nat] /\ IsFiniteSet(buffer')
  BY <1>2, <1>3, <1>6, FS_EmptySet DEF Takes
<1>9. failed' \subseteq [event : Ids', retry_count : Nat]
  <2>1. Q \subseteq Ids'
    BY <1>2, <1>6 DEF TypeRest
  <2>. QED
    BY <1>2, <1>6, <2>1 DEF Takes, TypeRest
<1>10. faults' \in Faults
  BY <1>2 DEF Pays, Paid
<1>11. seq_counter' \in Nat
  BY <1>2 DEF Takes, TypeRest
<1>12. dlq' \subseteq Ids'
  BY <1>2, <1>6 DEF Takes, TypeRest
<1>13. rows' \subseteq [event : Ids', sequence : Nat, by : {"batcher", "worker"}, copy : Nat]
  BY <1>5, <1>6
<1>. QED
  BY <1>2, <1>5, <1>7, <1>8, <1>9, <1>10, <1>11, <1>12, <1>13 DEF TypeRest, Takes, Publishes

(* What the retry worker does when it saves an entry: it adds at most rows of *)
(* this event and, unless a commit was not acknowledged, one if it succeeds   *)
(* and none otherwise.                                                        *)
Retried(entry, ok) ==
  /\ worker = Idle /\ worker' = [at |-> "remove", entry |-> entry, success |-> ok]
  /\ UNCHANGED <<published, counters, tasks, buffer, seq_counter, failed, dlq>>
  /\ \E ack \in Nat : Paid(IF ok THEN 0 ELSE 1, ack, 0)
  /\ rows' \subseteq [event : Ids, sequence : Nat, by : {"batcher", "worker"}, copy : Nat]
  /\ IsFiniteSet(rows') /\ rows \subseteq rows'
  /\ \A r \in rows' \ rows : r.by = "worker" /\ r.event = entry.event
  /\ Stored \subseteq Stored' /\ Stored' \subseteq Stored \cup {entry.event}
  /\ ok => entry.event \in Stored'
  /\ faults'.ack = faults.ack =>
       (\A q, r \in rows' \ rows : q = r) /\ (~ok => rows' = rows)

LEMMA RetryFacts ==
  ASSUME TypeRest, NEW entry \in failed, retry_event(entry)
  PROVE  \E ok \in BOOLEAN : Retried(entry, ok)
<1> DEFINE row == [event |-> entry.event, sequence |-> published[entry.event].number]
<1>1. PICK c \in Calls :
        /\ Spend(IF c.ok THEN 0 ELSE 1, IF Unsure(c) THEN 1 ELSE 0, 0)
        /\ rows' = Insert(rows, [x \in {row} |-> c.copies], "worker")
        /\ worker' = [at |-> "remove", entry |-> entry, success |-> c.ok]
  BY DEF retry_event
<1> DEFINE pg == IF c.ok THEN 0 ELSE 1
           ack == IF Unsure(c) THEN 1 ELSE 0
           times == [x \in {row} |-> c.copies]
           S == {x \in {row} : times[x] > 0}
<1>2. /\ c.copies \in Nat /\ c.ok \in BOOLEAN /\ (c.ok => c.copies > 0)
      /\ (~Unsure(c) => c.copies <= 1 /\ (~c.ok => c.copies = 0))
  BY BatchAssumption DEF Calls, Unsure
<1>3. entry.event \in Ids
  BY DEF TypeRest
<1>4. published[entry.event] \in Announced
  BY <1>3, ElementOfSeq DEF TypeRest, Ids
<1>5. row \in [event : Ids, sequence : Nat] /\ row.event = entry.event
  BY <1>3, <1>4 DEF Announced
<1>6. pg \in Nat /\ ack \in Nat
  OBVIOUS
<1>7. Paid(pg, ack, 0)
  BY <1>1, <1>6, SpendFacts
<1>8. faults'.ack = faults.ack => ~Unsure(c)
  <2>1. faults.ack \in Nat /\ faults'.ack = faults.ack + ack
    BY <1>7 DEF Paid, TypeRest, Faults
  <2>. QED
    BY <2>1
<1>. HIDE DEF row
<1>9. times \in [{row} -> Nat] /\ times[row] = c.copies
  BY <1>2
<1>10. {row} \in SUBSET [event : Ids, sequence : Nat] /\ IsFiniteSet({row})
  BY <1>5, FS_Singleton
<1>11. faults'.ack = faults.ack => \A x \in {row} : times[x] <= 1
  BY <1>2, <1>8, <1>9
<1>12. Adds(S, "worker")
  <2>1. rows' = Insert(rows, times, "worker")
    BY <1>1
  <2> HIDE DEF times
  <2>. QED
    BY <2>1, <1>9, <1>10, <1>11, InsertedRows
<1>13. S = IF c.copies > 0 THEN {row} ELSE {}
  BY <1>9
<1>. HIDE DEF S, times
<1>14. Stored' = Stored \cup {x.event : x \in S}
  BY <1>12 DEF Adds
<1>15. /\ Stored \subseteq Stored' /\ Stored' \subseteq Stored \cup {entry.event}
       /\ (c.ok => entry.event \in Stored')
  BY <1>2, <1>5, <1>13, <1>14
<1>16. \A r \in rows' \ rows : r.by = "worker" /\ r.event = row.event /\ r.sequence = row.sequence
  BY <1>12, <1>13 DEF Adds
<1>17. ASSUME faults'.ack = faults.ack
       PROVE  (\A q, r \in rows' \ rows : q = r) /\ (~c.ok => rows' = rows)
  <2>1. \A q, r \in rows' \ rows : q = r
    BY <1>12, <1>16, <1>17 DEF Adds
  <2>2. ASSUME ~c.ok
        PROVE  rows' = rows
    <3>1. S = {}
      BY <1>2, <1>8, <1>13, <1>17, <2>2
    <3>. QED
      BY <1>12, <3>1 DEF Adds
  <2>. QED
    BY <2>1, <2>2
<1>18. /\ worker = Idle
       /\ UNCHANGED <<published, counters, tasks, buffer, seq_counter, failed, dlq>>
  BY DEF retry_event, LoopFree, memory
<1>19. /\ rows' \subseteq [event : Ids, sequence : Nat, by : {"batcher", "worker"}, copy : Nat]
       /\ IsFiniteSet(rows') /\ rows \subseteq rows'
  BY <1>12 DEF Adds
<1>20. \A r \in rows' \ rows : r.by = "worker" /\ r.event = entry.event
  BY <1>5, <1>16
<1>21. \E a \in Nat : Paid(IF c.ok THEN 0 ELSE 1, a, 0)
  BY <1>6, <1>7
<1>22. worker' = [at |-> "remove", entry |-> entry, success |-> c.ok]
  BY <1>1
<1>23. Retried(entry, c.ok)
  BY <1>15, <1>17, <1>18, <1>19, <1>20, <1>21, <1>22 DEF Retried
<1>. QED
  BY <1>2, <1>23

LEMMA RetryType ==
  ASSUME TypeRest, NEW entry \in failed, retry_event(entry)
  PROVE  TypeRest'
<1>1. PICK ok \in BOOLEAN : Retried(entry, ok)
  BY RetryFacts
<1>2. Ids' = Ids
  BY <1>1 DEF Retried, Ids
<1>3. faults' \in Faults
  BY <1>1 DEF Retried, Paid
<1>. QED
  BY <1>1, <1>2, <1>3 DEF TypeRest, Retried

LEMMA RemoveFacts ==
  ASSUME TypeRest, RemoveEntry
  PROVE  \E redis \in {0, 1} :
           /\ worker.at = "remove" /\ worker.entry \in failed /\ worker.success \in BOOLEAN
           /\ Paid(0, 0, redis)
           /\ UNCHANGED <<published, counters, tasks, buffer, seq_counter, rows, dlq>>
           /\ failed' = IF redis = 0 THEN failed \ {worker.entry} ELSE failed
           /\ IF redis = 0 /\ ~worker.success
               THEN worker' \in [at : {"reschedule"}, entry : {worker.entry}, success : {FALSE}]
               ELSE worker' = Idle
<1>1. PICK redis \in {0, 1} :
        /\ Spend(0, 0, redis)
        /\ failed' = IF redis = 0 THEN failed \ {worker.entry} ELSE failed
        /\ worker' = IF redis = 0 /\ ~worker.success THEN [worker EXCEPT !.at = "reschedule"]
                                                    ELSE Idle
  BY DEF RemoveEntry
<1>2. worker.at = "remove"
  BY DEF RemoveEntry
<1>3. worker \in [at : {"remove"}, entry : failed, success : BOOLEAN]
  <2>1. worker # Idle
    BY <1>2 DEF Idle
  <2>2. worker \notin [at : {"reschedule"}, entry : [event : Ids, retry_count : Nat], success : {FALSE}]
    BY <1>2
  <2>. QED
    BY <2>1, <2>2 DEF TypeRest
<1>4. ~worker.success => [worker EXCEPT !.at = "reschedule"] \in
                           [at : {"reschedule"}, entry : {worker.entry}, success : {FALSE}]
  BY <1>3
<1>5. Paid(0, 0, redis)
  <2>1. redis \in Nat /\ 0 \in Nat
    BY <1>1
  <2>. QED
    BY <1>1, <2>1, SpendFacts
<1>. QED
  BY <1>1, <1>2, <1>3, <1>4, <1>5 DEF RemoveEntry, memory

LEMMA RescheduleFacts ==
  ASSUME TypeRest, Reschedule
  PROVE  \E again \in [event : Ids, retry_count : Nat], redis \in {0, 1} :
           /\ worker.at = "reschedule" /\ worker' = Idle
           /\ worker.entry \in [event : Ids, retry_count : Nat]
           /\ again.event = worker.entry.event
           /\ Paid(0, 0, redis)
           /\ UNCHANGED <<published, counters, tasks, buffer, seq_counter, rows>>
           /\ \/ redis = 0 /\ dlq' = dlq \cup {again.event} /\ failed' = failed
              \/ redis = 0 /\ failed' = failed \cup {again} /\ dlq' = dlq
              \/ redis = 1 /\ UNCHANGED <<failed, dlq>>
<1> DEFINE again == [worker.entry EXCEPT !.retry_count = @ + 1]
<1>1. worker.at = "reschedule" /\ worker.entry \in [event : Ids, retry_count : Nat]
  <2>1. worker.at = "reschedule"
    BY DEF Reschedule
  <2>2. worker # Idle
    BY <2>1 DEF Idle
  <2>3. worker \notin [at : {"remove"}, entry : failed, success : BOOLEAN]
    BY <2>1
  <2>4. worker \in [at : {"reschedule"}, entry : [event : Ids, retry_count : Nat], success : {FALSE}]
    BY <2>2, <2>3 DEF TypeRest
  <2>. QED
    BY <2>1, <2>4
<1>2. again \in [event : Ids, retry_count : Nat] /\ again.event = worker.entry.event
  BY <1>1
<1>3. ASSUME NEW redis \in {0, 1}, Spend(0, 0, redis)
      PROVE  Paid(0, 0, redis)
  <2>1. redis \in Nat /\ 0 \in Nat
    OBVIOUS
  <2>. QED
    BY <1>3, <2>1, SpendFacts
<1>4. /\ worker' = Idle /\ UNCHANGED <<published, counters, tasks, buffer, seq_counter, rows>>
      /\ \/ Spend(0, 0, 0) /\ dlq' = dlq \cup {again.event} /\ failed' = failed
         \/ Spend(0, 0, 0) /\ failed' = failed \cup {again} /\ dlq' = dlq
         \/ Spend(0, 0, 1) /\ UNCHANGED <<failed, dlq>>
  BY DEF Reschedule, memory
<1>. HIDE DEF again
<1>5. CASE Spend(0, 0, 0) /\ dlq' = dlq \cup {again.event} /\ failed' = failed
  BY <1>1, <1>2, <1>3, <1>4, <1>5
<1>6. CASE Spend(0, 0, 0) /\ failed' = failed \cup {again} /\ dlq' = dlq
  BY <1>1, <1>2, <1>3, <1>4, <1>6
<1>7. CASE Spend(0, 0, 1) /\ UNCHANGED <<failed, dlq>>
  BY <1>1, <1>2, <1>3, <1>4, <1>7
<1>. QED
  BY <1>4, <1>5, <1>6, <1>7

LEMMA RemoveType ==
  ASSUME TypeRest, RemoveEntry
  PROVE  TypeRest'
<1>1. Ids' = Ids
  BY RemoveFacts DEF Ids
<1>2. PICK redis \in {0, 1} :
           /\ worker.entry \in failed
           /\ faults' \in Faults
           /\ UNCHANGED <<published, counters, tasks, buffer, seq_counter, rows, dlq>>
           /\ failed' = IF redis = 0 THEN failed \ {worker.entry} ELSE failed
           /\ IF redis = 0 /\ ~worker.success
               THEN worker' \in [at : {"reschedule"}, entry : {worker.entry}, success : {FALSE}]
               ELSE worker' = Idle
  BY RemoveFacts DEF Paid
<1>. QED
  BY <1>1, <1>2 DEF TypeRest

LEMMA RescheduleType ==
  ASSUME TypeRest, Reschedule
  PROVE  TypeRest'
<1>1. PICK again \in [event : Ids, retry_count : Nat] :
           /\ worker' = Idle /\ faults' \in Faults
           /\ UNCHANGED <<published, counters, tasks, buffer, seq_counter, rows>>
           /\ \/ dlq' = dlq \cup {again.event} /\ failed' = failed
              \/ failed' = failed \cup {again} /\ dlq' = dlq
              \/ UNCHANGED <<failed, dlq>>
  BY RescheduleFacts DEF Paid
<1>2. Ids' = Ids
  BY <1>1 DEF Ids
<1>3. dlq' \subseteq Ids /\ failed' \subseteq [event : Ids, retry_count : Nat]
  BY <1>1 DEF TypeRest
<1>. QED
  BY <1>1, <1>2, <1>3 DEF TypeRest

LEMMA CrashFacts ==
  ASSUME TypeRest, Crash
  PROVE  /\ faults' \in Faults /\ faults' = [faults EXCEPT !.crash = @ + 1]
         /\ faults.crash \in Nat
         /\ tasks' = {} /\ buffer' = {} /\ seq_counter' = 0 /\ worker' = Idle
         /\ UNCHANGED <<published, rows, failed, dlq>>
         /\ TypeRest'
<1>1. faults \in [pg : Nat, ack : Nat, redis : Nat, crash : Nat]
  BY DEF TypeRest, Faults
<1>2. faults.crash + 1 \in Nat
  BY <1>1
<1>3. /\ faults' = [faults EXCEPT !.crash = @ + 1]
      /\ tasks' = {} /\ buffer' = {} /\ seq_counter' = 0 /\ worker' = Idle
      /\ UNCHANGED <<published, rows, failed, dlq>> /\ counters' \in [Sessions -> Nat]
  BY DEF Crash, stores
<1>4. faults' \in Faults
  BY <1>1, <1>2, <1>3 DEF Faults
<1>5. Ids' = Ids
  BY <1>3 DEF Ids
<1>6. TypeRest'
  BY <1>3, <1>4, <1>5, FS_EmptySet DEF TypeRest
<1>. QED
  BY <1>1, <1>3, <1>4, <1>6

LEMMA MeetingType ==
  ASSUME TypeRest, TypeMeeting, Next
  PROVE  TypeMeeting'
<1>1. Len(published) \in Nat
  BY LenType
<1>2. ASSUME NEW s \in Sessions, HandleCompletion(s)
      PROVE  TypeMeeting'
  BY <1>2 DEF HandleCompletion, TypeMeeting
<1>3. ASSUME NEW s \in Sessions, Verify(s)
      PROVE  TypeMeeting'
  BY <1>1, <1>3 DEF Verify, TypeMeeting
<1>4. ASSUME NEW s \in Sessions, Recount(s)
      PROVE  TypeMeeting'
  <2>1. meeting[s].tries + 1 \in Nat
    BY DEF TypeMeeting
  <2>. QED
    BY <1>4, <2>1 DEF Recount, TypeMeeting
<1>5. ASSUME NEW s \in Sessions, Warn(s)
      PROVE  TypeMeeting'
  BY <1>5 DEF Warn, TypeMeeting
<1>6. ASSUME NEW s \in Sessions, VerifyFails(s)
      PROVE  TypeMeeting'
  BY <1>6 DEF VerifyFails, TypeMeeting
<1>7. ASSUME Crash
      PROVE  TypeMeeting'
  BY <1>7 DEF Crash, TypeMeeting
<1>8. ASSUME UNCHANGED meeting
      PROVE  TypeMeeting'
  BY <1>8 DEF TypeMeeting
<1>9. \A e \in tasks : RunTask(e) => UNCHANGED meeting
  BY DEF RunTask, BufferEvent, BufferAndFlush, SaveCritical, CriticalRefused, TakeTask
<1>10. Work => UNCHANGED meeting
  BY DEF Work, retry_event, RemoveEntry, Reschedule
<1>11. \A s \in Sessions, kind \in {"normal", "critical"}, reach \in Reaches :
         publish_event(s, kind, reach) => UNCHANGED meeting
  BY DEF publish_event
<1>. QED
  BY <1>2, <1>3, <1>4, <1>5, <1>6, <1>7, <1>8, <1>9, <1>10, <1>11 DEF Next, Check

LEMMA InitType == Init => TypeOK
<1> SUFFICES ASSUME Init PROVE TypeOK
  OBVIOUS
<1>1. published \in Seq(Announced)
  BY EmptySeq DEF Init
<1>. QED
  BY <1>1, FS_EmptySet DEF Init, TypeOK, Announced

LEMMA NextType == TypeOK /\ [Next]_vars => TypeOK'
<1> SUFFICES ASSUME TypeRest, TypeMeeting, [Next]_vars
             PROVE  TypeRest' /\ TypeMeeting'
  BY TypeParts, TypePartsNext
<1>1. CASE Next
  <2>1. Flow => TypeRest'
    BY FlowType
  <2>2. Work => TypeRest'
    BY RetryType, RemoveType, RescheduleType DEF Work
  <2>. QED
    BY <1>1, <2>1, <2>2, CrashFacts, Steps, MeetingType
<1>2. CASE UNCHANGED vars
  BY <1>2 DEF vars, TypeRest, TypeMeeting, Ids
<1>. QED
  BY <1>1, <1>2

(* Type correctness of the pipeline.                                        *)
THEOREM TypeCorrect == Spec => []TypeOK
<1>. QED
  BY InitType, NextType, PTL DEF Spec

----------------------------------------------------------------------------
(* The invariant behind the safety properties.                               *)

(* Critical events are never buffered.                                       *)
Normal == \A x \in buffer : ~Critical(x.event)

(* An event is in one place at a time, but for a row that the retry worker   *)
(* has written before it removes the entry; what is dead is nowhere else.    *)
Places ==
  /\ \A e \in tasks : ~Buffered(e) /\ ~Queued(e) /\ e \notin Stored \cup dlq
  /\ \A x \in buffer : ~Queued(x.event) /\ x.event \notin Stored \cup dlq
  /\ \A x, y \in buffer : x.event = y.event => x = y
  /\ \A x, y \in failed : x.event = y.event => x = y
  /\ \A x \in failed : x.event \notin dlq
  /\ worker.at = "reschedule" =>
       /\ worker.entry.event \notin dlq
       /\ \A x \in failed : x.event # worker.entry.event
  /\ worker.at = "remove" /\ worker.success => worker.entry.event \in Stored

(* Without a lost acknowledgement, an error of Redis or a crash nothing that  *)
(* is queued is stored, except the event that the worker has just saved.      *)
OneRow ==
  faults.ack + faults.redis + faults.crash = 0 =>
    /\ StoredOnce
    /\ \A x \in failed : x.event \in Stored =>
         worker.at = "remove" /\ worker.entry = x /\ worker.success
    /\ worker.at = "reschedule" => worker.entry.event \notin Stored

(* Without an error of PostgreSQL or a crash the events line up: the rows,   *)
(* then the buffer, then the tasks.                                          *)
InLine ==
  faults.pg + faults.crash = 0 =>
    /\ failed = {} /\ worker = Idle
    /\ \A d \in Ids : published[d].reach = "all" => d \in tasks \cup Stored \/ Buffered(d)
    /\ \A x \in buffer, e \in tasks : x.event < e
    /\ \A d \in Stored : (\A e \in tasks : d < e) /\ (\A x \in buffer : d < x.event)

(* Without a crash the numbers of the batcher follow the events.             *)
Batched == {r \in rows : r.by = "batcher"}
Numbered ==
  faults.crash = 0 =>
    /\ \A q, r \in Batched : q.sequence < r.sequence <=> q.event < r.event
    /\ \A x, y \in buffer : x.sequence < y.sequence <=> x.event < y.event
    /\ \A r \in Batched, x \in buffer : r.sequence < x.sequence /\ r.event < x.event
    /\ \A r \in Batched : r.sequence <= seq_counter /\ \A e \in tasks : r.event < e
    /\ \A x \in buffer : x.sequence <= seq_counter /\ \A e \in tasks : x.event < e

Inv == TypeRest /\ Normal /\ Places

(* The rows that a flow adds.                                                *)
LEMMA FlowRows ==
  ASSUME TypeRest, NEW E \in SUBSET tasks, NEW Q, NEW S \in SUBSET Entries(E), Takes(E, S, Q)
  PROVE  /\ Stored' = Stored \cup {x.event : x \in S}
         /\ \A r \in rows' \ rows : \E x \in S : x.event = r.event /\ x.sequence = r.sequence
         /\ faults'.ack = faults.ack =>
              \A q, r \in rows' \ rows : q.event = r.event /\ q.sequence = r.sequence => q = r
BY DEF Takes, Adds

(* A flow takes the buffer and at most one new entry.                        *)
LEMMA EntryFacts ==
  ASSUME NEW E, NEW Q, NEW S, Takes(E, S, Q)
  PROVE  /\ \A x \in Entries(E) : x \in buffer \/ (x.event \in E /\ x.sequence = seq_counter + 1)
         /\ \A x, y \in Entries(E) : x \notin buffer /\ y \notin buffer => x = y
<1>1. \A x \in Entries(E) : x \in buffer \/ \E e \in E : x = Entry(e)
  BY DEF Entries
<1>2. \A e : Entry(e).event = e /\ Entry(e).sequence = seq_counter + 1
  BY DEF Entry
<1>3. \A x \in Entries(E) : x \in buffer \/ (x.event \in E /\ x.sequence = seq_counter + 1)
  BY <1>1, <1>2
<1>4. \A x, y \in Entries(E) : x \notin buffer /\ y \notin buffer => x = y
  BY <1>1 DEF Takes
<1>. QED
  BY <1>3, <1>4

(* What a flow queues.                                                       *)
LEMMA FlowQueued ==
  ASSUME NEW E, NEW Q, NEW S, Takes(E, S, Q)
  PROVE  \A d : Queued(d)' <=> Queued(d) \/ d \in Q
<1>1. worker.at = "idle" /\ worker'.at = "idle"
  BY DEF Takes, Idle
<1>2. failed' = failed \cup {[event |-> e, retry_count |-> 0] : e \in Q}
  BY DEF Takes
<1>3. \A d : Queued(d) <=> \E x \in failed : x.event = d
  BY <1>1 DEF Queued
<1>4. \A d : Queued(d)' <=> \E x \in failed' : x.event = d
  BY <1>1 DEF Queued
<1>5. \A d : (\E x \in failed' : x.event = d) <=> (\E x \in failed : x.event = d) \/ d \in Q
  <2>1. ASSUME NEW d \in Q
        PROVE  \E x \in failed' : x.event = d
    <3>1. [event |-> d, retry_count |-> 0] \in failed'
      BY <1>2
    <3>. QED
      BY <3>1
  <2>2. ASSUME NEW x \in failed'
        PROVE  x \in failed \/ x.event \in Q
    BY <1>2
  <2>3. failed \subseteq failed'
    BY <1>2
  <2>. QED
    BY <2>1, <2>2, <2>3
<1>. QED
  BY <1>3, <1>4, <1>5

(* Where the tasks and the numbers are.                                      *)
LEMMA FlowFacts ==
  ASSUME TypeRest, NEW E, Publishes(E)
  PROVE  /\ \A e \in tasks' : e \in tasks \ E \/ e \in NewIds
         /\ \A e \in NewIds : e \notin Ids /\ \A d \in Ids : d < e
         /\ Ids' = Ids \cup NewIds
<1>1. Len(published) \in Nat /\ Len(published') \in Nat /\ Len(published) <= Len(published')
  BY LenType DEF Publishes
<1>2. /\ \A e \in NewIds : e \notin Ids /\ \A d \in Ids : d < e
      /\ Ids' = Ids \cup NewIds
  BY <1>1 DEF NewIds, Ids
<1>3. \A e \in tasks' : e \in tasks \ E \/ e \in NewIds
  BY DEF Publishes
<1>. QED
  BY <1>2, <1>3

LEMMA FlowPlaces ==
  ASSUME Inv, Flow
  PROVE  Normal' /\ Places'
<1>1. PICK E \in SUBSET tasks :
        \E Q \in SUBSET E, S \in SUBSET Entries(E), pg, ack, redis \in Nat :
          Takes(E, S, Q) /\ Publishes(E) /\ Pays(E, S, Q, pg, ack, redis)
  BY DEF Flow
<1>2. PICK Q \in SUBSET E, S \in SUBSET Entries(E), pg \in Nat, ack \in Nat, redis \in Nat :
        Takes(E, S, Q) /\ Publishes(E) /\ Pays(E, S, Q, pg, ack, redis)
  BY <1>1
<1>3. TypeRest /\ Normal /\ Places
  BY DEF Inv
<1>4. /\ Stored' = Stored \cup {x.event : x \in S}
      /\ \A x \in Entries(E) : x.event \in Ids
      /\ \A x \in Entries(E) : x \in buffer \/ x.event \in E
      /\ \A x, y \in Entries(E) : x \notin buffer /\ y \notin buffer => x = y
      /\ \A d : Queued(d)' <=> Queued(d) \/ d \in Q
      /\ \A e \in tasks' : e \in tasks \ E \/ e \in NewIds
      /\ \A e \in NewIds : e \notin Ids
  <2>1. Stored' = Stored \cup {x.event : x \in S}
    BY <1>2, <1>3, FlowRows
  <2>2. Entries(E) \subseteq [event : Ids, sequence : Nat]
    BY <1>2, <1>3, EntriesType DEF Takes
  <2>. QED
    BY <2>1, <2>2, <1>2, <1>3, EntryFacts, FlowQueued, FlowFacts
<1>5. /\ buffer' \subseteq Entries(E)
      /\ S # {} => buffer' = {}
      /\ Q # {} => buffer' = {}
      /\ worker = Idle /\ worker' = Idle /\ dlq' = dlq
      /\ failed' = failed \cup {[event |-> e, retry_count |-> 0] : e \in Q}
      /\ \A e, d \in E : e = d
  BY <1>2 DEF Takes
<1>6. tasks \subseteq Ids /\ dlq \subseteq Ids /\ Stored \subseteq Ids /\ (\A d : Queued(d) => d \in Ids)
  <2>1. worker.at = "idle"
    BY <1>5 DEF Idle
  <2>. QED
    BY <1>3, <2>1 DEF TypeRest, Stored, Queued
<1>7. Normal'
  <2>1. \A x \in buffer' \ buffer : ~Critical(x.event)
    BY <1>2 DEF Takes
  <2>2. \A d \in Ids : published'[d] = published[d]
    BY <1>2 DEF Publishes
  <2>3. \A x \in buffer' : x.event \in Ids
    BY <1>4, <1>5
  <2>4. \A x \in buffer' : ~Critical(x.event)
    BY <1>3, <2>1 DEF Normal
  <2>. QED
    BY <2>2, <2>3, <2>4 DEF Normal, Critical
<1>8. ASSUME NEW e \in tasks'
      PROVE  ~Buffered(e)' /\ ~Queued(e)' /\ e \notin Stored' \cup dlq'
  <2>1. e \notin E
    BY <1>4, <1>6
  <2>2. ~Buffered(e) /\ ~Queued(e) /\ e \notin Stored \cup dlq
    BY <1>3, <1>4, <1>6 DEF Places, Buffered, TypeRest
  <2>3. \A x \in Entries(E) : x.event # e
    BY <2>1, <2>2, <1>4 DEF Buffered
  <2>. QED
    BY <2>1, <2>2, <2>3, <1>4, <1>5 DEF Buffered
<1>9. ASSUME NEW x \in buffer'
      PROVE  ~Queued(x.event)' /\ x.event \notin Stored' \cup dlq'
  <2>1. S = {} /\ Q = {} /\ x \in Entries(E)
    BY <1>5
  <2>2. ~Queued(x.event) /\ x.event \notin Stored \cup dlq
    BY <2>1, <1>3, <1>4 DEF Places
  <2>. QED
    BY <2>1, <2>2, <1>4, <1>5
<1>10. ASSUME NEW x \in buffer', NEW y \in buffer', x.event = y.event
       PROVE  x = y
  <2>1. x \in Entries(E) /\ y \in Entries(E)
    BY <1>5
  <2>2. CASE x \in buffer /\ y \in buffer
    BY <2>2, <1>3, <1>10 DEF Places
  <2>3. CASE x \in buffer /\ y \notin buffer
    BY <2>1, <2>3, <1>3, <1>4, <1>10 DEF Places, Buffered
  <2>4. CASE x \notin buffer /\ y \in buffer
    BY <2>1, <2>4, <1>3, <1>4, <1>10 DEF Places, Buffered
  <2>5. CASE x \notin buffer /\ y \notin buffer
    BY <2>1, <2>5, <1>4
  <2>. QED
    BY <2>2, <2>3, <2>4, <2>5
<1>11. ASSUME NEW x \in failed', NEW y \in failed', x.event = y.event
       PROVE  x = y
  <2>1. \A z \in failed' : z \in failed \/ (z.event \in E /\ z = [event |-> z.event, retry_count |-> 0])
    BY <1>5
  <2>2. \A z \in failed : z.event \notin E
    BY <1>3 DEF Places, Queued
  <2>3. CASE x \in failed /\ y \in failed
    BY <2>3, <1>3, <1>11 DEF Places
  <2>4. CASE x \notin failed /\ y \notin failed
    BY <2>1, <2>4, <1>11
  <2>. QED
    BY <2>1, <2>2, <2>3, <2>4, <1>11
<1>12. \A x \in failed' : x.event \notin dlq'
  <2>1. \A e \in E : e \notin dlq
    BY <1>3 DEF Places
  <2>. QED
    BY <2>1, <1>3, <1>5 DEF Places
<1>13. worker'.at = "idle"
  BY <1>5 DEF Idle
<1>. QED
  BY <1>7, <1>8, <1>9, <1>10, <1>11, <1>12, <1>13 DEF Places

LEMMA RetryPlaces ==
  ASSUME Inv, NEW entry \in failed, retry_event(entry)
  PROVE  Normal' /\ Places'
<1>1. TypeRest /\ Normal /\ Places
  BY DEF Inv
<1>2. PICK ok \in BOOLEAN :
        /\ worker = Idle /\ worker' = [at |-> "remove", entry |-> entry, success |-> ok]
        /\ UNCHANGED <<published, counters, tasks, buffer, seq_counter, failed, dlq>>
        /\ Stored' \subseteq Stored \cup {entry.event}
        /\ ok => entry.event \in Stored'
  BY <1>1, RetryFacts DEF Retried
<1>4. worker'.at = "remove" /\ worker'.entry = entry /\ worker.at = "idle"
  BY <1>2 DEF Idle
<1>5. Queued(entry.event)
  BY DEF Queued
<1>6. \A d : Queued(d)' <=> Queued(d)
  BY <1>2, <1>4 DEF Queued
<1>7. /\ \A e \in tasks' : ~Buffered(e)' /\ ~Queued(e)' /\ e \notin Stored' \cup dlq'
      /\ \A x \in buffer' : ~Queued(x.event)' /\ x.event \notin Stored' \cup dlq'
  BY <1>1, <1>2, <1>5, <1>6 DEF Places, Buffered
<1>8. worker'.success => worker'.entry.event \in Stored'
  BY <1>2
<1>9. Normal'
  BY <1>1, <1>2 DEF Normal, Critical
<1>10. /\ \A x, y \in buffer' : x.event = y.event => x = y
       /\ \A x, y \in failed' : x.event = y.event => x = y
       /\ \A x \in failed' : x.event \notin dlq'
  BY <1>1, <1>2 DEF Places
<1>. QED
  BY <1>4, <1>7, <1>8, <1>9, <1>10 DEF Places

LEMMA RemovePlaces ==
  ASSUME Inv, RemoveEntry
  PROVE  Normal' /\ Places'
<1>1. TypeRest /\ Normal /\ Places
  BY DEF Inv
<1>2. PICK redis \in {0, 1} :
           /\ worker.at = "remove" /\ worker.entry \in failed
           /\ UNCHANGED <<published, counters, tasks, buffer, seq_counter, rows, dlq>>
           /\ failed' = IF redis = 0 THEN failed \ {worker.entry} ELSE failed
           /\ IF redis = 0 /\ ~worker.success
               THEN worker' \in [at : {"reschedule"}, entry : {worker.entry}, success : {FALSE}]
               ELSE worker' = Idle
  BY <1>1, RemoveFacts
<1>3. Normal' /\ Stored' = Stored /\ failed' \subseteq failed
  BY <1>1, <1>2 DEF Normal, Critical, Stored
<1>a. \/ worker'.at = "idle"
      \/ worker'.at = "reschedule" /\ worker'.entry = worker.entry /\ redis = 0
  <2>1. Idle.at = "idle"
    BY DEF Idle
  <2>2. CASE redis = 0 /\ ~worker.success
    BY <1>2, <2>2
  <2>3. CASE ~(redis = 0 /\ ~worker.success)
    <3>1. worker' = Idle
      BY <1>2, <2>3
    <3>. QED
      BY <2>1, <3>1
  <2>. QED
    BY <2>2, <2>3
<1>4. \A d : Queued(d)' => Queued(d)
  BY <1>2, <1>3, <1>a DEF Queued
<1>5. \A d : Buffered(d)' <=> Buffered(d)
  BY <1>2 DEF Buffered
<1>6. worker'.at # "remove"
  BY <1>a
<1>7. worker'.at = "reschedule" =>
       /\ worker'.entry.event \notin dlq'
       /\ \A x \in failed' : x.event # worker'.entry.event
  <2> SUFFICES ASSUME worker'.at = "reschedule"
               PROVE  /\ worker'.entry.event \notin dlq'
                      /\ \A x \in failed' : x.event # worker'.entry.event
    OBVIOUS
  <2>1. redis = 0 /\ worker'.entry = worker.entry
    BY <1>a
  <2>2. failed' = failed \ {worker.entry}
    BY <1>2, <2>1
  <2>. QED
    BY <1>1, <1>2, <2>1, <2>2 DEF Places
<1>. QED
  BY <1>1, <1>2, <1>3, <1>4, <1>5, <1>6, <1>7 DEF Places

LEMMA ReschedulePlaces ==
  ASSUME Inv, Reschedule
  PROVE  Normal' /\ Places'
<1>1. TypeRest /\ Normal /\ Places
  BY DEF Inv
<1>2. PICK again \in [event : Ids, retry_count : Nat] :
           /\ worker.at = "reschedule" /\ worker' = Idle
           /\ again.event = worker.entry.event
           /\ UNCHANGED <<published, counters, tasks, buffer, seq_counter, rows>>
           /\ \/ dlq' = dlq \cup {again.event} /\ failed' = failed
              \/ failed' = failed \cup {again} /\ dlq' = dlq
              \/ UNCHANGED <<failed, dlq>>
  BY <1>1, RescheduleFacts
<1>3. Normal' /\ Stored' = Stored
  BY <1>1, <1>2 DEF Normal, Critical, Stored
<1>4. Queued(again.event)
  BY <1>2 DEF Queued
<1>5. \A d : Queued(d)' => Queued(d)
  BY <1>2, <1>4 DEF Queued, Idle
<1>6. \A d : Buffered(d)' <=> Buffered(d)
  BY <1>2 DEF Buffered
<1>7. dlq' \subseteq dlq \cup {again.event}
  BY <1>2
<1>8. \A x, y \in failed' : x.event = y.event => x = y
  BY <1>1, <1>2 DEF Places
<1>9. \A x \in failed' : x.event \notin dlq'
  BY <1>1, <1>2 DEF Places
<1>10. worker'.at = "idle"
  BY <1>2 DEF Idle
<1>11. /\ \A e \in tasks' : ~Buffered(e)' /\ ~Queued(e)' /\ e \notin Stored' \cup dlq'
       /\ \A x \in buffer' : ~Queued(x.event)' /\ x.event \notin Stored' \cup dlq'
       /\ \A x, y \in buffer' : x.event = y.event => x = y
  BY <1>1, <1>2, <1>3, <1>4, <1>5, <1>6, <1>7 DEF Places, Buffered
<1>. QED
  BY <1>3, <1>8, <1>9, <1>10, <1>11 DEF Places

LEMMA CrashPlaces ==
  ASSUME Inv, Crash
  PROVE  Normal' /\ Places'
<1>1. TypeRest /\ Places
  BY DEF Inv
<1>2. /\ tasks' = {} /\ buffer' = {} /\ worker' = Idle
      /\ UNCHANGED <<rows, failed, dlq>>
  BY <1>1, CrashFacts
<1>3. worker'.at = "idle"
  BY <1>2 DEF Idle
<1>. QED
  BY <1>1, <1>2, <1>3 DEF Normal, Places

LEMMA InvInit == Init => Inv
<1> SUFFICES ASSUME Init PROVE Inv
  OBVIOUS
<1>1. TypeRest
  BY InitType, TypeParts
<1>2. Normal /\ Places
  BY DEF Init, Normal, Places, Idle
<1>. QED
  BY <1>1, <1>2 DEF Inv

LEMMA InvNext == Inv /\ [Next]_vars => Inv'
<1> SUFFICES ASSUME Inv, [Next]_vars PROVE TypeRest' /\ Normal' /\ Places'
  BY DEF Inv
<1>1. TypeRest
  BY DEF Inv
<1>2. CASE Next
  <2>1. Flow \/ Work \/ Crash
    BY <1>1, <1>2, Steps
  <2>2. CASE Flow
    BY <1>1, <2>2, FlowType, FlowPlaces
  <2>3. CASE Work
    BY <1>1, <2>3, RetryType, RetryPlaces, RemoveType, RemovePlaces, RescheduleType,
       ReschedulePlaces DEF Work
  <2>4. CASE Crash
    BY <1>1, <2>4, CrashFacts, CrashPlaces
  <2>. QED
    BY <2>1, <2>2, <2>3, <2>4
<1>3. CASE UNCHANGED vars
  BY <1>3 DEF vars, Inv, TypeRest, Normal, Places, Ids, Critical, Buffered, Queued, Stored
<1>. QED
  BY <1>2, <1>3

LEMMA InvAlways == Spec => []Inv
BY InvInit, InvNext, PTL DEF Spec

----------------------------------------------------------------------------
(* The refinement of EventLedger.                                            *)

FateIs(e, f) ==
  /\ e \in Stored => f = "kept"
  /\ e \notin Stored /\ e \in dlq => f = "dead"
  /\ e \notin Stored \cup dlq /\ Pending(e) => f = "pending"
  /\ e \notin Stored \cup dlq /\ ~Pending(e) /\ e \in Ids => f = "lost"
  /\ e \notin Stored \cup dlq /\ ~Pending(e) /\ e \notin Ids => f = "unpublished"

LEMMA FateFacts ==
  ASSUME NEW e
  PROVE  FateIs(e, Fate(e)) /\ FateIs(e, Fate(e))'
<1>1. FateIs(e, Fate(e))
  <2>1. CASE e \in Stored
    BY <2>1 DEF Fate, FateIs, Lost
  <2>2. CASE e \notin Stored /\ e \in dlq
    BY <2>2 DEF Fate, FateIs, Lost
  <2>3. CASE e \notin Stored /\ e \notin dlq /\ Pending(e)
    BY <2>3 DEF Fate, FateIs, Lost
  <2>4. CASE e \notin Stored /\ e \notin dlq /\ ~Pending(e) /\ e \in Ids
    BY <2>4 DEF Fate, FateIs, Lost
  <2>5. CASE e \notin Stored /\ e \notin dlq /\ ~Pending(e) /\ e \notin Ids
    BY <2>5 DEF Fate, FateIs, Lost
  <2>. QED
    BY <2>1, <2>2, <2>3, <2>4, <2>5
<1>2. FateIs(e, Fate(e))'
  <2>1. CASE e \in Stored'
    BY <2>1 DEF Fate, FateIs, Lost
  <2>2. CASE e \notin Stored' /\ e \in dlq'
    BY <2>2 DEF Fate, FateIs, Lost
  <2>3. CASE e \notin Stored' /\ e \notin dlq' /\ Pending(e)'
    BY <2>3 DEF Fate, FateIs, Lost
  <2>4. CASE e \notin Stored' /\ e \notin dlq' /\ ~Pending(e)' /\ e \in Ids'
    BY <2>4 DEF Fate, FateIs, Lost
  <2>5. CASE e \notin Stored' /\ e \notin dlq' /\ ~Pending(e)' /\ e \notin Ids'
    BY <2>5 DEF Fate, FateIs, Lost
  <2>. QED
    BY <2>1, <2>2, <2>3, <2>4, <2>5
<1>. QED
  BY <1>1, <1>2

(* What a step has to respect for the events to move as the ledger allows.   *)
LEMMA LedgerStep ==
  ASSUME TypeRest, Harm \in Nat, Harm' \in Nat, Harm' >= Harm,
         Ids \subseteq Ids', Stored \subseteq Stored', dlq \subseteq dlq',
         \A e : Pending(e) => e \in Ids,
         \A e : Pending(e)' => e \in Ids',
         Stored' \cup dlq' \subseteq Ids',
         \A e \in Stored' : e \in Stored \/ (Pending(e) /\ e \notin dlq),
         \A e \in dlq' : e \in dlq \/ Pending(e),
         \A e \in Ids : Pending(e)' => Pending(e) \/ e \in Stored' \cup dlq',
         \A e \in Ids' : (Pending(e) \/ e \notin Ids) /\ ~Pending(e)' /\ e \notin Stored' \cup dlq'
                        => Harm' > Harm
  PROVE  Ledger!Next
<1> DEFINE F == [e \in 1 .. MaxEvents |-> Fate(e)]
<1>1. ASSUME NEW e \in 1 .. MaxEvents
      PROVE  /\ Fate(e)' \in Ledger!Fates
             /\ Fate(e)' # Fate(e) => <<Fate(e), Fate(e)'>> \in Ledger!Moves
             /\ Fate(e)' = "lost" /\ Fate(e) # "lost" => Harm' > Harm
  <2>1. FateIs(e, Fate(e)) /\ FateIs(e, Fate(e))'
    BY FateFacts
  <2>2. CASE e \in Stored
    BY <2>1, <2>2 DEF FateIs, Ledger!Fates
  <2>3. CASE e \notin Stored /\ e \in dlq
    BY <2>1, <2>3 DEF FateIs, Ledger!Fates
  <2>4. CASE e \notin Stored \cup dlq /\ Pending(e)
    <3>1. Fate(e) = "pending"
      BY <2>1, <2>4 DEF FateIs
    <3>2. e \in Ids'
      BY <2>4
    <3>3. Fate(e)' \in {"kept", "dead", "pending"} \/ (Fate(e)' = "lost" /\ Harm' > Harm)
      BY <2>1, <2>4, <3>2 DEF FateIs
    <3>. QED
      BY <3>1, <3>3 DEF Ledger!Fates, Ledger!Moves
  <2>5. CASE e \notin Stored \cup dlq /\ ~Pending(e) /\ e \in Ids
    BY <2>1, <2>5 DEF FateIs, Ledger!Fates
  <2>6. CASE e \notin Stored \cup dlq /\ ~Pending(e) /\ e \notin Ids
    <3>1. Fate(e) = "unpublished"
      BY <2>1, <2>6 DEF FateIs
    <3>2. e \notin Stored' \cup dlq'
      BY <2>6
    <3>3. Fate(e)' \in {"unpublished", "pending"} \/ (Fate(e)' = "lost" /\ Harm' > Harm)
      BY <2>1, <2>6, <3>2 DEF FateIs
    <3>. QED
      BY <3>1, <3>3 DEF Ledger!Fates, Ledger!Moves
  <2>. QED
    BY <2>2, <2>3, <2>4, <2>5, <2>6
<1>2. /\ F' \in [1 .. MaxEvents -> Ledger!Fates]
      /\ \A e \in 1 .. MaxEvents : F[e] = Fate(e) /\ F'[e] = Fate(e)'
  BY <1>1
<1>. QED
  BY <1>1, <1>2 DEF Ledger!Next

LEMMA HarmType ==
  ASSUME TypeRest
  PROVE  /\ Harm \in Nat /\ faults.pg \in Nat /\ faults.ack \in Nat
         /\ faults.redis \in Nat /\ faults.crash \in Nat
         /\ Harm = faults.pg + faults.ack + faults.redis + faults.crash
<1>1. faults \in [pg : Nat, ack : Nat, redis : Nat, crash : Nat]
  BY DEF TypeRest, Faults
<1>. QED
  BY <1>1 DEF Harm

LEMMA HarmPaid ==
  ASSUME TypeRest, NEW pg \in Nat, NEW ack \in Nat, NEW redis \in Nat,
         Paid(pg, ack, redis)
  PROVE  /\ Harm' = Harm + pg + ack + redis
         /\ faults'.pg = faults.pg + pg /\ faults'.redis = faults.redis + redis
         /\ faults'.crash = faults.crash
<1>1. faults \in [pg : Nat, ack : Nat, redis : Nat, crash : Nat]
  BY DEF TypeRest, Faults
<1>. QED
  BY <1>1 DEF Harm, Paid

(* What is pending has been published.                                      *)
LEMMA PendingType ==
  ASSUME TypeRest
  PROVE  /\ \A e : Pending(e) => e \in Ids
         /\ Stored \cup dlq \subseteq Ids
<1>1. \A e : Queued(e) => e \in Ids
  <2> SUFFICES ASSUME NEW e, Queued(e) PROVE e \in Ids
    OBVIOUS
  <2>1. CASE \E x \in failed : x.event = e
    BY <2>1 DEF TypeRest
  <2>2. CASE worker.at = "reschedule" /\ worker.entry.event = e
    <3>1. worker # Idle
      BY <2>2 DEF Idle
    <3>2. worker \notin [at : {"remove"}, entry : failed, success : BOOLEAN]
      BY <2>2
    <3>3. worker \in [at : {"reschedule"}, entry : [event : Ids, retry_count : Nat], success : {FALSE}]
      BY <3>1, <3>2 DEF TypeRest
    <3>. QED
      BY <2>2, <3>3
  <2>. QED
    BY <2>1, <2>2 DEF Queued
<1>. QED
  BY <1>1 DEF Pending, Buffered, Stored, TypeRest

LEMMA PendingTypeNext ==
  ASSUME TypeRest'
  PROVE  /\ \A e : Pending(e)' => e \in Ids'
         /\ Stored' \cup dlq' \subseteq Ids'
<1>1. \A e : Queued(e)' => e \in Ids'
  <2> SUFFICES ASSUME NEW e, Queued(e)' PROVE e \in Ids'
    OBVIOUS
  <2>1. CASE \E x \in failed' : x.event = e
    BY <2>1 DEF TypeRest
  <2>2. CASE worker'.at = "reschedule" /\ worker'.entry.event = e
    <3>1. worker' # Idle
      BY <2>2 DEF Idle
    <3>2. worker' \notin [at : {"remove"}, entry : failed', success : BOOLEAN]
      BY <2>2
    <3>3. worker' \in [at : {"reschedule"}, entry : [event : Ids', retry_count : Nat], success : {FALSE}]
      BY <3>1, <3>2 DEF TypeRest, Idle
    <3>. QED
      BY <2>2, <3>3
  <2>. QED
    BY <2>1, <2>2 DEF Queued
<1>. QED
  BY <1>1 DEF Pending, Buffered, Stored, TypeRest

(* The events that a flow loses are among those it drops or that go unheard. *)
LEMMA FlowPending ==
  ASSUME Inv, NEW E \in SUBSET tasks, NEW Q \in SUBSET E, NEW S \in SUBSET Entries(E),
         Takes(E, S, Q), Publishes(E)
  PROVE  /\ Ids \subseteq Ids' /\ Stored \subseteq Stored' /\ dlq' = dlq
         /\ \A e \in Stored' : e \in Stored \/ (Pending(e) /\ e \notin dlq)
         /\ \A e \in Ids : Pending(e)' => Pending(e)
         /\ \A e \in Ids : Pending(e) /\ ~Pending(e)' /\ e \notin Stored' =>
              e \notin Q /\ \E x \in Dropped(E, S) : x.event = e
         /\ \A e \in Ids' : e \notin Ids /\ ~Pending(e)' => e \in Unheard
<1>1. TypeRest /\ Places
  BY DEF Inv
<1>2. /\ Stored' = Stored \cup {x.event : x \in S}
      /\ \A x \in Entries(E) : x \in buffer \/ x.event \in E
      /\ \A d : Queued(d)' <=> Queued(d) \/ d \in Q
      /\ \A e \in tasks' : e \in tasks \ E \/ e \in NewIds
      /\ \A e \in NewIds : e \notin Ids
      /\ Ids' = Ids \cup NewIds
  <2>1. Stored' = Stored \cup {x.event : x \in S}
    BY <1>1, FlowRows
  <2>. QED
    BY <1>1, <2>1, EntryFacts, FlowQueued, FlowFacts
<1>3. /\ buffer' \subseteq Entries(E) /\ buffer \subseteq Entries(E) /\ dlq' = dlq
      /\ S \subseteq Entries(E)
      /\ \A e \in E : Entry(e) \in Entries(E) /\ Entry(e).event = e
  BY DEF Takes, Entries, Entry
<1>4. tasks' = (tasks \ E) \cup {i \in NewIds : published'[i].reach = "all"}
  BY DEF Publishes
<1>5. \A x \in Entries(E) : Pending(x.event) /\ x.event \notin dlq
  BY <1>1, <1>2 DEF Pending, Buffered, Places
<1>6. \A e \in Stored' : e \in Stored \/ (Pending(e) /\ e \notin dlq)
  BY <1>2, <1>3, <1>5
<1>7. ASSUME NEW e \in Ids, Pending(e)'
      PROVE  Pending(e)
  <2>1. CASE e \in tasks'
    BY <2>1, <1>2 DEF Pending
  <2>2. CASE Buffered(e)'
    BY <2>2, <1>3, <1>5 DEF Buffered
  <2>3. CASE Queued(e)'
    BY <2>3, <1>2 DEF Pending
  <2>. QED
    BY <1>7, <2>1, <2>2, <2>3 DEF Pending
<1>8. ASSUME NEW e \in Ids, Pending(e), ~Pending(e)', e \notin Stored'
      PROVE  e \notin Q /\ \E x \in Dropped(E, S) : x.event = e
  <2>1. e \notin tasks' /\ ~Buffered(e)' /\ ~Queued(e)'
    BY <1>8 DEF Pending
  <2>2. ~Queued(e) /\ e \notin Q
    BY <1>2, <2>1
  <2>3. e \in E \/ Buffered(e)
    BY <1>4, <1>8, <2>1, <2>2 DEF Pending
  <2>4. PICK x \in Entries(E) : x.event = e
    BY <1>3, <2>3 DEF Buffered
  <2>5. x \notin buffer' /\ x \notin S
    BY <1>2, <1>8, <2>1, <2>4 DEF Buffered
  <2>. QED
    BY <2>2, <2>4, <2>5 DEF Dropped
<1>9. ASSUME NEW e \in Ids', e \notin Ids, ~Pending(e)'
      PROVE  e \in Unheard
  <2>1. e \in NewIds /\ e \notin tasks'
    BY <1>2, <1>9 DEF Pending
  <2>. QED
    BY <1>4, <2>1 DEF Unheard
<1>. QED
  BY <1>2, <1>3, <1>6, <1>7, <1>8, <1>9

LEMMA FlowLedger ==
  ASSUME Inv, Inv', Flow
  PROVE  Ledger!Next
<1>1. PICK E \in SUBSET tasks :
        \E Q \in SUBSET E, S \in SUBSET Entries(E), pg, ack, redis \in Nat :
          Takes(E, S, Q) /\ Publishes(E) /\ Pays(E, S, Q, pg, ack, redis)
  BY DEF Flow
<1>2. PICK Q \in SUBSET E, S \in SUBSET Entries(E), pg \in Nat, ack \in Nat, redis \in Nat :
        Takes(E, S, Q) /\ Publishes(E) /\ Pays(E, S, Q, pg, ack, redis)
  BY <1>1
<1>3. TypeRest /\ TypeRest'
  BY DEF Inv
<1>4. /\ Ids \subseteq Ids' /\ Stored \subseteq Stored' /\ dlq' = dlq
      /\ \A e \in Stored' : e \in Stored \/ (Pending(e) /\ e \notin dlq)
      /\ \A e \in Ids : Pending(e)' => Pending(e)
      /\ \A e \in Ids : Pending(e) /\ ~Pending(e)' /\ e \notin Stored' =>
           e \notin Q /\ \E x \in Dropped(E, S) : x.event = e
      /\ \A e \in Ids' : e \notin Ids /\ ~Pending(e)' => e \in Unheard
  <2>1. E \in SUBSET tasks /\ Q \in SUBSET E /\ S \in SUBSET Entries(E)
    BY <1>1, <1>2
  <2>2. Takes(E, S, Q) /\ Publishes(E)
    BY <1>2
  <2> HIDE <1>1, <1>2
  <2>. QED
    BY <2>1, <2>2, FlowPending
<1>5. Harm \in Nat /\ Harm' = Harm + pg + ack + redis
  BY <1>2, <1>3, HarmType, HarmPaid DEF Pays
<1>6. Dropped(E, S) # {} => pg > 0
  <2>1. IsFiniteSet(Dropped(E, S)) /\ Cardinality(Dropped(E, S)) <= pg
    BY <1>2 DEF Pays
  <2>2. Cardinality(Dropped(E, S)) \in Nat
    BY <2>1, FS_CardinalityType
  <2>3. Dropped(E, S) # {} => Cardinality(Dropped(E, S)) # 0
    BY <2>1, FS_EmptySet
  <2>. QED
    BY <2>1, <2>2, <2>3
<1>7. Unheard # {} => redis > 0
  <2>1. IsFiniteSet(Unheard) /\ Cardinality(Unheard) <= redis
    BY <1>2 DEF Pays
  <2>2. Cardinality(Unheard) \in Nat
    BY <2>1, FS_CardinalityType
  <2>3. Unheard # {} => Cardinality(Unheard) # 0
    BY <2>1, FS_EmptySet
  <2>. QED
    BY <2>1, <2>2, <2>3
<1>8. (pg > 0 \/ redis > 0) => Harm' > Harm
  BY <1>5
<1>9. \A e \in Ids' : (Pending(e) \/ e \notin Ids) /\ ~Pending(e)' /\ e \notin Stored' \cup dlq'
                      => Harm' > Harm
  BY <1>4, <1>6, <1>7, <1>8
<1>10. Harm' \in Nat /\ Harm' >= Harm
  BY <1>5
<1>. QED
  BY <1>3, <1>4, <1>5, <1>9, <1>10, PendingType, PendingTypeNext, LedgerStep

(* What a retry stores.                                                      *)
LEMMA RetryStored ==
  ASSUME TypeRest, NEW entry \in failed, retry_event(entry)
  PROVE  /\ Stored' \subseteq Stored \cup {entry.event} /\ Stored \subseteq Stored'
         /\ worker'.success => entry.event \in Stored'
         /\ rows \subseteq rows' /\ \A r \in rows' \ rows : r.by = "worker" /\ r.event = entry.event
         /\ faults'.ack = faults.ack =>
              (\A q, r \in rows' \ rows : q = r) /\ (~worker'.success => rows' = rows)
<1>1. PICK ok \in BOOLEAN : Retried(entry, ok)
  BY RetryFacts
<1>2. worker'.success = ok
  BY <1>1 DEF Retried
<1>. QED
  BY <1>1, <1>2 DEF Retried

(* What the removal of an entry leaves in the queue.                         *)
LEMMA RemoveQueued ==
  ASSUME TypeRest, Places, RemoveEntry
  PROVE  /\ \A d : Queued(d)' => Queued(d)
         /\ \A d : Queued(d) => Queued(d)' \/ d \in Stored
<1>1. PICK redis \in {0, 1} :
           /\ worker.at = "remove" /\ worker.entry \in failed
           /\ failed' = IF redis = 0 THEN failed \ {worker.entry} ELSE failed
           /\ IF redis = 0 /\ ~worker.success
               THEN worker' \in [at : {"reschedule"}, entry : {worker.entry}, success : {FALSE}]
               ELSE worker' = Idle
  BY RemoveFacts
<1>2. \A d : Queued(d) <=> \E x \in failed : x.event = d
  BY <1>1 DEF Queued
<1>3. CASE redis = 0 /\ ~worker.success
  <2>1. /\ worker'.at = "reschedule" /\ worker'.entry = worker.entry
        /\ failed' = failed \ {worker.entry}
    BY <1>1, <1>3
  <2>. QED
    BY <1>1, <1>2, <2>1 DEF Queued
<1>4. CASE ~(redis = 0 /\ ~worker.success)
  <2>0. worker' = Idle
    BY <1>1, <1>4
  <2>1. worker'.at = "idle" /\ failed' \subseteq failed
    BY <1>1, <2>0 DEF Idle
  <2>2. \A x \in failed : x \in failed' \/ x.event \in Stored
    BY <1>1, <1>4 DEF Places
  <2>. QED
    BY <1>2, <2>1, <2>2 DEF Queued
<1>. QED
  BY <1>3, <1>4

LEMMA WorkLedger ==
  ASSUME Inv, Inv', Work
  PROVE  Ledger!Next
<1>1. TypeRest /\ TypeRest' /\ Places
  BY DEF Inv
<1>2. ASSUME NEW entry \in failed, retry_event(entry)
      PROVE  Ledger!Next
  <2>1. PICK ok \in BOOLEAN :
          /\ worker = Idle /\ worker' = [at |-> "remove", entry |-> entry, success |-> ok]
          /\ UNCHANGED <<published, counters, tasks, buffer, seq_counter, failed, dlq>>
          /\ \E ack \in Nat : Paid(IF ok THEN 0 ELSE 1, ack, 0)
    BY <1>1, <1>2, RetryFacts DEF Retried
  <2>2. Stored' \subseteq Stored \cup {entry.event} /\ Stored \subseteq Stored'
    BY <1>1, <1>2, RetryStored
  <2>3. Harm \in Nat /\ Harm' \in Nat /\ Harm' >= Harm
    <3>1. PICK ack \in Nat : Paid(IF ok THEN 0 ELSE 1, ack, 0)
      BY <2>1
    <3>2. (IF ok THEN 0 ELSE 1) \in Nat /\ 0 \in Nat
      OBVIOUS
    <3>3. Harm' = Harm + (IF ok THEN 0 ELSE 1) + ack + 0
      BY <1>1, <3>1, <3>2, HarmPaid
    <3>. QED
      BY <1>1, <3>2, <3>3, HarmType
  <2>4. \A d : Queued(d)' <=> Queued(d)
    <3>1. worker.at = "idle" /\ worker'.at = "remove"
      BY <2>1 DEF Idle
    <3>. QED
      BY <2>1, <3>1 DEF Queued
  <2>5. \A d : Pending(d)' <=> Pending(d)
    BY <2>1, <2>4 DEF Pending, Buffered
  <2>6. Pending(entry.event) /\ entry.event \notin dlq
    BY <1>1 DEF Pending, Queued, Places
  <2>7. Ids' = Ids
    BY <2>1 DEF Ids
  <2>. QED
    BY <1>1, <2>1, <2>2, <2>3, <2>5, <2>6, <2>7, PendingType, PendingTypeNext, LedgerStep
<1>3. ASSUME RemoveEntry
      PROVE  Ledger!Next
  <2>1. PICK redis \in {0, 1} :
           /\ worker.at = "remove" /\ worker.entry \in failed
           /\ Paid(0, 0, redis)
           /\ UNCHANGED <<published, counters, tasks, buffer, seq_counter, rows, dlq>>
           /\ failed' = IF redis = 0 THEN failed \ {worker.entry} ELSE failed
           /\ IF redis = 0 /\ ~worker.success
               THEN worker' \in [at : {"reschedule"}, entry : {worker.entry}, success : {FALSE}]
               ELSE worker' = Idle
    BY <1>1, <1>3, RemoveFacts
  <2>2. Stored' = Stored /\ Ids' = Ids
    BY <2>1 DEF Stored, Ids
  <2>3. Harm \in Nat /\ Harm' \in Nat /\ Harm' >= Harm
    <3>0. 0 \in Nat /\ redis \in Nat
      BY <2>1
    <3>1. Harm' = Harm + 0 + 0 + redis
      BY <1>1, <2>1, <3>0, HarmPaid
    <3>. QED
      BY <1>1, <2>1, <3>1, HarmType
  <2>4. \A d : Queued(d)' => Queued(d)
    BY <1>1, <1>3, RemoveQueued
  <2>5. \A d : Queued(d) => Queued(d)' \/ d \in Stored
    BY <1>1, <1>3, RemoveQueued
  <2>6. \A d : /\ Pending(d)' => Pending(d)
               /\ Pending(d) => Pending(d)' \/ d \in Stored'
    BY <2>1, <2>2, <2>4, <2>5 DEF Pending, Buffered
  <2>. QED
    BY <1>1, <2>1, <2>2, <2>3, <2>6, PendingType, PendingTypeNext, LedgerStep
<1>4. ASSUME Reschedule
      PROVE  Ledger!Next
  <2>1. PICK again \in [event : Ids, retry_count : Nat], redis \in {0, 1} :
           /\ worker.at = "reschedule" /\ worker' = Idle
           /\ again.event = worker.entry.event
           /\ Paid(0, 0, redis)
           /\ UNCHANGED <<published, counters, tasks, buffer, seq_counter, rows>>
           /\ \/ redis = 0 /\ dlq' = dlq \cup {again.event} /\ failed' = failed
              \/ redis = 0 /\ failed' = failed \cup {again} /\ dlq' = dlq
              \/ redis = 1 /\ UNCHANGED <<failed, dlq>>
    BY <1>1, <1>4, RescheduleFacts
  <2>2. Stored' = Stored /\ Ids' = Ids
    BY <2>1 DEF Stored, Ids
  <2>3. Harm \in Nat /\ Harm' = Harm + redis
    <3>0. 0 \in Nat /\ redis \in Nat
      BY <2>1
    <3>1. Harm' = Harm + 0 + 0 + redis
      BY <1>1, <2>1, <3>0, HarmPaid
    <3>. QED
      BY <1>1, <2>1, <3>1, HarmType
  <2>4. Queued(again.event)
    BY <2>1 DEF Queued
  <2>5. \A d : Queued(d)' <=> \E x \in failed' : x.event = d
    BY <2>1 DEF Queued, Idle
  <2>6. \A d : Queued(d) <=> (\E x \in failed : x.event = d) \/ d = again.event
    BY <2>1 DEF Queued
  <2>7. \A d : /\ Queued(d)' => Queued(d)
               /\ Queued(d) => Queued(d)' \/ d \in dlq' \/ redis = 1
    BY <2>1, <2>5, <2>6
  <2>8. \A d : /\ Pending(d)' => Pending(d)
               /\ Pending(d) => Pending(d)' \/ d \in dlq' \/ redis = 1
    BY <2>1, <2>7 DEF Pending, Buffered
  <2>9. \A d \in dlq' : d \in dlq \/ Pending(d)
    BY <2>1, <2>4 DEF Pending
  <2>10. Harm' \in Nat /\ Harm' >= Harm /\ (redis = 1 => Harm' > Harm)
    BY <2>1, <2>3
  <2>11. dlq \subseteq dlq'
    BY <2>1
  <2>. QED
    BY <1>1, <2>2, <2>3, <2>8, <2>9, <2>10, <2>11, PendingType, PendingTypeNext, LedgerStep
<1>. QED
  BY <1>2, <1>3, <1>4 DEF Work

LEMMA CrashLedger ==
  ASSUME Inv, Inv', Crash
  PROVE  Ledger!Next
<1>1. TypeRest /\ TypeRest'
  BY DEF Inv
<1>2. /\ faults' = [faults EXCEPT !.crash = @ + 1]
      /\ tasks' = {} /\ buffer' = {} /\ worker' = Idle
      /\ UNCHANGED <<published, rows, failed, dlq>>
  BY <1>1, CrashFacts
<1>3. faults \in [pg : Nat, ack : Nat, redis : Nat, crash : Nat]
  BY <1>1 DEF TypeRest, Faults
<1>4. Harm \in Nat /\ Harm' = Harm + 1
  BY <1>2, <1>3 DEF Harm
<1>5. Stored' = Stored /\ Ids' = Ids
  BY <1>2 DEF Stored, Ids
<1>6. \A d : Queued(d)' => Queued(d)
  <2>1. worker'.at = "idle"
    BY <1>2 DEF Idle
  <2>. QED
    BY <1>2, <2>1 DEF Queued
<1>7. \A d : Pending(d)' => Pending(d)
  BY <1>2, <1>6 DEF Pending, Buffered
<1>8. Harm' \in Nat /\ Harm' > Harm /\ Harm' >= Harm
  BY <1>4
<1>. QED
  BY <1>1, <1>2, <1>4, <1>5, <1>7, <1>8, PendingType, PendingTypeNext, LedgerStep

(* The pipeline implements the ledger: every step moves the events as the    *)
(* ledger allows, and loses one only when something fails.                   *)
THEOREM PipelineImplementsLedger == Spec => ImplementsLedger
<1>1. Init => Ledger!Init
  <2> SUFFICES ASSUME Init PROVE Ledger!Init
    OBVIOUS
  <2>1. TypeRest /\ Ids = {} /\ Stored = {} /\ dlq = {} /\ tasks = {} /\ buffer = {} /\ failed = {}
        /\ worker.at = "idle"
    BY InitType, TypeParts DEF Init, Ids, Stored, Idle
  <2>2. \A e : Fate(e) = "unpublished"
    BY <2>1, FateFacts DEF FateIs, Pending, Buffered, Queued
  <2>3. Harm = 0
    BY DEF Init, Harm
  <2>. QED
    BY <2>2, <2>3 DEF Ledger!Init
<1>2. Inv /\ Inv' /\ [Next]_vars => [Ledger!Next]_<<[e \in 1 .. MaxEvents |-> Fate(e)], Harm>>
  <2> SUFFICES ASSUME Inv, Inv', [Next]_vars
               PROVE  [Ledger!Next]_<<[e \in 1 .. MaxEvents |-> Fate(e)], Harm>>
    OBVIOUS
  <2>1. CASE Next
    BY <2>1, Steps, FlowLedger, WorkLedger, CrashLedger DEF Inv
  <2>2. CASE UNCHANGED vars
    <3>1. Stored' = Stored /\ dlq' = dlq /\ Ids' = Ids /\ Harm' = Harm
          /\ \A e : Pending(e)' <=> Pending(e)
      BY <2>2 DEF vars, Stored, Ids, Harm, Pending, Buffered, Queued
    <3>2. \A e \in 1 .. MaxEvents : Fate(e)' = Fate(e)
      BY <3>1, FateFacts DEF FateIs
    <3>. QED
      BY <3>1, <3>2
  <2>. QED
    BY <2>1, <2>2
<1>3. Spec => []Inv
  BY InvAlways
<1>. QED
  BY <1>1, <1>2, <1>3, PTL DEF Spec, ImplementsLedger, Ledger!Spec
----------------------------------------------------------------------------
(* The rows: one for each event, and in order.                               *)

(* No step undoes a failure.                                                 *)
LEMMA FaultsGrow ==
  ASSUME TypeRest, NEW pg \in Nat, NEW ack \in Nat, NEW redis \in Nat,
         Paid(pg, ack, redis)
  PROVE  /\ faults'.crash = 0 => faults.crash = 0
         /\ faults'.ack + faults'.redis + faults'.crash = 0 =>
              /\ ack = 0 /\ redis = 0 /\ faults'.ack = faults.ack
              /\ faults.ack + faults.redis + faults.crash = 0
         /\ faults'.pg + faults'.crash = 0 => pg = 0 /\ faults.pg + faults.crash = 0
<1>1. faults.pg \in Nat /\ faults.ack \in Nat /\ faults.redis \in Nat /\ faults.crash \in Nat
  BY HarmType
<1>2. /\ faults'.pg = faults.pg + pg /\ faults'.ack = faults.ack + ack
      /\ faults'.redis = faults.redis + redis /\ faults'.crash = faults.crash
  BY DEF Paid
<1>. HIDE DEF Paid
<1>3. faults'.crash = 0 => faults.crash = 0
  BY <1>2
<1>4. \A a, b \in Nat : a + b \in Nat /\ (a + b = 0 => a = 0 /\ b = 0)
  OBVIOUS
<1>5. ASSUME faults'.ack + faults'.redis + faults'.crash = 0
      PROVE  /\ ack = 0 /\ redis = 0 /\ faults.ack + ack = faults.ack
             /\ faults.ack + faults.redis + faults.crash = 0
  <2>1. (faults.ack + ack) + (faults.redis + redis) + faults.crash = 0
    BY <1>2, <1>5
  <2>2. faults.ack + ack \in Nat /\ faults.redis + redis \in Nat
    BY <1>1, <1>4
  <2>3. (faults.ack + ack) + (faults.redis + redis) = 0 /\ faults.crash = 0
    BY <2>1, <2>2, <1>1, <1>4
  <2>4. faults.ack + ack = 0 /\ faults.redis + redis = 0
    BY <2>2, <2>3, <1>4
  <2>5. faults.ack = 0 /\ ack = 0 /\ faults.redis = 0 /\ redis = 0
    BY <2>4, <1>1, <1>4
  <2>. QED
    BY <2>5, <2>3
<1>6. ASSUME NEW a \in Nat, NEW c \in Nat, NEW d \in Nat, (a + d) + c = 0
      PROVE  d = 0 /\ a + c = 0
  BY <1>6
<1>7. ASSUME faults'.pg + faults'.crash = 0
      PROVE  pg = 0 /\ faults.pg + faults.crash = 0
  <2>1. (faults.pg + pg) + faults.crash = 0
    BY <1>2, <1>7
  <2>. QED
    BY <2>1, <1>1, <1>6
<1>. QED
  BY <1>2, <1>3, <1>5, <1>7

(* The work of the retry worker leaves the process alive.                    *)
LEMMA WorkFaults ==
  ASSUME TypeRest, Work
  PROVE  \E pg, ack, redis \in Nat : Paid(pg, ack, redis)
<1>1. ASSUME NEW entry \in failed, retry_event(entry)
      PROVE  \E pg, ack, redis \in Nat : Paid(pg, ack, redis)
  <2>1. PICK ok \in BOOLEAN : \E ack \in Nat : Paid(IF ok THEN 0 ELSE 1, ack, 0)
    BY <1>1, RetryFacts DEF Retried
  <2>2. (IF ok THEN 0 ELSE 1) \in Nat /\ 0 \in Nat
    OBVIOUS
  <2>. QED
    BY <2>1, <2>2
<1>2. ASSUME RemoveEntry \/ Reschedule
      PROVE  \E pg, ack, redis \in Nat : Paid(pg, ack, redis)
  <2>1. PICK redis \in {0, 1} : Paid(0, 0, redis)
    BY <1>2, RemoveFacts, RescheduleFacts
  <2>2. redis \in Nat /\ 0 \in Nat
    BY <2>1
  <2>. QED
    BY <2>1, <2>2
<1>. QED
  BY <1>1, <1>2 DEF Work

LEMMA CrashFaults ==
  ASSUME TypeRest, Crash
  PROVE  /\ faults'.crash # 0 /\ faults'.pg + faults'.crash # 0
         /\ faults'.ack + faults'.redis + faults'.crash # 0
<1>1. faults \in [pg : Nat, ack : Nat, redis : Nat, crash : Nat]
  BY DEF TypeRest, Faults
<1>2. faults' = [faults EXCEPT !.crash = @ + 1]
  BY CrashFacts
<1>. QED
  BY <1>1, <1>2

(* The entries of a flow are of different events, none of which is stored    *)
(* or queued.                                                                *)
LEMMA EntriesApart ==
  ASSUME TypeRest, Places, NEW E \in SUBSET tasks, NEW Q \in SUBSET E,
         NEW S \in SUBSET Entries(E), Takes(E, S, Q), Publishes(E)
  PROVE  /\ \A x, y \in Entries(E) : x.event = y.event => x = y
         /\ \A x \in Entries(E) : ~Queued(x.event) /\ x.event \notin Stored
<1>1. /\ \A x \in Entries(E) : x \in buffer \/ x.event \in E
      /\ \A x, y \in Entries(E) : x \notin buffer /\ y \notin buffer => x = y
  BY EntryFacts, FlowQueued, FlowFacts
<1>2. ASSUME NEW x \in Entries(E), NEW y \in Entries(E), x.event = y.event
      PROVE  x = y
  <2>1. CASE x \in buffer /\ y \in buffer
    BY <2>1, <1>2 DEF Places
  <2>2. CASE x \in buffer /\ y \notin buffer
    BY <2>2, <1>1, <1>2 DEF Places, Buffered
  <2>3. CASE x \notin buffer /\ y \in buffer
    BY <2>3, <1>1, <1>2 DEF Places, Buffered
  <2>4. CASE x \notin buffer /\ y \notin buffer
    BY <2>4, <1>1
  <2>. QED
    BY <2>1, <2>2, <2>3, <2>4
<1>3. \A x \in Entries(E) : ~Queued(x.event) /\ x.event \notin Stored
  BY <1>1 DEF Places
<1>. QED
  BY <1>2, <1>3

LEMMA OneRowFlow ==
  ASSUME Inv, OneRow, Flow
  PROVE  OneRow'
<1>1. PICK E \in SUBSET tasks :
        \E Q \in SUBSET E, S \in SUBSET Entries(E), pg, ack, redis \in Nat :
          Takes(E, S, Q) /\ Publishes(E) /\ Pays(E, S, Q, pg, ack, redis)
  BY DEF Flow
<1>2. PICK Q \in SUBSET E, S \in SUBSET Entries(E), pg \in Nat, ack \in Nat, redis \in Nat :
        Takes(E, S, Q) /\ Publishes(E) /\ Pays(E, S, Q, pg, ack, redis)
  BY <1>1
<1>3. TypeRest /\ Places
  BY DEF Inv
<1>. SUFFICES ASSUME faults'.ack + faults'.redis + faults'.crash = 0
              PROVE  /\ \A q, r \in rows' : q.event = r.event => q = r
                     /\ \A x \in failed' : x.event \notin Stored'
                     /\ worker'.at = "idle"
  BY DEF OneRow, StoredOnce
<1>4. faults.ack + faults.redis + faults.crash = 0 /\ faults'.ack = faults.ack
  BY <1>2, <1>3, FaultsGrow DEF Pays
<1>5. worker.at = "idle" /\ worker'.at = "idle"
  BY <1>2 DEF Takes, Idle
<1>6. /\ \A q, r \in rows : q.event = r.event => q = r
      /\ \A x \in failed : x.event \notin Stored
  BY <1>4, <1>5 DEF OneRow, StoredOnce
<1>7. /\ \A x, y \in Entries(E) : x.event = y.event => x = y
      /\ \A x \in Entries(E) : ~Queued(x.event) /\ x.event \notin Stored
  BY <1>2, <1>3, EntriesApart
<1>8. /\ Stored' = Stored \cup {x.event : x \in S}
      /\ \A r \in rows' \ rows : \E x \in S : x.event = r.event /\ x.sequence = r.sequence
      /\ \A q, r \in rows' \ rows : q.event = r.event /\ q.sequence = r.sequence => q = r
  <2>1. E \in SUBSET tasks /\ Q \in SUBSET E /\ S \in SUBSET Entries(E)
    BY <1>1, <1>2
  <2>2. Takes(E, S, Q) /\ Publishes(E)
    BY <1>2
  <2>. QED
    BY <2>1, <2>2, <1>3, <1>4, FlowRows
<1>9. ASSUME NEW q \in rows', NEW r \in rows', q.event = r.event
      PROVE  q = r
  <2>1. CASE q \in rows /\ r \in rows
    BY <2>1, <1>6, <1>9
  <2>2. \A z \in rows : z.event \in Stored
    BY DEF Stored
  <2>3. \A z \in rows' \ rows : z.event \notin Stored
    BY <1>7, <1>8
  <2>4. CASE q \notin rows /\ r \notin rows
    <3>1. PICK x \in S : x.event = q.event /\ x.sequence = q.sequence
      BY <1>8, <2>4
    <3>2. PICK y \in S : y.event = r.event /\ y.sequence = r.sequence
      BY <1>8, <2>4
    <3>3. x = y
      BY <1>7, <1>9, <3>1, <3>2
    <3>. QED
      BY <1>8, <1>9, <2>4, <3>1, <3>2, <3>3
  <2>. QED
    BY <2>1, <2>2, <2>3, <2>4, <1>9
<1>10. ASSUME NEW x \in failed'
       PROVE  x.event \notin Stored'
  <2>1. failed' = failed \cup {[event |-> e, retry_count |-> 0] : e \in Q}
    BY <1>2 DEF Takes
  <2>2. CASE x \in failed
    <3>1. Queued(x.event)
      BY <2>2 DEF Queued
    <3>2. x.event \notin Stored
      BY <2>2, <1>6
    <3>. QED
      BY <3>1, <3>2, <1>7, <1>8
  <2>3. CASE x \notin failed
    <3>1. x.event \in Q
      BY <2>1, <2>3
    <3>2. S \subseteq buffer
      BY <1>2, <1>4, <3>1 DEF Takes
    <3>3. ~Buffered(x.event) /\ x.event \notin Stored
      BY <1>3, <3>1 DEF Places
    <3>. QED
      BY <3>2, <3>3, <1>8 DEF Buffered
  <2>. QED
    BY <2>2, <2>3
<1>. QED
  BY <1>5, <1>9, <1>10

LEMMA OneRowWork ==
  ASSUME Inv, OneRow, Work
  PROVE  OneRow'
<1>1. TypeRest /\ Places
  BY DEF Inv
<1>. SUFFICES ASSUME faults'.ack + faults'.redis + faults'.crash = 0
              PROVE  /\ StoredOnce'
                     /\ \A x \in failed' : x.event \in Stored' =>
                          worker'.at = "remove" /\ worker'.entry = x /\ worker'.success
                     /\ worker'.at = "reschedule" => worker'.entry.event \notin Stored'
  BY DEF OneRow
<1>2. faults.ack + faults.redis + faults.crash = 0 /\ faults'.ack = faults.ack
  BY <1>1, WorkFaults, FaultsGrow
<1>3. /\ \A q, r \in rows : q.event = r.event => q = r
      /\ \A x \in failed : x.event \in Stored =>
           worker.at = "remove" /\ worker.entry = x /\ worker.success
      /\ worker.at = "reschedule" => worker.entry.event \notin Stored
  BY <1>2 DEF OneRow, StoredOnce
<1>4. ASSUME NEW entry \in failed, retry_event(entry)
      PROVE  /\ \A q, r \in rows' : q.event = r.event => q = r
             /\ \A x \in failed' : x.event \in Stored' =>
                  worker'.at = "remove" /\ worker'.entry = x /\ worker'.success
             /\ worker'.at = "remove"
  <2>1. /\ worker = Idle /\ failed' = failed
        /\ worker'.at = "remove" /\ worker'.entry = entry /\ worker'.success \in BOOLEAN
    <3>1. PICK ok \in BOOLEAN :
            /\ worker = Idle /\ worker' = [at |-> "remove", entry |-> entry, success |-> ok]
            /\ failed' = failed
      BY <1>1, <1>4, RetryFacts DEF Retried
    <3>. QED
      BY <3>1
  <2>2. \A x \in failed : x.event \notin Stored
    BY <1>3, <2>1 DEF Idle
  <2>3. /\ Stored' \subseteq Stored \cup {entry.event}
        /\ ~worker'.success => rows' = rows
        /\ \A r \in rows' \ rows : r.event = entry.event
        /\ \A q, r \in rows' \ rows : q = r
    BY <1>1, <1>2, <1>4, RetryStored
  <2>4. \A r \in rows : r.event \in Stored
    BY DEF Stored
  <2>5. \A q, r \in rows' : q.event = r.event => q = r
    BY <1>3, <2>2, <2>3, <2>4
  <2>6. ~worker'.success => Stored' = Stored
    BY <2>3 DEF Stored
  <2>7. \A x \in failed : x.event = entry.event => x = entry
    BY <1>1 DEF Places
  <2>8. \A x \in failed' : x.event \in Stored' => x = entry /\ worker'.success
    BY <2>1, <2>2, <2>3, <2>6, <2>7
  <2>. QED
    BY <2>1, <2>5, <2>8
<1>5. ASSUME RemoveEntry
      PROVE  /\ rows' = rows
             /\ \A x \in failed' : x.event \notin Stored
             /\ worker'.at = "reschedule" => worker'.entry.event \notin Stored
  <2>1. PICK redis \in {0, 1} :
           /\ worker.at = "remove" /\ worker.entry \in failed
           /\ Paid(0, 0, redis)
           /\ rows' = rows
           /\ failed' = IF redis = 0 THEN failed \ {worker.entry} ELSE failed
           /\ IF redis = 0 /\ ~worker.success
               THEN worker' \in [at : {"reschedule"}, entry : {worker.entry}, success : {FALSE}]
               ELSE worker' = Idle
    BY <1>1, <1>5, RemoveFacts
  <2>2. redis = 0
    <3>1. redis \in Nat /\ 0 \in Nat
      BY <2>1
    <3>. QED
      BY <1>1, <2>1, <3>1, FaultsGrow
  <2>3. \A x \in failed' : x.event \notin Stored
    BY <1>3, <2>1, <2>2
  <2>4. CASE worker.success
    <3>1. worker' = Idle
      BY <2>1, <2>4
    <3>. QED
      BY <2>1, <2>3, <3>1 DEF Idle
  <2>5. CASE ~worker.success
    <3>1. worker'.entry = worker.entry
      BY <2>1, <2>2, <2>5
    <3>. QED
      BY <1>3, <2>1, <2>3, <2>5, <3>1
  <2>. QED
    BY <2>4, <2>5
<1>6. ASSUME Reschedule
      PROVE  /\ rows' = rows
             /\ \A x \in failed' : x.event \notin Stored
             /\ worker'.at = "idle"
  <2>1. PICK again \in [event : Ids, retry_count : Nat] :
           /\ worker.at = "reschedule" /\ worker' = Idle
           /\ again.event = worker.entry.event /\ rows' = rows
           /\ failed' \subseteq failed \cup {again}
    BY <1>1, <1>6, RescheduleFacts
  <2>. QED
    BY <1>3, <2>1 DEF Idle
<1>7. rows' = rows => Stored' = Stored
  BY DEF Stored
<1>. QED
  BY <1>3, <1>4, <1>5, <1>6, <1>7 DEF Work, StoredOnce

(* What a flow takes comes before everything that is still a task.           *)
LEMMA EntriesAhead ==
  ASSUME TypeRest, NEW E \in SUBSET tasks, NEW Q \in SUBSET E, NEW S \in SUBSET Entries(E),
         Takes(E, S, Q), Publishes(E)
  PROVE  /\ \A d \in E, e \in tasks' : d < e
         /\ \A d \in Ids : (\A e \in tasks : d < e) => \A e \in tasks' : d < e
         /\ \A x \in Entries(E) : x \in buffer \/ (x.event \in E /\ x.sequence = seq_counter + 1)
         /\ E \subseteq Ids /\ Ids \subseteq Nat
<1>1. /\ \A x \in Entries(E) : x \in buffer \/ (x.event \in E /\ x.sequence = seq_counter + 1)
      /\ \A e \in tasks' : e \in tasks \ E \/ e \in NewIds
      /\ \A e \in NewIds : e \notin Ids /\ \A d \in Ids : d < e
  BY EntryFacts, FlowQueued, FlowFacts
<1>2. E \subseteq Ids /\ tasks \subseteq Ids /\ Ids \subseteq Nat
  BY LenType DEF TypeRest
<1>3. ASSUME NEW d \in E, NEW e \in tasks'
      PROVE  d < e
  <2>1. CASE e \in NewIds
    BY <1>1, <1>2, <2>1
  <2>2. CASE e \in tasks \ E
    <3>1. d <= e /\ d # e
      BY <2>2 DEF Takes
    <3>. QED
      BY <1>2, <2>2, <3>1
  <2>. QED
    BY <1>1, <2>1, <2>2
<1>4. \A d \in Ids : (\A e \in tasks : d < e) => \A e \in tasks' : d < e
  BY <1>1
<1>. QED
  BY <1>1, <1>2, <1>3, <1>4

LEMMA InLineFlow ==
  ASSUME Inv, InLine, Flow
  PROVE  InLine'
<1>1. PICK E \in SUBSET tasks :
        \E Q \in SUBSET E, S \in SUBSET Entries(E), pg, ack, redis \in Nat :
          Takes(E, S, Q) /\ Publishes(E) /\ Pays(E, S, Q, pg, ack, redis)
  BY DEF Flow
<1>2. PICK Q \in SUBSET E, S \in SUBSET Entries(E), pg \in Nat, ack \in Nat, redis \in Nat :
        Takes(E, S, Q) /\ Publishes(E) /\ Pays(E, S, Q, pg, ack, redis)
  BY <1>1
<1>3. TypeRest /\ Places
  BY DEF Inv
<1>. SUFFICES ASSUME faults'.pg + faults'.crash = 0
              PROVE  /\ failed' = {} /\ worker' = Idle
                     /\ \A d \in Ids' : published'[d].reach = "all" =>
                          d \in tasks' \cup Stored' \/ Buffered(d)'
                     /\ \A x \in buffer', e \in tasks' : x.event < e
                     /\ \A d \in Stored' :
                          (\A e \in tasks' : d < e) /\ (\A x \in buffer' : d < x.event)
  BY DEF InLine
<1>4. pg = 0 /\ faults.pg + faults.crash = 0
  BY <1>2, <1>3, FaultsGrow DEF Pays
<1>5. /\ failed = {} /\ worker = Idle
      /\ \A d \in Ids : published[d].reach = "all" => d \in tasks \cup Stored \/ Buffered(d)
      /\ \A x \in buffer, e \in tasks : x.event < e
      /\ \A d \in Stored : (\A e \in tasks : d < e) /\ (\A x \in buffer : d < x.event)
  BY <1>4 DEF InLine
<1>6. Entries(E) \subseteq S \cup buffer'
  <2>1. IsFiniteSet(Dropped(E, S)) /\ Cardinality(Dropped(E, S)) <= 0
    BY <1>2, <1>4 DEF Pays
  <2>2. Cardinality(Dropped(E, S)) = 0
    BY <2>1, FS_CardinalityType
  <2>3. Dropped(E, S) = {}
    BY <2>1, <2>2, FS_EmptySet
  <2>. QED
    BY <2>3 DEF Dropped
<1>7. /\ \A d \in E, e \in tasks' : d < e
      /\ \A d \in Ids : (\A e \in tasks : d < e) => \A e \in tasks' : d < e
      /\ \A x \in Entries(E) : x \in buffer \/ (x.event \in E /\ x.sequence = seq_counter + 1)
      /\ E \subseteq Ids
  BY <1>2, <1>3, EntriesAhead
<1>8. Stored' = Stored \cup {x.event : x \in S}
  BY <1>2, <1>3, FlowRows
<1>9. \A e \in E : Entry(e) \in Entries(E) /\ Entry(e).event = e
  BY DEF Entries, Entry
<1>10. /\ buffer \subseteq Entries(E) /\ buffer' \subseteq Entries(E) /\ S \subseteq Entries(E)
       /\ S # {} => buffer' = {}
  BY <1>2 DEF Takes, Entries
<1>11. Q = {}
  BY <1>2, <1>4 DEF Pays
<1>12. failed' = {} /\ worker' = Idle
  BY <1>2, <1>5, <1>11 DEF Takes
<1>13. \A x \in Entries(E), e \in tasks' : x.event < e
  <2>1. \A x \in buffer : x.event \in Ids
    BY <1>3 DEF TypeRest
  <2>. QED
    BY <1>5, <1>7, <2>1
<1>14. ASSUME NEW d \in Ids', published'[d].reach = "all"
       PROVE  d \in tasks' \cup Stored' \/ Buffered(d)'
  <2>1. tasks' = (tasks \ E) \cup {i \in NewIds : published'[i].reach = "all"}
    BY <1>2 DEF Publishes
  <2>2. CASE d \in Ids
    <3>1. published[d].reach = "all"
      BY <1>2, <1>14, <2>2 DEF Publishes
    <3>2. d \in tasks \ E \/ d \in Stored \/ \E x \in Entries(E) : x.event = d
      BY <1>5, <1>9, <1>10, <2>2, <3>1 DEF Buffered
    <3>. QED
      BY <1>6, <1>8, <2>1, <3>2 DEF Buffered
  <2>3. CASE d \notin Ids
    <3>1. d \in NewIds
      <4>1. Len(published) \in Nat /\ Len(published') \in Nat
        BY <1>2, <1>3, LenType DEF Publishes
      <4>. QED
        BY <2>3, <4>1 DEF Ids, NewIds
    <3>. QED
      BY <1>14, <2>1, <3>1
  <2>. QED
    BY <2>2, <2>3
<1>15. ASSUME NEW d \in Stored'
       PROVE  (\A e \in tasks' : d < e) /\ (\A x \in buffer' : d < x.event)
  <2>1. CASE d \in Stored
    <3>1. d \in Ids
      BY <1>3, <2>1 DEF Stored, TypeRest
    <3>2. \A x \in Entries(E) : d < x.event
      BY <1>5, <1>7, <2>1
    <3>. QED
      BY <1>5, <1>7, <1>10, <2>1, <3>1, <3>2
  <2>2. CASE d \notin Stored
    <3>1. PICK x \in S : x.event = d
      BY <1>8, <2>2
    <3>. QED
      BY <1>10, <1>13, <3>1
  <2>. QED
    BY <2>1, <2>2
<1>. QED
  BY <1>10, <1>12, <1>13, <1>14, <1>15

(* As long as nothing fails the retry worker has nothing to do.              *)
LEMMA InLineWork ==
  ASSUME Inv, InLine, Work
  PROVE  InLine'
<1>1. TypeRest
  BY DEF Inv
<1>2. SUFFICES ASSUME faults'.pg + faults'.crash = 0 PROVE FALSE
  BY DEF InLine
<1>3. faults.pg + faults.crash = 0
  BY <1>1, <1>2, WorkFaults, FaultsGrow
<1>4. failed = {} /\ worker.at = "idle"
  BY <1>3 DEF InLine, Idle
<1>. QED
  BY <1>4 DEF Work, RemoveEntry, Reschedule

LEMMA NumberedFlow ==
  ASSUME Inv, Numbered, Flow
  PROVE  Numbered'
<1>1. PICK E \in SUBSET tasks :
        \E Q \in SUBSET E, S \in SUBSET Entries(E), pg, ack, redis \in Nat :
          Takes(E, S, Q) /\ Publishes(E) /\ Pays(E, S, Q, pg, ack, redis)
  BY DEF Flow
<1>2. PICK Q \in SUBSET E, S \in SUBSET Entries(E), pg \in Nat, ack \in Nat, redis \in Nat :
        Takes(E, S, Q) /\ Publishes(E) /\ Pays(E, S, Q, pg, ack, redis)
  BY <1>1
<1>3. TypeRest
  BY DEF Inv
<1> DEFINE SameOrder(x, y) == x.sequence < y.sequence <=> x.event < y.event
           Ahead(x) == x.sequence <= seq_counter' /\ \A e \in tasks' : x.event < e
<1>. SUFFICES ASSUME faults'.crash = 0
              PROVE  /\ \A q, r \in Batched' : SameOrder(q, r)
                     /\ \A x, y \in buffer' : SameOrder(x, y)
                     /\ \A r \in Batched', x \in buffer' : r.sequence < x.sequence /\ r.event < x.event
                     /\ \A r \in Batched' : Ahead(r)
                     /\ \A x \in buffer' : Ahead(x)
  BY DEF Numbered
<1>4. faults.crash = 0
  BY <1>2, <1>3, FaultsGrow DEF Pays
<1>5. /\ \A q, r \in Batched : SameOrder(q, r)
      /\ \A x, y \in buffer : SameOrder(x, y)
      /\ \A r \in Batched, x \in buffer : r.sequence < x.sequence /\ r.event < x.event
      /\ \A r \in Batched : r.sequence <= seq_counter /\ \A e \in tasks : r.event < e
      /\ \A x \in buffer : x.sequence <= seq_counter /\ \A e \in tasks : x.event < e
  BY <1>4 DEF Numbered
<1>6. /\ \A d \in E, e \in tasks' : d < e
      /\ \A d \in Ids : (\A e \in tasks : d < e) => \A e \in tasks' : d < e
      /\ \A x \in Entries(E) : x \in buffer \/ (x.event \in E /\ x.sequence = seq_counter + 1)
      /\ E \subseteq Ids /\ Ids \subseteq Nat
  BY <1>2, <1>3, EntriesAhead
<1>7. /\ \A r \in Batched : r.sequence \in Nat /\ r.event \in Ids
      /\ \A x \in buffer : x.sequence \in Nat /\ x.event \in Ids
      /\ seq_counter \in Nat
      /\ E \subseteq tasks
  BY <1>3 DEF TypeRest, Batched
<1>a. \A x \in Entries(E) : x \in buffer \/ (x.event \in E /\ x.sequence = seq_counter + 1)
  BY <1>6
<1>b. Ids \subseteq Nat
  BY <1>6
<1>8. \A x \in Entries(E) : x.sequence \in Nat /\ x.event \in Ids
  <2>1. Entries(E) \subseteq [event : Ids, sequence : Nat]
    BY <1>2, <1>3, EntriesType DEF Takes
  <2>. QED
    BY <2>1
<1>9. seq_counter' = (IF E = {} THEN seq_counter ELSE seq_counter + 1)
  BY <1>2 DEF Takes
<1>c. seq_counter <= seq_counter' /\ \A e \in E : seq_counter + 1 <= seq_counter'
  BY <1>7, <1>9
<1>10. ASSUME NEW x \in Entries(E)
       PROVE  Ahead(x)
  <2>1. CASE x \in buffer
    <3>1. x.sequence <= seq_counter /\ x.event \in Ids /\ \A e \in tasks : x.event < e
      BY <1>5, <1>7, <2>1
    <3>2. \A e \in tasks' : x.event < e
      BY <1>6, <3>1
    <3>. QED
      BY <1>7, <1>8, <1>9, <3>1, <3>2
  <2>2. CASE x \notin buffer
    <3>1. x.event \in E /\ x.sequence = seq_counter + 1
      BY <1>a, <2>2
    <3>2. \A e \in tasks' : x.event < e
      BY <1>6, <3>1
    <3>. QED
      BY <1>c, <3>1, <3>2
  <2>. QED
    BY <2>1, <2>2
<1>11. ASSUME NEW r \in Batched
       PROVE  Ahead(r)
  <2>1. r.sequence <= seq_counter /\ r.event \in Ids /\ \A e \in tasks : r.event < e
    BY <1>5, <1>7
  <2>2. \A e \in tasks' : r.event < e
    BY <1>6, <2>1
  <2>. QED
    BY <1>7, <1>9, <2>1, <2>2
<1>12. ASSUME NEW r \in Batched, NEW x \in Entries(E)
       PROVE  r.sequence < x.sequence /\ r.event < x.event
  <2>1. CASE x \in buffer
    BY <1>5, <2>1
  <2>2. CASE x \notin buffer
    <3>1. x.event \in tasks /\ x.sequence = seq_counter + 1
      BY <1>a, <1>7, <2>2
    <3>2. r.sequence <= seq_counter /\ r.event < x.event
      BY <1>5, <3>1
    <3>. QED
      BY <1>7, <3>1, <3>2
  <2>. QED
    BY <2>1, <2>2
<1>13. \A x, y \in Entries(E) : SameOrder(x, y)
  <2> SUFFICES ASSUME NEW x \in Entries(E), NEW y \in Entries(E)
               PROVE  SameOrder(x, y)
    OBVIOUS
  <2>1. CASE x \in buffer /\ y \in buffer
    BY <2>1, <1>5
  <2>2. ASSUME NEW z \in buffer, NEW w \in Entries(E), w \notin buffer
        PROVE  z.sequence < w.sequence /\ z.event < w.event
    <3>1. w.event \in tasks /\ w.sequence = seq_counter + 1
      BY <1>a, <1>7, <2>2
    <3>2. z.sequence <= seq_counter /\ z.event < w.event
      BY <1>5, <3>1
    <3>. QED
      BY <1>7, <3>1, <3>2
  <2>3. CASE x \in buffer /\ y \notin buffer
    BY <2>2, <2>3
  <2>4. CASE x \notin buffer /\ y \in buffer
    <3>1. y.sequence < x.sequence /\ y.event < x.event
      BY <2>2, <2>4
    <3>2. /\ x.sequence \in Nat /\ y.sequence \in Nat
          /\ x.event \in Nat /\ y.event \in Nat
      BY <1>8, <1>b
    <3>. QED
      BY <3>1, <3>2
  <2>5. CASE x \notin buffer /\ y \notin buffer
    <3>1. x.event = y.event /\ x.sequence = y.sequence
      <4>1. \A d, e \in E : d = e
        BY <1>2 DEF Takes
      <4>. QED
        BY <1>6, <2>5, <4>1
    <3>2. x.sequence \in Nat /\ x.event \in Nat
      BY <1>8, <1>b
    <3>. QED
      BY <3>1, <3>2
  <2>. QED
    BY <2>1, <2>3, <2>4, <2>5
<1>14. \A r \in Batched' : r \in Batched
          \/ \E x \in S : x.event = r.event /\ x.sequence = r.sequence
  <2>1. \A r \in rows' \ rows : \E x \in S : x.event = r.event /\ x.sequence = r.sequence
    BY <1>2, <1>3, FlowRows
  <2>. QED
    BY <2>1 DEF Batched
<1>15. /\ S \subseteq Entries(E) /\ buffer' \subseteq Entries(E)
       /\ S # {} => buffer' = {}
  BY <1>2 DEF Takes
<1>16. \A r \in Batched' : Ahead(r)
  <2> SUFFICES ASSUME NEW r \in Batched' PROVE Ahead(r)
    OBVIOUS
  <2>1. CASE r \in Batched
    BY <2>1, <1>11
  <2>2. ASSUME NEW x \in S, x.event = r.event, x.sequence = r.sequence
        PROVE  Ahead(r)
    BY <2>2, <1>10, <1>15
  <2>. QED
    BY <2>1, <2>2, <1>14
<1>17. \A r \in Batched', x \in buffer' : r.sequence < x.sequence /\ r.event < x.event
  BY <1>12, <1>14, <1>15
<1>18. ASSUME NEW q \in Batched', NEW r \in Batched'
       PROVE  SameOrder(q, r)
  <2>1. CASE q \in Batched /\ r \in Batched
    BY <2>1, <1>5
  <2>2. ASSUME q \in Batched, NEW y \in S, y.event = r.event, y.sequence = r.sequence
        PROVE  SameOrder(q, r)
    <3>1. q.sequence < y.sequence /\ q.event < y.event
      BY <2>2, <1>12, <1>15
    <3>. QED
      BY <2>2, <3>1
  <2>3. ASSUME r \in Batched, NEW x \in S, x.event = q.event, x.sequence = q.sequence
        PROVE  SameOrder(q, r)
    <3>1. /\ r.sequence < x.sequence /\ r.event < x.event
          /\ r.sequence \in Nat /\ x.sequence \in Nat /\ r.event \in Nat /\ x.event \in Nat
      BY <2>3, <1>6, <1>7, <1>8, <1>12, <1>15
    <3>. QED
      BY <2>3, <3>1
  <2>4. ASSUME NEW x \in S, x.event = q.event, x.sequence = q.sequence,
               NEW y \in S, y.event = r.event, y.sequence = r.sequence
        PROVE  SameOrder(q, r)
    <3>1. SameOrder(x, y)
      BY <1>13, <1>15
    <3>. QED
      BY <2>4, <3>1
  <2>. QED
    BY <2>1, <2>2, <2>3, <2>4, <1>14
<1>. QED
  BY <1>10, <1>13, <1>15, <1>16, <1>17, <1>18

(* The retry worker numbers nothing and writes no row of the batcher.        *)
LEMMA NumberedWork ==
  ASSUME Inv, Numbered, Work
  PROVE  Numbered'
<1>1. TypeRest
  BY DEF Inv
<1>2. faults'.crash = 0 => faults.crash = 0
  BY <1>1, WorkFaults, FaultsGrow
<1>3. UNCHANGED <<tasks, buffer, seq_counter>>
  BY DEF Work, retry_event, RemoveEntry, Reschedule, memory
<1>4. Batched' = Batched
  <2>1. ASSUME NEW entry \in failed, retry_event(entry)
        PROVE  rows \subseteq rows' /\ \A r \in rows' \ rows : r.by = "worker"
    BY <1>1, <2>1, RetryStored
  <2>2. ASSUME RemoveEntry \/ Reschedule
        PROVE  rows' = rows
    BY <2>2 DEF RemoveEntry, Reschedule
  <2>. QED
    BY <2>1, <2>2 DEF Work, Batched
<1>. QED
  BY <1>2, <1>3, <1>4 DEF Numbered

(* The three parts together are inductive.                                   *)
Rows == OneRow /\ InLine /\ Numbered

LEMMA RowsInit == Init => Rows
<1> SUFFICES ASSUME Init PROVE Rows
  OBVIOUS
<1>1. rows = {} /\ failed = {} /\ tasks = {} /\ buffer = {} /\ Ids = {} /\ worker = Idle
      /\ worker.at = "idle" /\ Stored = {} /\ Batched = {}
  BY DEF Init, Idle, Ids, Stored, Batched
<1>. QED
  BY <1>1 DEF Rows, OneRow, StoredOnce, InLine, Numbered

LEMMA RowsNext == Inv /\ Rows /\ [Next]_vars => Rows'
<1> SUFFICES ASSUME Inv, Rows, [Next]_vars PROVE Rows'
  OBVIOUS
<1>1. TypeRest /\ OneRow /\ InLine /\ Numbered
  BY DEF Inv, Rows
<1>2. CASE Flow
  BY <1>1, <1>2, OneRowFlow, InLineFlow, NumberedFlow DEF Rows
<1>3. CASE Work
  BY <1>1, <1>3, OneRowWork, InLineWork, NumberedWork DEF Rows
<1>4. CASE Crash
  BY <1>1, <1>4, CrashFaults DEF Rows, OneRow, InLine, Numbered
<1>5. CASE UNCHANGED vars
  BY <1>1, <1>5 DEF vars, Rows, OneRow, StoredOnce, InLine, Numbered, Batched, Stored, Ids, Buffered
<1>. QED
  BY <1>1, <1>2, <1>3, <1>4, <1>5, Steps

LEMMA RowsAlways == Spec => []Rows
BY RowsInit, RowsNext, InvAlways, PTL DEF Spec

(* As long as every commit is acknowledged, Redis answers and the process    *)
(* lives, there is one row for each event, whatever PostgreSQL refuses.      *)
THEOREM NoDuplicateRows == Spec => []StoredOnce
<1>1. Rows => StoredOnce
  BY DEF Rows, OneRow, StoredOnce
<1>. QED
  BY <1>1, RowsAlways, PTL

LEMMA LinedUp ==
  ASSUME Inv, Rows
  PROVE  NoOvertaking
<1> SUFFICES ASSUME faults.pg + faults.crash = 0,
                    NEW e \in Stored, NEW d \in Ids, d < e, published[d].reach = "all"
             PROVE  d \in Stored
  BY DEF NoOvertaking
<1>1. /\ d \in tasks \cup Stored \/ Buffered(d)
      /\ (\A t \in tasks : e < t) /\ (\A x \in buffer : e < x.event)
  BY DEF Rows, InLine
<1>2. d \in Nat /\ e \in Nat
  BY LenType DEF Inv, Stored, TypeRest
<1>. QED
  BY <1>1, <1>2 DEF Buffered

(* Without an error of PostgreSQL or a crash a poller reads a prefix of what *)
(* was published.                                                            *)
THEOREM PollersReadAPrefix == Spec => []NoOvertaking
BY LinedUp, InvAlways, RowsAlways, PTL

(* Without a crash the rows of the batcher are numbered as the events were   *)
(* published: get_events replays a meeting in order.                         *)
THEOREM ReplayIsInOrder == Spec => []ReplayInOrder
<1>1. Rows => ReplayInOrder
  BY DEF Rows, Numbered, Batched, ReplayInOrder
<1>. QED
  BY <1>1, RowsAlways, PTL
----------------------------------------------------------------------------
(* What is lost has been paid for.                                           *)

LEMMA EventsOf ==
  ASSUME NEW S, IsFiniteSet(S), NEW T, \A t \in T : \E x \in S : x.event = t
  PROVE  IsFiniteSet(T) /\ Cardinality(T) <= Cardinality(S)
<1> DEFINE U == {x \in S : x.event \in T}
           f == [x \in U |-> x.event]
<1>1. IsFiniteSet(U) /\ Cardinality(U) <= Cardinality(S)
  BY FS_Subset
<1>2. f \in Surjection(U, T)
  BY DEF Surjection
<1>3. IsFiniteSet(T) /\ Cardinality(T) <= Cardinality(U)
  BY <1>1, <1>2, FS_Surjection
<1>4. Cardinality(S) \in Nat /\ Cardinality(U) \in Nat /\ Cardinality(T) \in Nat
  BY <1>1, <1>3, FS_CardinalityType
<1>. QED
  BY <1>1, <1>3, <1>4

(* A set that grows by at most the elements of another.                      *)
LEMMA Growth ==
  ASSUME NEW S, NEW T, NEW U, IsFiniteSet(S), IsFiniteSet(T), U \subseteq S \cup T
  PROVE  /\ IsFiniteSet(U) /\ Cardinality(U) \in Nat
         /\ Cardinality(S) \in Nat /\ Cardinality(T) \in Nat
         /\ Cardinality(U) <= Cardinality(S) + Cardinality(T)
<1>1. /\ IsFiniteSet(S \cup T)
      /\ Cardinality(S \cup T) = Cardinality(S) + Cardinality(T) - Cardinality(S \cap T)
  BY FS_Union
<1>2. IsFiniteSet(U) /\ Cardinality(U) <= Cardinality(S \cup T) /\ IsFiniteSet(S \cap T)
  BY <1>1, FS_Subset
<1>3. /\ Cardinality(S) \in Nat /\ Cardinality(T) \in Nat /\ Cardinality(U) \in Nat
      /\ Cardinality(S \cap T) \in Nat
  BY <1>2, FS_CardinalityType
<1>. QED
  BY <1>1, <1>2, <1>3

CriticalIn(S) == {e \in S : Critical(e)}

(* A step that loses no more than it pays for.                               *)
LEMMA LossStep ==
  ASSUME Inv, LossesPaidFor, NEW New, IsFiniteSet(New), NEW pg \in Nat, NEW ack \in Nat, NEW redis \in Nat,
         Paid(pg, ack, redis),
         Lost' \subseteq Lost \cup New,
         \A e \in Lost : Critical(e)' <=> Critical(e),
         Cardinality(New) <= pg + redis,
         Cardinality({e \in New : Critical(e)'}) <= redis
  PROVE  LossesPaidFor'
<1>1. TypeRest
  BY DEF Inv
<1>2. /\ faults'.pg = faults.pg + pg /\ faults'.redis = faults.redis + redis
      /\ faults'.crash = faults.crash
  BY <1>1, HarmPaid
<1>3. faults.pg \in Nat /\ faults.redis \in Nat /\ faults.crash \in Nat
  BY <1>1, HarmType
<1>. SUFFICES ASSUME faults'.crash = 0
              PROVE  /\ Cardinality({e \in Lost' : Critical(e)'}) <= faults'.redis
                     /\ Cardinality(Lost') <= faults'.redis + faults'.pg
  BY DEF LossesPaidFor
<1>4. /\ Cardinality(CriticalIn(Lost)) <= faults.redis
      /\ Cardinality(Lost) <= faults.redis + faults.pg
  BY <1>2 DEF LossesPaidFor, CriticalIn
<1>5. IsFiniteSet(Lost) /\ IsFiniteSet(CriticalIn(Lost))
  <2>1. IsFiniteSet(Ids)
    <3>1. Len(published) \in Int /\ 1 \in Int
      BY <1>1, LenType
    <3>. QED
      BY <3>1, FS_Interval DEF Ids
  <2>2. Lost \subseteq Ids /\ CriticalIn(Lost) \subseteq Ids
    BY DEF Lost, CriticalIn
  <2>. QED
    BY <2>1, <2>2, FS_Subset
<1> DEFINE C == {e \in New : Critical(e)'}
           L == {e \in Lost' : Critical(e)'}
<1>6. IsFiniteSet(C)
  BY FS_Subset
<1>7. L \subseteq CriticalIn(Lost) \cup C
  BY DEF CriticalIn
<1>. HIDE DEF C, L
<1>8. /\ Cardinality(L) \in Nat /\ Cardinality(CriticalIn(Lost)) \in Nat /\ Cardinality(C) \in Nat
      /\ Cardinality(L) <= Cardinality(CriticalIn(Lost)) + Cardinality(C)
  BY <1>5, <1>6, <1>7, Growth
<1>9. /\ Cardinality(Lost') \in Nat /\ Cardinality(Lost) \in Nat /\ Cardinality(New) \in Nat
      /\ Cardinality(Lost') <= Cardinality(Lost) + Cardinality(New)
  BY <1>5, Growth
<1>10. Cardinality(C) <= redis
  BY DEF C
<1>11. Cardinality(L) <= faults'.redis
  BY <1>2, <1>3, <1>4, <1>8, <1>10
<1>12. Cardinality(Lost') <= faults'.redis + faults'.pg
  BY <1>2, <1>3, <1>4, <1>9
<1>. QED
  BY <1>11, <1>12 DEF L

LEMMA LossFlow ==
  ASSUME Inv, LossesPaidFor, Flow
  PROVE  LossesPaidFor'
<1>1. PICK E \in SUBSET tasks :
        \E Q \in SUBSET E, S \in SUBSET Entries(E), pg, ack, redis \in Nat :
          Takes(E, S, Q) /\ Publishes(E) /\ Pays(E, S, Q, pg, ack, redis)
  BY DEF Flow
<1>2. PICK Q \in SUBSET E, S \in SUBSET Entries(E), pg \in Nat, ack \in Nat, redis \in Nat :
        Takes(E, S, Q) /\ Publishes(E) /\ Pays(E, S, Q, pg, ack, redis)
  BY <1>1
<1>3. TypeRest /\ Normal
  BY DEF Inv
<1>4. /\ Stored \subseteq Stored' /\ dlq' = dlq
      /\ \A e \in Ids : Pending(e) /\ ~Pending(e)' /\ e \notin Stored' =>
           e \notin Q /\ \E x \in Dropped(E, S) : x.event = e
      /\ \A e \in Ids' : e \notin Ids /\ ~Pending(e)' => e \in Unheard
  <2>1. E \in SUBSET tasks /\ Q \in SUBSET E /\ S \in SUBSET Entries(E)
    BY <1>1, <1>2
  <2>2. Takes(E, S, Q) /\ Publishes(E)
    BY <1>2
  <2> HIDE <1>1, <1>2
  <2>. QED
    BY <2>1, <2>2, FlowPending
<1> DEFINE D == {e \in Ids : e \notin Q /\ \E x \in Dropped(E, S) : x.event = e}
<1>5. Lost' \subseteq Lost \cup (D \cup Unheard)
  BY <1>4 DEF Lost
<1>6. \A e \in Ids : Critical(e)' <=> Critical(e)
  BY <1>2 DEF Publishes, Critical
<1>7. IsFiniteSet(D) /\ Cardinality(D) <= pg
  <2>1. IsFiniteSet(Dropped(E, S)) /\ Cardinality(Dropped(E, S)) <= pg
    BY <1>2 DEF Pays
  <2>2. IsFiniteSet(D) /\ Cardinality(D) <= Cardinality(Dropped(E, S))
    <3>1. \A t \in D : \E x \in Dropped(E, S) : x.event = t
      OBVIOUS
    <3>. HIDE DEF D
    <3>. QED
      BY <2>1, <3>1, EventsOf
  <2>3. Cardinality(D) \in Nat /\ Cardinality(Dropped(E, S)) \in Nat
    BY <2>1, <2>2, FS_CardinalityType
  <2>. QED
    BY <2>1, <2>2, <2>3
<1>8. IsFiniteSet(Unheard) /\ Cardinality(Unheard) <= redis
  BY <1>2 DEF Pays
<1>9. \A e \in D : Critical(e) => e \in E /\ redis > 0
  <2> SUFFICES ASSUME NEW e \in D, Critical(e) PROVE e \in E /\ redis > 0
    OBVIOUS
  <2>1. PICK x \in Dropped(E, S) : x.event = e
    OBVIOUS
  <2>2. x \notin buffer
    BY <1>3, <2>1 DEF Normal
  <2>3. e \in E
    BY <2>1, <2>2 DEF Dropped, Entries, Entry
  <2>. QED
    BY <1>2, <2>1, <2>2, <2>3 DEF Pays
<1>10. E # {} => Unheard = {}
  <2>1. E # {} => Len(published') = Len(published)
    BY <1>2 DEF Publishes
  <2>2. Len(published) \in Nat
    BY <1>3, LenType
  <2>. QED
    BY <2>1, <2>2 DEF Unheard, NewIds
<1> DEFINE C == {e \in D \cup Unheard : Critical(e)'}
<1>11. Cardinality(C) <= redis
  <2>1. CASE E = {}
    <3>1. C \subseteq Unheard
      BY <1>6, <1>9, <2>1
    <3>2. IsFiniteSet(C) /\ Cardinality(C) <= Cardinality(Unheard)
      BY <1>8, <3>1, FS_Subset
    <3>3. Cardinality(C) \in Nat /\ Cardinality(Unheard) \in Nat
      BY <1>8, <3>2, FS_CardinalityType
    <3>. QED
      BY <1>8, <3>2, <3>3
  <2>2. CASE E # {}
    <3>1. PICK d \in E : E = {d}
      BY <1>2, <2>2 DEF Takes
    <3>2. C \subseteq {d}
      BY <1>6, <1>9, <1>10, <2>2, <3>1
    <3>3. CASE C = {}
      BY <3>3, FS_EmptySet
    <3>4. CASE C = {d}
      <4>1. redis > 0
        BY <1>6, <1>9, <1>10, <2>2, <3>4
      <4>2. Cardinality(C) = 1
        BY <3>4, FS_Singleton
      <4>. QED
        BY <4>1, <4>2
    <3>. QED
      BY <3>2, <3>3, <3>4
  <2>. QED
    BY <2>1, <2>2
<1>12. IsFiniteSet(D \cup Unheard) /\ Cardinality(D \cup Unheard) <= pg + redis
  <2>. HIDE DEF D
  <2>1. /\ IsFiniteSet(D \cup Unheard) /\ Cardinality(D \cup Unheard) \in Nat
        /\ Cardinality(D) \in Nat /\ Cardinality(Unheard) \in Nat
        /\ Cardinality(D \cup Unheard) <= Cardinality(D) + Cardinality(Unheard)
    BY <1>7, <1>8, Growth
  <2>. QED
    BY <1>7, <1>8, <2>1
<1>13. \A e \in Lost : Critical(e)' <=> Critical(e)
  BY <1>6 DEF Lost
<1>14. Paid(pg, ack, redis)
  BY <1>2 DEF Pays
<1> HIDE DEF D
<1>. QED
  BY <1>5, <1>11, <1>12, <1>13, <1>14, LossStep

LEMMA LossWork ==
  ASSUME Inv, LossesPaidFor, Work
  PROVE  LossesPaidFor'
<1>1. TypeRest /\ Places
  BY DEF Inv
<1>2. published' = published
  BY DEF Work, retry_event, RemoveEntry, Reschedule
<1>3. /\ Ids' = Ids
      /\ \A e \in Lost : Critical(e)' <=> Critical(e)
  BY <1>2 DEF Ids, Critical
<1>a. IsFiniteSet({}) /\ Cardinality({}) = 0 /\ {e \in {} : Critical(e)'} = {}
  BY FS_EmptySet
<1>4. ASSUME NEW entry \in failed, retry_event(entry)
      PROVE  LossesPaidFor'
  <2>1. PICK ok \in BOOLEAN :
          /\ worker = Idle /\ worker' = [at |-> "remove", entry |-> entry, success |-> ok]
          /\ UNCHANGED <<tasks, buffer, failed, dlq>>
          /\ \E ack \in Nat : Paid(IF ok THEN 0 ELSE 1, ack, 0)
    BY <1>1, <1>4, RetryFacts DEF Retried
  <2>2. Stored \subseteq Stored'
    BY <1>1, <1>4, RetryStored
  <2>3. worker.at = "idle" /\ worker'.at = "remove"
    BY <2>1 DEF Idle
  <2>4. \A d : Pending(d)' <=> Pending(d)
    BY <2>1, <2>3 DEF Pending, Buffered, Queued
  <2>5. Lost' \subseteq Lost \cup {}
    BY <1>3, <2>1, <2>2, <2>4 DEF Lost
  <2>6. PICK pg \in Nat, ack \in Nat : Paid(pg, ack, 0)
    <3>1. (IF ok THEN 0 ELSE 1) \in Nat
      OBVIOUS
    <3>. QED
      BY <2>1, <3>1
  <2>7. 0 \in Nat /\ 0 <= pg + 0 /\ 0 <= 0
    OBVIOUS
  <2>. QED
    BY <1>3, <1>a, <2>5, <2>6, <2>7, LossStep
<1>5. ASSUME RemoveEntry
      PROVE  LossesPaidFor'
  <2>1. PICK redis \in {0, 1} :
           /\ Paid(0, 0, redis)
           /\ UNCHANGED <<tasks, buffer, rows, dlq>>
    BY <1>1, <1>5, RemoveFacts
  <2>2. Stored' = Stored
    BY <2>1 DEF Stored
  <2>3. \A d : Queued(d) => Queued(d)' \/ d \in Stored
    BY <1>1, <1>5, RemoveQueued
  <2>4. Lost' \subseteq Lost \cup {}
    BY <1>3, <2>1, <2>2, <2>3 DEF Lost, Pending, Buffered
  <2>5. redis \in Nat /\ 0 \in Nat /\ 0 <= 0 + redis /\ 0 <= redis
    BY <2>1
  <2>6. Paid(0, 0, redis)
    BY <2>1
  <2>. QED
    BY <1>3, <1>a, <2>4, <2>5, <2>6, LossStep
<1>6. ASSUME Reschedule
      PROVE  LossesPaidFor'
  <2>1. PICK again \in [event : Ids, retry_count : Nat], redis \in {0, 1} :
           /\ worker.at = "reschedule" /\ worker' = Idle
           /\ again.event = worker.entry.event
           /\ Paid(0, 0, redis)
           /\ UNCHANGED <<tasks, buffer, rows>>
           /\ \/ redis = 0 /\ dlq' = dlq \cup {again.event} /\ failed' = failed
              \/ redis = 0 /\ failed' = failed \cup {again} /\ dlq' = dlq
              \/ redis = 1 /\ UNCHANGED <<failed, dlq>>
    BY <1>1, <1>6, RescheduleFacts
  <2>2. Stored' = Stored
    BY <2>1 DEF Stored
  <2>3. \A d : Queued(d)' <=> \E x \in failed' : x.event = d
    BY <2>1 DEF Queued, Idle
  <2>4. \A d : Queued(d) <=> (\E x \in failed : x.event = d) \/ d = again.event
    BY <2>1 DEF Queued
  <2> DEFINE New == IF redis = 1 THEN {again.event} ELSE {}
  <2>5. \A d : Queued(d) => Queued(d)' \/ d \in dlq' \/ d \in New
    BY <2>1, <2>3, <2>4
  <2>6. dlq \subseteq dlq'
    BY <2>1
  <2>7. Lost' \subseteq Lost \cup New
    BY <1>3, <2>1, <2>2, <2>5, <2>6 DEF Lost, Pending, Buffered
  <2>8. \A N \in SUBSET New : IsFiniteSet(N) /\ Cardinality(N) <= redis
    <3>1. CASE redis = 0
      BY <3>1, FS_EmptySet
    <3>2. CASE redis = 1
      <4>1. IsFiniteSet({again.event}) /\ Cardinality({again.event}) = 1
        BY FS_Singleton
      <4>2. ASSUME NEW N \in SUBSET New
            PROVE  N = {} \/ N = {again.event}
        BY <3>2
      <4>. QED
        BY <3>2, <4>1, <4>2, FS_EmptySet
    <3>. QED
      BY <2>1, <3>1, <3>2
  <2> HIDE DEF New
  <2>9. {e \in New : Critical(e)'} \in SUBSET New /\ New \in SUBSET New
    OBVIOUS
  <2>10. redis \in Nat /\ 0 \in Nat /\ 0 + redis = redis
    BY <2>1
  <2>11. Paid(0, 0, redis)
    BY <2>1
  <2>12. /\ IsFiniteSet(New) /\ Cardinality(New) <= 0 + redis
         /\ Cardinality({e \in New : Critical(e)'}) <= redis
    BY <2>8, <2>9, <2>10
  <2>. QED
    BY <1>3, <2>7, <2>10, <2>11, <2>12, LossStep
<1>. QED
  BY <1>4, <1>5, <1>6 DEF Work

(* While the process lives every lost event has been paid for, a critical    *)
(* one by an error of Redis.                                                 *)
THEOREM LossesArePaidFor == Spec => []LossesPaidFor
<1>1. Init => LossesPaidFor
  <2> SUFFICES ASSUME Init PROVE LossesPaidFor
    OBVIOUS
  <2>1. Lost = {} /\ {e \in Lost : Critical(e)} = {} /\ faults.pg = 0 /\ faults.redis = 0
    BY DEF Init, Lost, Ids
  <2>. QED
    BY <2>1, FS_EmptySet DEF LossesPaidFor
<1>2. Inv /\ LossesPaidFor /\ [Next]_vars => LossesPaidFor'
  <2> SUFFICES ASSUME Inv, LossesPaidFor, [Next]_vars PROVE LossesPaidFor'
    OBVIOUS
  <2>1. TypeRest
    BY DEF Inv
  <2>2. CASE Crash
    BY <2>1, <2>2, CrashFaults DEF LossesPaidFor
  <2>3. CASE UNCHANGED vars
    <3>1. /\ Lost' = Lost /\ faults' = faults
          /\ {e \in Lost : Critical(e)}' = {e \in Lost : Critical(e)}
      BY <2>3 DEF vars, Lost, Stored, Ids, Pending, Buffered, Queued, Critical
    <3>. QED
      BY <3>1 DEF LossesPaidFor
  <2>. QED
    BY <2>1, <2>2, <2>3, LossFlow, LossWork, Steps
<1>. QED
  BY <1>1, <1>2, InvAlways, PTL DEF Spec

----------------------------------------------------------------------------
(* The verdict of the collector.                                             *)

(* Without an error of Redis every event is in the list of its session, and  *)
(* a verdict is about events that had been published when it was sought.     *)
Heard == faults.ack + faults.redis + faults.crash = 0 => \A e \in Ids : published[e].reach # "none"
SeenThen == \A s \in Sessions : meeting[s].seen <= Len(published)

(* As many rows as events, no two of one event: a row for each event.        *)
LEMMA Counted ==
  ASSUME TypeRest, NEW s \in Sessions, NEW table, IsFiniteSet(table),
         \A r \in table : r.event \in Ids,
         \A q, r \in table : q.event = r.event => q = r,
         pg_event_count(s, table) >= Cardinality(Of(s))
  PROVE  \A e \in Of(s) : \E r \in table : r.event = e
<1> DEFINE T == {r \in table : published[r.event].session = s}
           D == {e \in Of(s) : \E r \in T : r.event = e}
           f == [d \in D |-> CHOOSE r \in T : r.event = d]
<1>1. IsFiniteSet(Of(s))
  <2>1. Len(published) \in Nat
    BY LenType
  <2>2. IsFiniteSet(Ids)
    BY <2>1, FS_Interval DEF Ids
  <2>. QED
    BY <2>2, FS_Subset DEF Of
<1>2. IsFiniteSet(D) /\ IsFiniteSet(T)
  BY <1>1, FS_Subset
<1>3. f \in Surjection(D, T)
  <2>1. \A d \in D : f[d] \in T /\ f[d].event = d
    OBVIOUS
  <2>2. \A r \in T : r.event \in D /\ r.event = r.event
    BY DEF Of
  <2>3. \A r \in T : f[r.event] = r
    BY <2>1, <2>2
  <2>. QED
    BY <2>1, <2>2, <2>3 DEF Surjection
<1>4. Cardinality(T) <= Cardinality(D)
  BY <1>2, <1>3, FS_Surjection
<1>5. D \in SUBSET Of(s) /\ Cardinality(D) <= Cardinality(Of(s))
  BY <1>1, FS_Subset
<1>6. Cardinality(T) \in Nat /\ Cardinality(D) \in Nat /\ Cardinality(Of(s)) \in Nat
  BY <1>1, <1>2, FS_CardinalityType
<1>7. Cardinality(T) >= Cardinality(Of(s))
  BY DEF pg_event_count
<1>8. Cardinality(Of(s)) = Cardinality(D)
  BY <1>4, <1>5, <1>6, <1>7
<1>9. Of(s) = D
  BY <1>1, <1>5, <1>8, FS_Subset
<1>. QED
  BY <1>9

(* Every step adds events and rows, and takes back no failure.               *)
LEMMA OnlyMore ==
  ASSUME Inv, Next
  PROVE  /\ Len(published) <= Len(published')
         /\ \A e \in Ids : e \in Ids' /\ published'[e] = published[e]
         /\ Stored \subseteq Stored'
         /\ faults'.ack + faults'.redis + faults'.crash = 0 => faults.ack + faults.redis + faults.crash = 0
         /\ Heard => Heard'
<1>1. TypeRest
  BY DEF Inv
<1>2. Len(published) \in Nat
  BY <1>1, LenType
<1>3. CASE Flow
  <2>1. PICK E \in SUBSET tasks :
          \E Q \in SUBSET E, S \in SUBSET Entries(E), pg, ack, redis \in Nat :
            Takes(E, S, Q) /\ Publishes(E) /\ Pays(E, S, Q, pg, ack, redis)
    BY <1>3 DEF Flow
  <2>2. PICK Q \in SUBSET E, S \in SUBSET Entries(E), pg \in Nat, ack \in Nat, redis \in Nat :
          Takes(E, S, Q) /\ Publishes(E) /\ Pays(E, S, Q, pg, ack, redis)
    BY <2>1
  <2>3. Stored \subseteq Stored'
    BY <1>1, <2>1, <2>2, FlowRows
  <2>4. faults'.ack + faults'.redis + faults'.crash = 0 => redis = 0 /\ faults.ack + faults.redis + faults.crash = 0
    BY <1>1, <2>2, FaultsGrow DEF Pays
  <2>5. Ids' = Ids \cup NewIds
    BY <1>1, <2>2, FlowFacts
  <2>6. redis = 0 => Unheard = {}
    <3>1. IsFiniteSet(Unheard) /\ Cardinality(Unheard) <= redis
      BY <2>2 DEF Pays
    <3>2. Cardinality(Unheard) \in Nat
      BY <3>1, FS_CardinalityType
    <3>3. Cardinality(Unheard) = 0 => Unheard = {}
      BY <3>1, FS_EmptySet
    <3>. QED
      BY <3>1, <3>2, <3>3
  <2>7. Len(published) <= Len(published') /\ \A e \in Ids : published'[e] = published[e]
    BY <2>2 DEF Publishes
  <2>8. Heard => Heard'
    BY <2>4, <2>5, <2>6, <2>7 DEF Heard, Unheard
  <2>. QED
    BY <2>3, <2>4, <2>5, <2>7, <2>8
<1>4. CASE Work
  <2>1. published' = published /\ Stored \subseteq Stored'
    <3>1. ASSUME NEW entry \in failed, retry_event(entry)
          PROVE  published' = published /\ Stored \subseteq Stored'
      BY <1>1, <3>1, RetryFacts, RetryStored DEF Retried
    <3>2. RemoveEntry \/ Reschedule => published' = published /\ rows' = rows
      BY DEF RemoveEntry, Reschedule
    <3>. QED
      BY <1>4, <3>1, <3>2 DEF Work, Stored
  <2>2. PICK pg, ack, redis \in Nat : Paid(pg, ack, redis)
    BY <1>1, <1>4, WorkFaults
  <2>3. faults'.ack + faults'.redis + faults'.crash = 0 => faults.ack + faults.redis + faults.crash = 0
    BY <1>1, <2>2, FaultsGrow
  <2>. QED
    BY <1>2, <2>1, <2>3 DEF Heard, Ids
<1>5. CASE Crash
  <2>1. UNCHANGED <<published, rows>> /\ faults'.ack + faults'.redis + faults'.crash # 0
    BY <1>1, <1>5, CrashFacts, CrashFaults
  <2>. QED
    BY <1>2, <2>1 DEF Heard, Ids, Stored
<1>. QED
  BY <1>1, <1>3, <1>4, <1>5, Steps

(* Who writes a verdict.                                                     *)
LEMMA VerdictBy ==
  ASSUME Inv, TypeMeeting, Next, NEW s \in Sessions
  PROVE  \/ meeting'[s] = meeting[s]
         \/ Verify(s)
         \/ Recount(s)
         \/ meeting'[s].phase # "ok" /\ meeting'[s].seen = meeting[s].seen
<1>1. CASE \E t \in Sessions, kind \in {"normal", "critical"}, reach \in Reaches :
             publish_event(t, kind, reach)
  BY <1>1 DEF publish_event
<1>2. CASE \E e \in tasks : RunTask(e)
  BY <1>2 DEF RunTask, BufferEvent, BufferAndFlush, SaveCritical, CriticalRefused, TakeTask
<1>3. CASE Work
  BY <1>3 DEF Work, retry_event, RemoveEntry, Reschedule
<1>4. ASSUME NEW t \in Sessions, HandleCompletion(t)
      PROVE  meeting'[s] = meeting[s] \/ (meeting'[s].phase # "ok" /\ meeting'[s].seen = meeting[s].seen)
  BY <1>4 DEF HandleCompletion, TypeMeeting
<1>5. ASSUME NEW t \in Sessions, Verify(t)
      PROVE  meeting'[s] = meeting[s] \/ Verify(s)
  BY <1>5 DEF Verify, TypeMeeting
<1>6. ASSUME NEW t \in Sessions, Recount(t)
      PROVE  meeting'[s] = meeting[s] \/ Recount(s)
  BY <1>6 DEF Recount, TypeMeeting
<1>7. ASSUME NEW t \in Sessions, Warn(t)
      PROVE  meeting'[s] = meeting[s] \/ (meeting'[s].phase # "ok" /\ meeting'[s].seen = meeting[s].seen)
  BY <1>7 DEF Warn, TypeMeeting
<1>8. ASSUME NEW t \in Sessions, VerifyFails(t)
      PROVE  meeting'[s] = meeting[s] \/ (meeting'[s].phase # "ok" /\ meeting'[s].seen = meeting[s].seen)
  BY <1>8 DEF VerifyFails, TypeMeeting
<1>9. CASE Crash
  <2>1. meeting'[s] = [meeting[s] EXCEPT
          !.phase = IF @ \in {"completing", "counting"} THEN "unverified" ELSE @]
    BY <1>9 DEF Crash
  <2>2. meeting[s] \in [phase : {"running", "completing", "counting", "ok", "warned", "unverified"},
                        tries : Nat, seen : Nat]
    BY DEF TypeMeeting
  <2>. QED
    BY <2>1, <2>2
<1>. QED
  BY <1>1, <1>2, <1>3, <1>4, <1>5, <1>6, <1>7, <1>8, <1>9 DEF Next, Check

(* A verdict is written when the counts agree: no error of Redis and no      *)
(* event since make the two counts those of the same events.                 *)
LEMMA VerdictFounded ==
  ASSUME Inv, Inv', Rows, Rows', Heard, TypeMeeting, NEW s \in Sessions,
         Verify(s) \/ Recount(s), meeting'[s].phase = "ok",
         faults.ack + faults.redis + faults.crash = 0, faults'.ack + faults'.redis + faults'.crash = 0,
         \A e \in Of(s) : e <= meeting'[s].seen
  PROVE  Of(s) \subseteq Stored'
<1>1. TypeRest /\ TypeRest'
  BY DEF Inv
<1>2. \A e \in Of(s) : published[e].reach # "none"
  BY DEF Heard, Of
<1>3. published' = published
  BY DEF Verify, Recount
<1>4. /\ IsFiniteSet(rows') /\ \A r \in rows' : r.event \in Ids
      /\ \A q, r \in rows' : q.event = r.event => q = r
  BY <1>1, <1>3 DEF TypeRest, Ids, Rows, OneRow, StoredOnce
<1>5. pg_event_count(s, rows') >= Cardinality(Of(s))
  <2>1. CASE Verify(s)
    <3>1. Matches(s, rows')
      <4>1. PICK uncounted \in {0, 1} :
              meeting' = [meeting EXCEPT ![s] =
                [phase |-> CASE uncounted = 1 -> "unverified"
                             [] uncounted = 0 /\ Matches(s, rows') -> "ok"
                             [] OTHER -> "counting",
                 tries |-> 0, seen |-> Len(published)]]
        BY <2>1 DEF Verify
      <4>2. meeting'[s].phase = CASE uncounted = 1 -> "unverified"
                                  [] uncounted = 0 /\ Matches(s, rows') -> "ok"
                                  [] OTHER -> "counting"
        BY <4>1 DEF TypeMeeting
      <4>. QED
        BY <4>1, <4>2
    <3>2. {e \in Of(s) : published[e].reach # "none"} = Of(s)
      BY <1>2
    <3>. QED
      BY <3>1, <3>2 DEF Matches, redis_event_count
  <2>2. CASE Recount(s)
    <3>1. /\ meeting'[s].phase = IF pg_event_count(s, rows) >= ListedThen(s) THEN "ok" ELSE "counting"
          /\ meeting'[s].seen = meeting[s].seen /\ rows' = rows
      BY <2>2 DEF Recount, TypeMeeting, stores
    <3>2. {e \in Of(s) : e <= meeting[s].seen /\ published[e].reach # "none"} = Of(s)
      BY <1>2, <3>1
    <3>. QED
      BY <3>1, <3>2 DEF ListedThen
  <2>. QED
    BY <2>1, <2>2
<1>6. \A e \in Of(s) : \E r \in rows' : r.event = e
  BY <1>1, <1>4, <1>5, Counted
<1>. QED
  BY <1>6 DEF Stored

(* The verdict "persisted" of the collector is true of a session of which    *)
(* nothing has been published since, as long as every commit is              *)
(* acknowledged, Redis answers and the process lives.                        *)
THEOREM VerdictAlwaysTrue == Spec => []VerdictTrue
<1> DEFINE I == Heard /\ SeenThen /\ VerdictTrue
<1>1. Init => I
  BY DEF Init, Heard, SeenThen, VerdictTrue, Ids
<1>2. /\ Inv /\ Inv' /\ Rows /\ Rows' /\ TypeOK /\ I /\ [Next]_vars
      => I'
  <2> SUFFICES ASSUME Inv, Inv', Rows, Rows', TypeMeeting, Heard, SeenThen, VerdictTrue, [Next]_vars
               PROVE  Heard' /\ SeenThen' /\ VerdictTrue'
    BY TypeParts
  <2>1. CASE UNCHANGED vars
    BY <2>1 DEF vars, Heard, SeenThen, VerdictTrue, Ids, Of, Stored
  <2>2. CASE Next
    <3>1. /\ Len(published) \in Nat /\ Len(published') \in Nat /\ Len(published) <= Len(published')
          /\ \A e \in Ids : e \in Ids' /\ published'[e] = published[e]
          /\ Stored \subseteq Stored'
          /\ faults'.ack + faults'.redis + faults'.crash = 0 => faults.ack + faults.redis + faults.crash = 0
          /\ Heard'
      BY <2>2, OnlyMore, LenType DEF Inv
    <3>2. ASSUME NEW s \in Sessions
          PROVE  /\ meeting'[s].seen <= Len(published')
                 /\ meeting'[s].seen <= Len(published)
      <4>1. meeting[s].seen \in Nat /\ meeting[s].seen <= Len(published)
        BY DEF TypeMeeting, SeenThen
      <4>2. CASE Verify(s)
        BY <3>1, <4>2 DEF Verify, TypeMeeting
      <4>3. CASE Recount(s)
        <5>1. meeting'[s].seen = meeting[s].seen
          BY <4>3 DEF Recount, TypeMeeting
        <5>. QED
          BY <3>1, <4>1, <5>1
      <4>. QED
        BY <2>2, <3>1, <4>1, <4>2, <4>3, VerdictBy
    <3>3. ASSUME NEW s \in Sessions, meeting'[s].phase = "ok",
                 faults'.ack + faults'.redis + faults'.crash = 0,
                 \A e \in Of(s)' : e <= meeting'[s].seen
          PROVE  Of(s)' \subseteq Stored'
      <4>1. Of(s)' = Of(s)
        <5>1. \A e \in Of(s)' : e \in Ids
          <6>1. meeting'[s].seen \in Nat
            <7>1. TypeMeeting'
              BY <2>2, MeetingType DEF Inv
            <7>. QED
              BY <7>1 DEF TypeMeeting
          <6>. QED
            BY <3>1, <3>2, <3>3, <6>1 DEF Of, Ids
        <5>. QED
          BY <3>1, <5>1 DEF Of
      <4>2. faults.ack + faults.redis + faults.crash = 0
        BY <3>1, <3>3
      <4>3. CASE meeting'[s] = meeting[s]
        <5>1. Of(s) \subseteq Stored
          BY <3>3, <4>1, <4>2, <4>3 DEF VerdictTrue
        <5>. QED
          BY <3>1, <4>1, <5>1
      <4>4. CASE Verify(s) \/ Recount(s)
        BY <3>3, <4>1, <4>2, <4>4, VerdictFounded
      <4>. QED
        BY <2>2, <3>3, <4>3, <4>4, VerdictBy
    <3>4. SeenThen' /\ VerdictTrue'
      BY <3>2, <3>3 DEF SeenThen, VerdictTrue
    <3>. QED
      BY <3>1, <3>4
  <2>. QED
    BY <2>1, <2>2
<1>. QED
  BY <1>1, <1>2, InvAlways, RowsAlways, TypeCorrect, PTL DEF Spec

----------------------------------------------------------------------------
(* What the stream relies on: the numbers of the publisher and the rows.     *)

(* The numbers of a session rise until the process dies, and none exceeds    *)
(* the number of events there are.                                           *)
Numbering ==
  /\ \A e \in Ids : Number(e) \in 1 .. Len(published)
  /\ \A s \in Sessions : counters[s] <= Len(published)
  /\ faults.crash = 0 =>
       /\ \A e \in Ids : Number(e) <= counters[published[e].session]
       /\ \A d, e \in Ids :
            published[d].session = published[e].session /\ d < e => Number(d) < Number(e)

(* What is on its way to the table went all the way through publish_event.   *)
AllTheWay ==
  /\ \A e \in tasks \cup Stored : published[e].reach = "all"
  /\ \A x \in buffer \cup failed : published[x.event].reach = "all"
  /\ worker.at # "idle" => published[worker.entry.event].reach = "all"

(* Without an error of PostgreSQL nobody but the batcher writes a row.       *)
BatcherAlone == faults.pg + faults.crash = 0 => Batched = rows

(* What is published is newer than everything of its session.                *)
Newer == \A e \in NewIds : published'[e].number > counters[published'[e].session]

(* A step publishes something, or no event and no counter changes.           *)
LEMMA WhoPublishes ==
  ASSUME Next
  PROVE  \/ UNCHANGED <<published, counters>>
         \/ Crash
         \/ \E s \in Sessions, list \in Lists : Announce(s, list)
<1>1. ASSUME NEW s \in Sessions, NEW kind \in {"normal", "critical"}, NEW reach \in Reaches,
             publish_event(s, kind, reach)
      PROVE  \E list \in Lists : Announce(s, list)
  <2>1. <<[kind |-> kind, reach |-> reach]>> \in Lists
    BY DEF Lists, Kinds
  <2>. QED
    BY <1>1, <2>1 DEF publish_event
<1>2. ASSUME NEW s \in Sessions, Warn(s)
      PROVE  \E list \in Lists : Announce(s, list)
  <2>1. \A reach \in Reaches : <<[kind |-> "normal", reach |-> reach]>> \in Lists
    BY DEF Lists, Kinds
  <2>. QED
    BY <1>2, <2>1 DEF Warn
<1>3. ASSUME NEW s \in Sessions, HandleCompletion(s)
      PROVE  \E list \in Lists : Announce(s, list)
  BY <1>3, CompletionAnnounces
<1>4. ASSUME \/ \E e \in tasks : RunTask(e)
             \/ Work
             \/ \E s \in Sessions : Verify(s) \/ Recount(s) \/ VerifyFails(s)
      PROVE  UNCHANGED <<published, counters>>
  BY <1>4 DEF RunTask, BufferEvent, BufferAndFlush, SaveCritical, CriticalRefused, TakeTask,
              Work, retry_event, RemoveEntry, Reschedule, Verify, Recount, VerifyFails, memory
<1>. QED
  BY <1>1, <1>2, <1>3, <1>4 DEF Next, Check

LEMMA AnnounceNumbers ==
  ASSUME TypeRest, Numbering, NEW s \in Sessions, NEW list \in Lists, Announce(s, list),
         faults'.crash = faults.crash
  PROVE  Numbering' /\ Newer /\ \A t \in Sessions : counters[t] <= counters'[t]
<1> DEFINE n == Len(published)
           k == Len(list)
           added == [i \in DOMAIN list |-> [session |-> s, kind |-> list[i].kind,
                       number |-> counters[s] + i, reach |-> list[i].reach]]
<1>1. /\ published \in Seq(Announced) /\ counters \in [Sessions -> Nat] /\ n \in Nat /\ k \in Nat
      /\ DOMAIN list = 1 .. k /\ counters[s] \in Nat
      /\ \A i \in 1 .. k : list[i] \in [kind : Kinds, reach : Reaches]
  BY LenType, LenProperties, ElementOfSeq DEF TypeRest, Lists
<1>2. /\ Len(published') = n + k
      /\ \A i \in 1 .. n : published'[i] = published[i]
  BY <1>1, AnnounceFacts
<1>3. counters' = [counters EXCEPT ![s] = @ + k] /\ published' = published \o added
  BY DEF Announce
<1>4. ASSUME NEW e \in n + 1 .. n + k
      PROVE  published'[e].number = counters[s] + (e - n) /\ published'[e].session = s
  <2>1. e - n \in 1 .. k
    BY <1>1
  <2>2. added \in Seq(Announced) /\ Len(added) = k
    <3>1. \A i \in 1 .. k : added[i] \in Announced
      BY <1>1 DEF Announced
    <3>2. added \in [1 .. k -> Announced]
      BY <1>1, <3>1
    <3>. HIDE DEF added
    <3>. QED
      BY <1>1, <3>2, SeqOfFunction
  <2>3. added[e - n].number = counters[s] + (e - n) /\ added[e - n].session = s
    BY <1>1, <2>1
  <2>4. published'[e] = added[e - n]
    <3>. HIDE DEF added
    <3>1. e \in 1 .. Len(published) + Len(added) /\ ~(e <= Len(published))
      BY <1>1, <2>2
    <3>. QED
      BY <1>1, <1>3, <2>2, <3>1, ConcatProperties
  <2>. QED
    BY <2>3, <2>4
<1>. HIDE DEF added
<1>5. Ids = 1 .. n /\ Ids' = 1 .. n + k /\ NewIds = n + 1 .. n + k
  BY <1>2 DEF Ids, NewIds
<1>6. ASSUME NEW t \in Sessions
      PROVE  /\ counters[t] \in Nat /\ counters'[t] = IF t = s THEN counters[t] + k ELSE counters[t]
             /\ counters[t] <= n
  BY <1>1, <1>3 DEF Numbering
<1>7. \A t \in Sessions : counters[t] <= counters'[t] /\ counters'[t] <= n + k
  BY <1>1, <1>6
<1>8. \A e \in Ids : Number(e)' = Number(e) /\ published'[e] = published[e]
  BY <1>2, <1>5 DEF Number
<1>9. Newer
  BY <1>1, <1>4, <1>5 DEF Newer
<1>10. \A e \in Ids' : Number(e)' \in 1 .. n + k
  <2>1. ASSUME NEW e \in Ids
        PROVE  Number(e)' \in 1 .. n + k
    BY <1>1, <1>8 DEF Numbering
  <2>2. ASSUME NEW e \in n + 1 .. n + k
        PROVE  Number(e)' \in 1 .. n + k
    <3>1. Number(e)' = counters[s] + (e - n)
      BY <1>4 DEF Number
    <3>. QED
      BY <1>1, <1>6, <3>1
  <2>. QED
    BY <1>1, <1>5, <2>1, <2>2
<1>11. ASSUME faults'.crash = 0
       PROVE  /\ \A e \in Ids' : Number(e)' <= counters'[published'[e].session]
              /\ \A d, e \in Ids' :
                   published'[d].session = published'[e].session /\ d < e => Number(d)' < Number(e)'
  <2>1. /\ \A e \in Ids : Number(e) <= counters[published[e].session]
        /\ \A d, e \in Ids :
             published[d].session = published[e].session /\ d < e => Number(d) < Number(e)
    BY <1>11 DEF Numbering
  <2>2. \A e \in Ids : published[e].session \in Sessions /\ Number(e) \in Nat
    <3>1. \A e \in 1 .. Len(published) : published[e] \in Announced
      BY <1>1, ElementOfSeq
    <3>. QED
      BY <1>5, <3>1 DEF Announced, Number
  <2>3. ASSUME NEW e \in Ids'
        PROVE  Number(e)' <= counters'[published'[e].session]
    <3>1. CASE e \in Ids
      <4>1. /\ Number(e)' = Number(e) /\ published'[e].session = published[e].session
            /\ Number(e) <= counters[published[e].session] /\ Number(e) \in Nat
            /\ published[e].session \in Sessions
        BY <1>8, <2>1, <2>2, <3>1
      <4>2. counters[published[e].session] \in Nat /\ counters'[published[e].session] \in Nat
        BY <1>1, <1>6, <4>1
      <4>. QED
        BY <1>7, <4>1, <4>2
    <3>2. CASE e \in n + 1 .. n + k
      <4>1. Number(e)' = counters[s] + (e - n) /\ published'[e].session = s
        BY <1>4, <3>2 DEF Number
      <4>. QED
        BY <1>1, <1>6, <3>2, <4>1
    <3>. QED
      BY <1>1, <1>5, <3>1, <3>2
  <2>4. ASSUME NEW d \in Ids', NEW e \in Ids',
               published'[d].session = published'[e].session, d < e
        PROVE  Number(d)' < Number(e)'
    <3>1. CASE e \in Ids
      <4>1. d \in Ids
        BY <1>1, <1>5, <2>4, <3>1
      <4>. QED
        BY <1>8, <2>1, <2>4, <3>1, <4>1
    <3>2. CASE e \in n + 1 .. n + k /\ d \in Ids
      <4>1. Number(e)' = counters[s] + (e - n) /\ published'[e].session = s
        BY <1>4, <3>2 DEF Number
      <4>2. Number(d)' = Number(d) /\ published[d].session = s /\ Number(d) <= counters[s]
        BY <1>8, <2>1, <2>4, <3>2, <4>1
      <4>. QED
        BY <1>1, <2>2, <3>2, <4>1, <4>2
    <3>3. CASE e \in n + 1 .. n + k /\ d \in n + 1 .. n + k
      <4>1. Number(e)' = counters[s] + (e - n) /\ Number(d)' = counters[s] + (d - n)
        BY <1>4, <3>3 DEF Number
      <4>. QED
        BY <1>1, <2>4, <3>3, <4>1
    <3>. QED
      BY <1>1, <1>5, <3>1, <3>2, <3>3
  <2>. QED
    BY <2>3, <2>4
<1>. QED
  BY <1>2, <1>7, <1>9, <1>10, <1>11 DEF Numbering

LEMMA NumberingNext ==
  ASSUME TypeRest, Numbering, Next
  PROVE  /\ Numbering'
         /\ ~Crash => /\ Newer /\ (\A t \in Sessions : counters[t] <= counters'[t])
                      /\ faults'.crash = faults.crash
<1>1. CASE Crash
  <2>1. /\ counters' = [s \in Sessions |-> 0] /\ published' = published /\ Len(published) \in Nat
        /\ faults'.crash # 0
    BY <1>1, LenType, CrashFaults DEF Crash
  <2>2. \A e \in Ids' : Number(e)' \in 1 .. Len(published')
    BY <2>1 DEF Numbering, Ids, Number
  <2>3. \A s \in Sessions : counters'[s] <= Len(published')
    BY <2>1
  <2>. QED
    BY <1>1, <2>1, <2>2, <2>3 DEF Numbering
<1>2. ASSUME ~Crash
      PROVE  faults'.crash = faults.crash
  <2>1. \E pg, ack, redis \in Nat : Paid(pg, ack, redis)
    BY <1>2, Steps, WorkFaults DEF Flow, Pays
  <2>. QED
    BY <2>1, HarmPaid
<1>3. CASE ~Crash /\ UNCHANGED <<published, counters>>
  <2>1. NewIds = {}
    BY <1>3, LenType DEF NewIds
  <2>2. faults'.crash = faults.crash
    BY <1>2, <1>3
  <2>3. Numbering'
    BY <1>3, <2>2 DEF Numbering, Ids, Number
  <2>4. \A t \in Sessions : counters[t] <= counters'[t]
    BY <1>3 DEF TypeRest
  <2>. QED
    BY <2>1, <2>2, <2>3, <2>4 DEF Newer
<1>4. CASE ~Crash /\ \E s \in Sessions, list \in Lists : Announce(s, list)
  BY <1>2, <1>4, AnnounceNumbers
<1>. QED
  BY <1>1, <1>3, <1>4, WhoPublishes

(* What is on its way to the table went all the way.                         *)
LEMMA AllTheWayNext ==
  ASSUME Inv, AllTheWay, Next
  PROVE  AllTheWay'
<1>1. TypeRest
  BY DEF Inv
<1>2. CASE Flow
  <2>1. PICK E \in SUBSET tasks :
          \E Q \in SUBSET E, S \in SUBSET Entries(E), pg, ack, redis \in Nat :
            Takes(E, S, Q) /\ Publishes(E) /\ Pays(E, S, Q, pg, ack, redis)
    BY <1>2 DEF Flow
  <2>2. PICK Q \in SUBSET E, S \in SUBSET Entries(E) : Takes(E, S, Q) /\ Publishes(E)
    BY <2>1
  <2>3. /\ Stored' = Stored \cup {x.event : x \in S}
        /\ \A x \in Entries(E) : x \in buffer \/ x.event \in E
        /\ Ids' = Ids \cup NewIds
    BY <1>1, <2>2, FlowRows, EntryFacts, FlowFacts
  <2>4. /\ buffer' \subseteq Entries(E) /\ worker'.at = "idle"
        /\ failed' = failed \cup {[event |-> e, retry_count |-> 0] : e \in Q}
    BY <2>2 DEF Takes, Idle
  <2>5. /\ \A e \in Ids : published'[e] = published[e]
        /\ \A e \in tasks' : e \in tasks \/ published'[e].reach = "all"
    BY <2>2 DEF Publishes
  <2>6. /\ tasks \cup Stored \subseteq Ids
        /\ \A x \in buffer \cup failed : x.event \in Ids
    BY <1>1, PendingType DEF TypeRest
  <2>7. \A x \in Entries(E) : x.event \in Ids /\ published[x.event].reach = "all"
    BY <2>3, <2>6 DEF AllTheWay
  <2>8. \A e \in tasks' \cup Stored' : published'[e].reach = "all"
    <3>1. \A e \in tasks \cup Stored : published'[e].reach = "all"
      BY <2>5, <2>6 DEF AllTheWay
    <3>2. \A x \in S : published'[x.event].reach = "all"
      BY <2>5, <2>7
    <3>. QED
      BY <2>3, <2>5, <3>1, <3>2
  <2>9. \A x \in buffer' : published'[x.event].reach = "all"
    BY <2>4, <2>5, <2>7
  <2>10. ASSUME NEW x \in failed'
         PROVE  published'[x.event].reach = "all"
    <3>1. CASE x \in failed
      BY <2>5, <2>6, <3>1 DEF AllTheWay
    <3>2. CASE x.event \in Q
      BY <2>5, <2>6, <3>2 DEF AllTheWay
    <3>. QED
      BY <2>4, <3>1, <3>2
  <2>. QED
    BY <2>4, <2>8, <2>9, <2>10 DEF AllTheWay
<1>3. ASSUME NEW entry \in failed, retry_event(entry)
      PROVE  AllTheWay'
  <2>1. /\ worker'.entry = entry
        /\ UNCHANGED <<published, tasks, buffer, failed>>
    <3>1. PICK ok : /\ worker' = [at |-> "remove", entry |-> entry, success |-> ok]
                    /\ UNCHANGED <<published, counters, tasks, buffer, seq_counter, failed, dlq>>
      BY <1>1, <1>3, RetryFacts DEF Retried
    <3>. QED
      BY <3>1
  <2>2. Stored' \subseteq Stored \cup {entry.event}
    BY <1>1, <1>3, RetryStored
  <2>3. published[entry.event].reach = "all"
    BY DEF AllTheWay
  <2>. QED
    BY <2>1, <2>2, <2>3 DEF AllTheWay
<1>4. ASSUME RemoveEntry
      PROVE  AllTheWay'
  <2>1. /\ UNCHANGED <<published, tasks, buffer, rows>> /\ failed' \subseteq failed
        /\ worker.at = "remove" /\ (worker'.at # "idle" => worker'.entry = worker.entry)
    <3>1. PICK redis \in {0, 1} :
            /\ worker.at = "remove"
            /\ UNCHANGED <<published, counters, tasks, buffer, seq_counter, rows, dlq>>
            /\ failed' = IF redis = 0 THEN failed \ {worker.entry} ELSE failed
            /\ IF redis = 0 /\ ~worker.success
                THEN worker' \in [at : {"reschedule"}, entry : {worker.entry}, success : {FALSE}]
                ELSE worker' = Idle
      BY <1>1, <1>4, RemoveFacts
    <3>2. CASE redis = 0 /\ ~worker.success
      <4>1. worker' \in [at : {"reschedule"}, entry : {worker.entry}, success : {FALSE}]
        BY <3>1, <3>2
      <4>2. worker'.entry = worker.entry
        BY <4>1
      <4>. QED
        BY <3>1, <4>2
    <3>3. CASE ~(redis = 0 /\ ~worker.success)
      <4>1. worker' = Idle
        BY <3>1, <3>3
      <4>. QED
        BY <3>1, <4>1 DEF Idle
    <3>. QED
      BY <3>2, <3>3
  <2>. QED
    BY <2>1 DEF AllTheWay, Stored
<1>5. ASSUME Reschedule
      PROVE  AllTheWay'
  <2>1. PICK again :
          /\ worker.at = "reschedule" /\ worker'.at = "idle"
          /\ again.event = worker.entry.event
          /\ UNCHANGED <<published, tasks, buffer, rows>>
          /\ failed' \subseteq failed \cup {again}
    BY <1>1, <1>5, RescheduleFacts DEF Idle
  <2>. QED
    BY <2>1 DEF AllTheWay, Stored
<1>6. CASE Crash
  <2>1. /\ tasks' = {} /\ buffer' = {} /\ worker'.at = "idle"
        /\ UNCHANGED <<published, rows, failed>>
    BY <1>1, <1>6, CrashFacts DEF Idle
  <2>. QED
    BY <2>1 DEF AllTheWay, Stored
<1>. QED
  BY <1>1, <1>2, <1>3, <1>4, <1>5, <1>6, Steps DEF Work

(* As long as PostgreSQL refuses nothing the worker has nothing to write; no *)
(* row disappears.                                                           *)
LEMMA BatcherAloneNext ==
  ASSUME Inv, Rows, BatcherAlone, Next
  PROVE  BatcherAlone' /\ rows \subseteq rows'
<1>1. TypeRest
  BY DEF Inv
<1>2. CASE Flow
  <2>1. PICK E \in SUBSET tasks :
          \E Q \in SUBSET E, S \in SUBSET Entries(E), pg, ack, redis \in Nat :
            Takes(E, S, Q) /\ Publishes(E) /\ Pays(E, S, Q, pg, ack, redis)
    BY <1>2 DEF Flow
  <2>2. PICK Q \in SUBSET E, S \in SUBSET Entries(E), pg \in Nat, ack \in Nat, redis \in Nat :
          Takes(E, S, Q) /\ Publishes(E) /\ Pays(E, S, Q, pg, ack, redis)
    BY <2>1
  <2>3. rows \subseteq rows' /\ \A r \in rows' \ rows : r.by = "batcher"
    BY <2>2 DEF Takes, Adds
  <2>4. faults'.pg + faults'.crash = 0 => faults.pg + faults.crash = 0
    BY <1>1, <2>2, FaultsGrow DEF Pays
  <2>. QED
    BY <2>3, <2>4 DEF BatcherAlone, Batched
<1>3. CASE Work
  <2>1. rows \subseteq rows'
    <3>1. ASSUME NEW entry \in failed, retry_event(entry)
          PROVE  rows \subseteq rows'
      BY <1>1, <3>1, RetryStored
    <3>2. RemoveEntry \/ Reschedule => rows' = rows
      BY DEF RemoveEntry, Reschedule
    <3>. QED
      BY <1>3, <3>1, <3>2 DEF Work
  <2>2. ASSUME faults'.pg + faults'.crash = 0
        PROVE  FALSE
    <3>1. faults.pg + faults.crash = 0
      BY <1>1, <1>3, <2>2, WorkFaults, FaultsGrow
    <3>2. failed = {} /\ worker.at = "idle"
      BY <3>1 DEF Rows, InLine, Idle
    <3>. QED
      BY <1>3, <3>2 DEF Work, RemoveEntry, Reschedule
  <2>. QED
    BY <2>1, <2>2 DEF BatcherAlone
<1>4. CASE Crash
  <2>1. rows' = rows /\ faults'.pg + faults'.crash # 0
    BY <1>1, <1>4, CrashFacts, CrashFaults
  <2>. QED
    BY <2>1 DEF BatcherAlone
<1>. QED
  BY <1>1, <1>2, <1>3, <1>4, Steps

----------------------------------------------------------------------------
(* Lists of events: in the order of publication, and with what was stored    *)
(* twice in them twice.                                                      *)
Rising(list) == \A i, j \in DOMAIN list : i < j => list[i] < list[j]
Mounting(list) == \A i, j \in DOMAIN list : i < j => list[i] <= list[j]

LEMMA ElementsOf ==
  ASSUME NEW S, NEW list \in Seq(S)
  PROVE  /\ ToSet(list) \subseteq S
         /\ \A x \in ToSet(list) : \E i \in 1 .. Len(list) : x = list[i]
         /\ \A i \in 1 .. Len(list) : list[i] \in ToSet(list)
         /\ list = <<>> <=> ToSet(list) = {}
<1>1. /\ DOMAIN list = 1 .. Len(list) /\ Len(list) \in Nat
      /\ \A i \in 1 .. Len(list) : list[i] \in S
  BY LenProperties, ElementOfSeq
<1>2. list # <<>> => 1 \in 1 .. Len(list)
  BY <1>1, EmptySeq
<1>3. list = <<>> => 1 .. Len(list) = {}
  OBVIOUS
<1>. QED
  BY <1>1, <1>2, <1>3 DEF ToSet

(* Taking the first event off a list.                                        *)
LEMMA Heads ==
  ASSUME NEW S, NEW list \in Seq(S), list # <<>>
  PROVE  /\ Head(list) \in S /\ Tail(list) \in Seq(S)
         /\ Head(list) \in ToSet(list)
         /\ ToSet(list) = {Head(list)} \cup ToSet(Tail(list))
         /\ Len(list) = 1 <=> Tail(list) = <<>>
<1>1. /\ Head(list) \in S /\ Tail(list) \in Seq(S) /\ Len(Tail(list)) = Len(list) - 1
      /\ \A i \in 1 .. Len(Tail(list)) : Tail(list)[i] = list[i + 1]
      /\ Head(list) = list[1] /\ Len(list) \in Nat /\ Len(list) # 0
  <2>1. /\ Head(list) \in S /\ Tail(list) \in Seq(S) /\ Len(Tail(list)) = Len(list) - 1
        /\ \A i \in 1 .. Len(Tail(list)) : Tail(list)[i] = list[i + 1]
    BY HeadTailProperties
  <2>2. Len(list) \in Nat /\ Len(list) # 0
    BY EmptySeq
  <2>. QED
    BY <2>1, <2>2
<1>2. ASSUME NEW i \in 1 .. Len(list)
      PROVE  list[i] \in {Head(list)} \cup ToSet(Tail(list))
  <2>1. CASE i = 1
    BY <1>1, <2>1
  <2>2. CASE i # 1
    <3>1. i - 1 \in 1 .. Len(Tail(list)) /\ (i - 1) + 1 = i
      BY <1>1, <2>2
    <3>2. Tail(list)[i - 1] \in ToSet(Tail(list))
      BY <1>1, <3>1, ElementsOf
    <3>3. Tail(list)[i - 1] = list[(i - 1) + 1]
      BY <1>1, <3>1
    <3>. QED
      BY <3>1, <3>2, <3>3
  <2>. QED
    BY <2>1, <2>2
<1>3. ASSUME NEW i \in 1 .. Len(Tail(list))
      PROVE  Tail(list)[i] \in ToSet(list)
  <2>1. i + 1 \in 1 .. Len(list) /\ Tail(list)[i] = list[i + 1]
    BY <1>1
  <2>. QED
    BY <2>1, ElementsOf
<1>4. Head(list) \in ToSet(list)
  <2>1. 1 \in 1 .. Len(list)
    BY <1>1
  <2>. QED
    BY <1>1, <2>1, ElementsOf
<1>5. ToSet(list) \subseteq {Head(list)} \cup ToSet(Tail(list))
  <2>1. \A x \in ToSet(list) : \E i \in 1 .. Len(list) : x = list[i]
    BY ElementsOf
  <2>. QED
    BY <1>2, <2>1
<1>6. ToSet(Tail(list)) \subseteq ToSet(list)
  <2>1. \A x \in ToSet(Tail(list)) : \E i \in 1 .. Len(Tail(list)) : x = Tail(list)[i]
    BY <1>1, ElementsOf
  <2>. QED
    BY <1>3, <2>1
<1>7. Len(list) = 1 <=> Tail(list) = <<>>
  <2>1. Tail(list) = <<>> <=> Len(Tail(list)) = 0
    BY <1>1, EmptySeq
  <2>. QED
    BY <1>1, <2>1
<1>. QED
  BY <1>1, <1>4, <1>5, <1>6, <1>7

LEMMA RisingTail ==
  ASSUME NEW S, S \subseteq Nat, NEW list \in Seq(S), list # <<>>, Rising(list)
  PROVE  Rising(Tail(list)) /\ \A e \in ToSet(Tail(list)) : Head(list) < e
<1>1. /\ Tail(list) \in Seq(S) /\ Len(Tail(list)) = Len(list) - 1
      /\ \A i \in 1 .. Len(Tail(list)) : Tail(list)[i] = list[i + 1]
      /\ Head(list) = list[1] /\ Len(list) \in Nat /\ Len(list) # 0
      /\ DOMAIN list = 1 .. Len(list) /\ DOMAIN Tail(list) = 1 .. Len(Tail(list))
  <2>1. /\ Tail(list) \in Seq(S) /\ Len(Tail(list)) = Len(list) - 1
        /\ \A i \in 1 .. Len(Tail(list)) : Tail(list)[i] = list[i + 1]
    BY HeadTailProperties
  <2>2. Len(list) \in Nat /\ Len(list) # 0
    BY EmptySeq
  <2>3. DOMAIN list = 1 .. Len(list) /\ DOMAIN Tail(list) = 1 .. Len(Tail(list))
    BY <2>1, LenProperties
  <2>. QED
    BY <2>1, <2>2, <2>3
<1>2. ASSUME NEW i \in 1 .. Len(Tail(list)), NEW j \in 1 .. Len(Tail(list)), i < j
      PROVE  Tail(list)[i] < Tail(list)[j]
  <2>1. i + 1 \in DOMAIN list /\ j + 1 \in DOMAIN list /\ i + 1 < j + 1
    BY <1>1, <1>2
  <2>2. list[i + 1] < list[j + 1]
    BY <2>1 DEF Rising
  <2>. QED
    BY <1>1, <2>2
<1>3. ASSUME NEW i \in 1 .. Len(Tail(list))
      PROVE  Head(list) < Tail(list)[i]
  <2>1. 1 \in DOMAIN list /\ i + 1 \in DOMAIN list /\ 1 < i + 1
    BY <1>1
  <2>2. list[1] < list[i + 1]
    BY <2>1 DEF Rising
  <2>. QED
    BY <1>1, <2>2
<1>4. \A e \in ToSet(Tail(list)) : \E i \in 1 .. Len(Tail(list)) : e = Tail(list)[i]
  BY <1>1, ElementsOf
<1>. QED
  BY <1>1, <1>2, <1>3, <1>4 DEF Rising

LEMMA MountingTail ==
  ASSUME NEW S, S \subseteq Nat, NEW list \in Seq(S), list # <<>>, Mounting(list)
  PROVE  Mounting(Tail(list)) /\ \A e \in ToSet(Tail(list)) : Head(list) <= e
<1>1. /\ Tail(list) \in Seq(S) /\ Len(Tail(list)) = Len(list) - 1
      /\ \A i \in 1 .. Len(Tail(list)) : Tail(list)[i] = list[i + 1]
      /\ Head(list) = list[1] /\ Len(list) \in Nat /\ Len(list) # 0
      /\ DOMAIN list = 1 .. Len(list) /\ DOMAIN Tail(list) = 1 .. Len(Tail(list))
  <2>1. /\ Tail(list) \in Seq(S) /\ Len(Tail(list)) = Len(list) - 1
        /\ \A i \in 1 .. Len(Tail(list)) : Tail(list)[i] = list[i + 1]
    BY HeadTailProperties
  <2>2. Len(list) \in Nat /\ Len(list) # 0
    BY EmptySeq
  <2>3. DOMAIN list = 1 .. Len(list) /\ DOMAIN Tail(list) = 1 .. Len(Tail(list))
    BY <2>1, LenProperties
  <2>. QED
    BY <2>1, <2>2, <2>3
<1>2. ASSUME NEW i \in 1 .. Len(Tail(list)), NEW j \in 1 .. Len(Tail(list)), i < j
      PROVE  Tail(list)[i] <= Tail(list)[j]
  <2>1. i + 1 \in DOMAIN list /\ j + 1 \in DOMAIN list /\ i + 1 < j + 1
    BY <1>1, <1>2
  <2>2. list[i + 1] <= list[j + 1]
    BY <2>1 DEF Mounting
  <2>. QED
    BY <1>1, <2>2
<1>3. ASSUME NEW i \in 1 .. Len(Tail(list))
      PROVE  Head(list) <= Tail(list)[i]
  <2>1. 1 \in DOMAIN list /\ i + 1 \in DOMAIN list /\ 1 < i + 1
    BY <1>1
  <2>2. list[1] <= list[i + 1]
    BY <2>1 DEF Mounting
  <2>. QED
    BY <1>1, <2>2
<1>4. \A e \in ToSet(Tail(list)) : \E i \in 1 .. Len(Tail(list)) : e = Tail(list)[i]
  BY <1>1, ElementsOf
<1>. QED
  BY <1>1, <1>2, <1>3, <1>4 DEF Mounting

LEMMA RisingMounts ==
  ASSUME NEW S, S \subseteq Nat, NEW list \in Seq(S), Rising(list)
  PROVE  Mounting(list)
<1>1. \A i \in DOMAIN list : list[i] \in Nat
  BY ElementOfSeq, LenProperties
<1>. QED
  BY <1>1 DEF Rising, Mounting

(* One list behind the other.                                                *)
LEMMA Chained ==
  ASSUME NEW S, NEW s \in Seq(S), NEW t \in Seq(S)
  PROVE  /\ s \o t \in Seq(S)
         /\ ToSet(s \o t) = ToSet(s) \cup ToSet(t)
         /\ (S \subseteq Nat /\ Rising(s) /\ Rising(t) /\ \A x \in ToSet(s), y \in ToSet(t) : x < y)
              => Rising(s \o t)
<1> DEFINE u == s \o t
<1>1. /\ u \in Seq(S) /\ Len(u) = Len(s) + Len(t)
      /\ Len(s) \in Nat /\ Len(t) \in Nat
      /\ \A i \in 1 .. Len(s) + Len(t) : u[i] = IF i <= Len(s) THEN s[i] ELSE t[i - Len(s)]
      /\ DOMAIN s = 1 .. Len(s) /\ DOMAIN t = 1 .. Len(t)
      /\ DOMAIN u = 1 .. Len(s) + Len(t)
  BY ConcatProperties, LenProperties
<1>. HIDE DEF u
<1>2. /\ \A i \in 1 .. Len(s) : u[i] = s[i] /\ s[i] \in ToSet(s)
      /\ \A i \in Len(s) + 1 .. Len(s) + Len(t) :
           /\ i - Len(s) \in 1 .. Len(t)
           /\ u[i] = t[i - Len(s)] /\ t[i - Len(s)] \in ToSet(t)
      /\ \A i \in 1 .. Len(t) : Len(s) + i \in 1 .. Len(s) + Len(t) /\ u[Len(s) + i] = t[i]
  <2>1. ASSUME NEW i \in 1 .. Len(s)
        PROVE  u[i] = s[i] /\ s[i] \in ToSet(s)
    BY <1>1, ElementsOf
  <2>2. ASSUME NEW i \in Len(s) + 1 .. Len(s) + Len(t)
        PROVE  /\ i - Len(s) \in 1 .. Len(t)
               /\ u[i] = t[i - Len(s)] /\ t[i - Len(s)] \in ToSet(t)
    <3>1. i - Len(s) \in 1 .. Len(t) /\ i \in 1 .. Len(s) + Len(t) /\ ~(i <= Len(s))
      BY <1>1
    <3>. QED
      BY <1>1, <3>1, ElementsOf
  <2>3. ASSUME NEW i \in 1 .. Len(t)
        PROVE  Len(s) + i \in 1 .. Len(s) + Len(t) /\ u[Len(s) + i] = t[i]
    <3>1. Len(s) + i \in 1 .. Len(s) + Len(t) /\ ~(Len(s) + i <= Len(s)) /\ (Len(s) + i) - Len(s) = i
      BY <1>1
    <3>. QED
      BY <1>1, <3>1
  <2>. QED
    BY <2>1, <2>2, <2>3
<1>3. ToSet(u) = ToSet(s) \cup ToSet(t)
  <2>1. ASSUME NEW x \in ToSet(u)
        PROVE  x \in ToSet(s) \cup ToSet(t)
    <3>1. PICK i \in 1 .. Len(s) + Len(t) : x = u[i]
      <4>1. \E i \in 1 .. Len(u) : x = u[i]
        BY <1>1, <2>1, ElementsOf
      <4>. QED
        BY <1>1, <4>1
    <3>2. i \in 1 .. Len(s) \/ i \in Len(s) + 1 .. Len(s) + Len(t)
      BY <1>1
    <3>. QED
      BY <1>2, <3>1, <3>2
  <2>2. ASSUME NEW x \in ToSet(s)
        PROVE  x \in ToSet(u)
    <3>1. PICK i \in 1 .. Len(s) : x = s[i]
      BY ElementsOf
    <3>2. i \in 1 .. Len(u) /\ u[i] = x
      BY <1>1, <1>2, <3>1
    <3>. QED
      BY <1>1, <3>2, ElementsOf
  <2>3. ASSUME NEW x \in ToSet(t)
        PROVE  x \in ToSet(u)
    <3>1. PICK i \in 1 .. Len(t) : x = t[i]
      BY ElementsOf
    <3>2. Len(s) + i \in 1 .. Len(u) /\ u[Len(s) + i] = x
      BY <1>1, <1>2, <3>1
    <3>. QED
      BY <1>1, <3>2, ElementsOf
  <2>. QED
    BY <2>1, <2>2, <2>3
<1>4. ASSUME S \subseteq Nat, Rising(s), Rising(t), \A x \in ToSet(s), y \in ToSet(t) : x < y,
             NEW i \in DOMAIN u, NEW j \in DOMAIN u, i < j
      PROVE  u[i] < u[j]
  <2>1. CASE j \in 1 .. Len(s)
    <3>1. i \in 1 .. Len(s)
      BY <1>1, <1>4, <2>1
    <3>2. s[i] < s[j]
      BY <1>1, <1>4, <2>1, <3>1 DEF Rising
    <3>. QED
      BY <1>2, <2>1, <3>1, <3>2
  <2>2. CASE i \in 1 .. Len(s) /\ j \in Len(s) + 1 .. Len(s) + Len(t)
    BY <1>2, <1>4, <2>2
  <2>3. CASE i \in Len(s) + 1 .. Len(s) + Len(t) /\ j \in Len(s) + 1 .. Len(s) + Len(t)
    <3>1. i - Len(s) \in DOMAIN t /\ j - Len(s) \in DOMAIN t /\ i - Len(s) < j - Len(s)
      BY <1>1, <1>4, <2>3
    <3>2. t[i - Len(s)] < t[j - Len(s)]
      BY <1>4, <3>1 DEF Rising
    <3>. QED
      BY <1>2, <2>3, <3>2
  <2>. QED
    BY <1>1, <2>1, <2>2, <2>3
<1>. QED
  BY <1>1, <1>3, <1>4 DEF Rising, u

LEMMA Appended ==
  ASSUME NEW S, NEW s \in Seq(S), NEW e \in S
  PROVE  /\ Append(s, e) \in Seq(S)
         /\ ToSet(Append(s, e)) = ToSet(s) \cup {e}
         /\ Append(s, e) # <<>> /\ Append(s, e)[Len(Append(s, e))] = e
         /\ Len(Append(s, e)) = Len(s) + 1
         /\ \A i \in 1 .. Len(s) : Append(s, e)[i] = s[i]
<1> DEFINE u == Append(s, e)
<1>1. /\ u \in Seq(S) /\ Len(u) = Len(s) + 1 /\ Len(s) \in Nat
      /\ \A i \in 1 .. Len(s) : u[i] = s[i]
      /\ u[Len(s) + 1] = e
  OBVIOUS
<1>. HIDE DEF u
<1>2. u # <<>>
  BY <1>1
<1>3. ToSet(u) \subseteq ToSet(s) \cup {e}
  <2>1. ASSUME NEW x \in ToSet(u)
        PROVE  x \in ToSet(s) \cup {e}
    <3>1. PICK i \in 1 .. Len(s) + 1 : x = u[i]
      <4>1. \E i \in 1 .. Len(u) : x = u[i]
        BY <1>1, <2>1, ElementsOf
      <4>. QED
        BY <1>1, <4>1
    <3>2. i \in 1 .. Len(s) \/ i = Len(s) + 1
      BY <1>1
    <3>. QED
      BY <1>1, <3>1, <3>2, ElementsOf
  <2>. QED
    BY <2>1
<1>4. ToSet(s) \cup {e} \subseteq ToSet(u)
  <2>1. ASSUME NEW x \in ToSet(s)
        PROVE  x \in ToSet(u)
    <3>1. PICK i \in 1 .. Len(s) : x = s[i]
      BY ElementsOf
    <3>2. i \in 1 .. Len(u) /\ u[i] = x
      BY <1>1, <3>1
    <3>. QED
      BY <1>1, <3>2, ElementsOf
  <2>2. Len(s) + 1 \in 1 .. Len(u) /\ u[Len(s) + 1] = e
    BY <1>1
  <2>3. e \in ToSet(u)
    BY <1>1, <2>2, ElementsOf
  <2>. QED
    BY <2>1, <2>3
<1>. QED
  BY <1>1, <1>2, <1>3, <1>4 DEF u

(* The beginning of a list.                                                  *)
LEMMA Beginning ==
  ASSUME NEW S, S \subseteq Nat, NEW s \in Seq(S), s # <<>>, NEW k \in 1 .. Len(s)
  PROVE  LET t == SubSeq(s, 1, k) IN
           /\ t \in Seq(S) /\ t # <<>> /\ ToSet(t) \subseteq ToSet(s)
           /\ Rising(s) => /\ Rising(t)
                           /\ \A x \in ToSet(t), y \in ToSet(s) : y \in ToSet(t) \/ x < y
           /\ Mounting(s) => /\ Mounting(t)
                             /\ \A x \in ToSet(t), y \in ToSet(s) : y \in ToSet(t) \/ x < y
<1> DEFINE t == SubSeq(s, 1, k)
<1>1. Len(s) \in Nat /\ DOMAIN s = 1 .. Len(s) /\ \A i \in 1 .. Len(s) : s[i] \in S
  BY LenProperties, ElementOfSeq
<1>2. t \in Seq(S) /\ Len(t) = k /\ \A i \in 1 .. k : t[i] = s[i]
  <2>1. \A i \in 1 .. k : s[i] \in S
    BY <1>1
  <2>2. /\ SubSeq(s, 1, k) \in Seq(S)
        /\ Len(SubSeq(s, 1, k)) = IF 1 <= k THEN k - 1 + 1 ELSE 0
        /\ \A i \in 1 .. k - 1 + 1 : SubSeq(s, 1, k)[i] = s[1 + i - 1]
    BY <2>1, <1>1, SubSeqProperties
  <2>. QED
    BY <2>2, <1>1
<1>. HIDE DEF t
<1>3. DOMAIN t = 1 .. k /\ \A x \in ToSet(t) : \E i \in 1 .. k : x = t[i]
  BY <1>2, LenProperties, ElementsOf
<1>4. \A i \in 1 .. k : t[i] \in ToSet(t)
  BY <1>2, ElementsOf
<1>5. t # <<>>
  BY <1>1, <1>2
<1>6. ToSet(t) \subseteq ToSet(s)
  <2>1. \A i \in 1 .. k : i \in 1 .. Len(s)
    BY <1>1
  <2>. QED
    BY <1>2, <1>3, <2>1, ElementsOf
<1>7. ASSUME Rising(s)
      PROVE  Rising(t) /\ \A x \in ToSet(t), y \in ToSet(s) : y \in ToSet(t) \/ x < y
  <2>1. \A i, j \in 1 .. Len(s) : i < j => s[i] < s[j]
    BY <1>1, <1>7 DEF Rising
  <2>2. Rising(t)
    <3>1. \A i \in 1 .. k : i \in 1 .. Len(s) /\ t[i] = s[i]
      BY <1>1, <1>2
    <3>. QED
      BY <1>3, <2>1, <3>1 DEF Rising
  <2>3. ASSUME NEW x \in ToSet(t), NEW y \in ToSet(s), y \notin ToSet(t)
        PROVE  x < y
    <3>1. PICK i \in 1 .. k : x = s[i]
      BY <1>2, <1>3
    <3>2. PICK j \in 1 .. Len(s) : y = s[j]
      BY ElementsOf
    <3>3. j \notin 1 .. k
      BY <1>2, <1>4, <2>3, <3>2
    <3>4. i < j /\ i \in 1 .. Len(s)
      BY <1>1, <3>3
    <3>. QED
      BY <2>1, <3>1, <3>2, <3>4
  <2>. QED
    BY <2>2, <2>3
<1>8. ASSUME Mounting(s)
      PROVE  Mounting(t) /\ \A x \in ToSet(t), y \in ToSet(s) : y \in ToSet(t) \/ x < y
  <2>1. \A i, j \in 1 .. Len(s) : i < j => s[i] <= s[j]
    BY <1>1, <1>8 DEF Mounting
  <2>2. Mounting(t)
    <3>1. \A i \in 1 .. k : i \in 1 .. Len(s) /\ t[i] = s[i]
      BY <1>1, <1>2
    <3>. QED
      BY <1>3, <2>1, <3>1 DEF Mounting
  <2>3. ASSUME NEW x \in ToSet(t), NEW y \in ToSet(s), y \notin ToSet(t)
        PROVE  x < y
    <3>1. PICK i \in 1 .. k : x = s[i]
      BY <1>2, <1>3
    <3>2. PICK j \in 1 .. Len(s) : y = s[j]
      BY ElementsOf
    <3>3. j \notin 1 .. k
      BY <1>2, <1>4, <2>3, <3>2
    <3>4. i < j /\ i \in 1 .. Len(s)
      BY <1>1, <3>3
    <3>5. x <= y /\ x # y /\ x \in Nat /\ y \in Nat
      BY <1>1, <2>1, <2>3, <3>1, <3>2, <3>4
    <3>. QED
      BY <3>5
  <2>. QED
    BY <2>2, <2>3
<1>. QED
  BY <1>2, <1>5, <1>6, <1>7, <1>8 DEF t

(* A listing of a finite set has each of its elements.                       *)
LEMMA Listing ==
  ASSUME NEW S, IsFiniteSet(S), NEW list \in SetToSeqs(S)
  PROVE  /\ list \in Seq(S) /\ ToSet(list) = S /\ DOMAIN list = 1 .. Len(list)
         /\ \A i, j \in DOMAIN list : i # j => list[i] # list[j]
<1> DEFINE n == Cardinality(S)
<1>1. n \in Nat
  BY FS_CardinalityType
<1>2. list \in [1 .. n -> S] /\ \A i, j \in 1 .. n : i # j => list[i] # list[j]
  BY DEF SetToSeqs
<1>3. list \in Seq(S) /\ Len(list) = n /\ DOMAIN list = 1 .. n
  BY <1>1, <1>2, SeqOfFunction
<1>4. IsFiniteSet(1 .. n) /\ Cardinality(1 .. n) = n
  BY <1>1, FS_Interval
<1>5. list \in Injection(1 .. n, S)
  BY <1>2 DEF Injection, IsInjective
<1>6. list \in Surjection(1 .. n, S)
  BY <1>4, <1>5, FS_Injection
<1>. QED
  BY <1>2, <1>3, <1>6 DEF ToSet, Surjection

LEMMA InTurnFacts ==
  ASSUME NEW S, IsFiniteSet(S), NEW list \in InTurn(S)
  PROVE  list \in Seq(S) /\ ToSet(list) = S /\ Rising(list)
BY Listing DEF InTurn, Rising

(* The largest number of a bounded set.                                      *)
LEMMA Largest ==
  ASSUME NEW b \in Nat, NEW S \in SUBSET (0 .. b), S # {}
  PROVE  Max(S) \in S /\ \A y \in S : y <= Max(S)
<1> DEFINE T == {b - y : y \in S}
           R == OpToRel(<, Nat)
<1>1. IsWellFoundedOn(R, Nat)
  BY NatLessThanWellFounded
<1>a. \A x, y \in Nat : x < y => <<x, y>> \in R
  BY DEF OpToRel
<1>2. T \subseteq Nat /\ T # {}
  <2>1. S \subseteq Int /\ \A y \in S : y >= 0 /\ y <= b
    OBVIOUS
  <2>2. \A y \in S : b - y \in Nat
    BY <2>1
  <2>. QED
    BY <2>2
<1>. HIDE DEF R
<1>3. PICK t \in T : \A u \in T : ~(<<u, t>> \in R)
  BY <1>1, <1>2, WFMin
<1>4. PICK m \in S : t = b - m
  BY <1>3
<1>5. ASSUME NEW y \in S
      PROVE  m >= y
  <2>1. b - y \in T /\ b - y \in Nat /\ t \in Nat
    BY <1>2
  <2>2. ~(b - y < t)
    BY <1>a, <1>3, <2>1
  <2>. QED
    BY <1>4, <2>2
<1>6. Max(S) \in S /\ \A y \in S : Max(S) >= y
  BY <1>5 DEF Max
<1>. QED
  BY <1>6

----------------------------------------------------------------------------
(* The pipeline under the stream.                                           *)
Pipe == Inv /\ Rows /\ Numbering /\ AllTheWay /\ BatcherAlone

(* A step of the stream alone may cost failures and changes nothing else of  *)
(* the pipeline.                                                             *)
Aside ==
  /\ UNCHANGED <<published, counters, tasks, buffer, seq_counter, rows, failed, dlq, worker, meeting>>
  /\ \E pg, ack, redis \in Nat : Paid(pg, ack, redis)

LEMMA PipeInit == StreamInit => Pipe
<1> SUFFICES ASSUME StreamInit PROVE Pipe
  OBVIOUS
<1>1. Init /\ Ids = {} /\ tasks = {} /\ Stored = {} /\ buffer = {} /\ failed = {} /\ rows = {}
      /\ worker.at = "idle" /\ published = <<>> /\ \A s \in Sessions : counters[s] = 0
  BY DEF StreamInit, Init, Ids, Stored, Idle
<1>2. Numbering
  BY <1>1, EmptySeq DEF Numbering
<1>3. AllTheWay
  BY <1>1 DEF AllTheWay
<1>4. BatcherAlone
  BY <1>1 DEF BatcherAlone, Batched
<1>. QED
  BY <1>1, <1>2, <1>3, <1>4, InvInit, RowsInit DEF Pipe

LEMMA PipeNext ==
  ASSUME Pipe, Next
  PROVE  Pipe'
<1>1. Inv' /\ Rows'
  BY InvNext, RowsNext DEF Pipe
<1>2. Numbering' /\ AllTheWay' /\ BatcherAlone'
  BY NumberingNext, AllTheWayNext, BatcherAloneNext DEF Pipe, Inv
<1>. QED
  BY <1>1, <1>2 DEF Pipe

LEMMA PipeAside ==
  ASSUME Pipe, Aside
  PROVE  /\ Pipe'
         /\ faults'.crash = faults.crash
         /\ faults'.pg + faults'.crash = 0 => faults.pg + faults.crash = 0
<1>1. TypeRest /\ Normal /\ Places /\ OneRow /\ InLine /\ Numbered
  BY DEF Pipe, Inv, Rows
<1>2. PICK pg \in Nat, ack \in Nat, redis \in Nat :
        Paid(pg, ack, redis)
  BY DEF Aside
<1>3. /\ faults'.crash = faults.crash
      /\ faults'.ack + faults'.redis + faults'.crash = 0 =>
           faults.ack + faults.redis + faults.crash = 0
      /\ faults'.pg + faults'.crash = 0 => faults.pg + faults.crash = 0
  BY <1>1, <1>2, HarmPaid, FaultsGrow
<1>4. faults' \in Faults
  BY <1>2 DEF Paid
<1>5. TypeRest'
  BY <1>1, <1>4 DEF Aside, TypeRest, Ids
<1>6. Normal' /\ Places'
  BY <1>1 DEF Aside, Normal, Places, Critical, Buffered, Queued, Stored
<1>7. OneRow' /\ InLine' /\ Numbered'
  <2>1. OneRow'
    BY <1>1, <1>3 DEF Aside, OneRow, StoredOnce, Stored
  <2>2. InLine'
    BY <1>1, <1>3 DEF Aside, InLine, Stored, Ids, Buffered
  <2>3. Numbered'
    BY <1>1, <1>3 DEF Aside, Numbered, Batched
  <2>. QED
    BY <2>1, <2>2, <2>3
<1>8. Numbering'
  BY <1>3 DEF Pipe, Aside, Numbering, Ids, Number
<1>9. AllTheWay' /\ BatcherAlone'
  BY <1>3 DEF Pipe, Aside, AllTheWay, BatcherAlone, Stored, Batched
<1>. QED
  BY <1>3, <1>5, <1>6, <1>7, <1>8, <1>9 DEF Pipe, Inv, Rows

(* The steps of the stream.                                                  *)
LEMMA SpendAside ==
  ASSUME Pipe, StreamStep, NEW pg \in Nat, NEW ack \in Nat, NEW redis \in Nat, Spend(pg, ack, redis)
  PROVE  Aside
<1>1. Paid(pg, ack, redis)
  BY SpendFacts DEF Pipe, Inv
<1>. QED
  BY <1>1 DEF StreamStep, Aside, memory, stores

LEMMA FreeAside ==
  ASSUME Pipe, StreamStep, UNCHANGED faults
  PROVE  Aside
<1>1. Paid(0, 0, 0) /\ 0 \in Nat
  BY NoFailure DEF Pipe, Inv
<1>. QED
  BY <1>1 DEF StreamStep, Aside, memory, stores

LEMMA MissedCosts ==
  \A missed \in MissedEvents : missed.pg \in {0, 1} /\ missed.redis \in {0, 1}
BY DEF MissedEvents

LEMMA StreamAside ==
  ASSUME Pipe, Connect \/ Serve \/ RedisError \/ Disconnect
  PROVE  Aside
<1>1. CASE Connect
  <2>1. PICK redis \in {0, 1} : Spend(0, 0, redis) /\ StreamStep
    BY <1>1 DEF Connect
  <2>2. redis \in Nat /\ 0 \in Nat
    BY <2>1
  <2>. QED
    BY <2>1, <2>2, SpendAside
<1>2. CASE Replay
  <2>1. PICK missed \in MissedEvents : Spend(missed.pg, 0, missed.redis) /\ StreamStep
    BY <1>2 DEF Replay
  <2>2. missed.pg \in Nat /\ missed.redis \in Nat /\ 0 \in Nat
    BY MissedCosts
  <2>. QED
    BY <2>1, <2>2, SpendAside
<1>3. CASE SendReplayed \/ SendHeard \/ SendPolled \/ Poll \/ Disconnect
  BY <1>3, FreeAside DEF SendReplayed, SendHeard, SendPolled, Poll, Disconnect
<1>4. CASE RedisError
  <2>1. Spend(0, 0, 1) /\ StreamStep /\ 0 \in Nat /\ 1 \in Nat
    BY <1>4 DEF RedisError
  <2>. QED
    BY <2>1, SpendAside
<1>. QED
  BY <1>1, <1>2, <1>3, <1>4 DEF Serve

(* What the pipeline does beside the stream.                                 *)
Alive == faults.crash = 0
Unrefused == faults.pg + faults.crash = 0
(* The rows follow the events, though an event may have several.             *)
Steady == faults.crash = 0 /\ \A r \in rows : r.by = "batcher"

LEMMA AliveFacts ==
  ASSUME Pipe
  PROVE  /\ Unrefused => Alive
         /\ Calm => Steady
         /\ Steady => Alive
         /\ Unrefused => Steady
<1>1. faults.pg \in Nat /\ faults.crash \in Nat
  BY HarmType DEF Pipe, Inv
<1>2. Unrefused => Batched = rows /\ faults.crash = 0
  BY <1>1 DEF Pipe, BatcherAlone, Unrefused
<1>. QED
  BY <1>1, <1>2 DEF Alive, Unrefused, Steady, Calm, Batched

LEMMA Onward ==
  ASSUME Pipe, Next, faults'.crash = faults.crash
  PROVE  /\ Pipe'
         /\ Len(published) <= Len(published')
         /\ \A e \in Ids : e \in Ids' /\ published'[e] = published[e]
         /\ \A e \in Ids' : e \in Ids \/ e \in NewIds
         /\ \A e \in NewIds : e \notin Ids /\ \A d \in Ids : d < e
         /\ \A e \in NewIds : published'[e].number > counters[published'[e].session]
         /\ \A s \in Sessions : counters[s] <= counters'[s]
         /\ Alive' <=> Alive
         /\ Calm' => Calm
         /\ Steady' => Steady
         /\ Unrefused' => Unrefused
<1>1. TypeRest /\ Inv
  BY DEF Pipe, Inv
<1>2. ~Crash
  <2>1. Crash => faults'.crash = faults.crash + 1 /\ faults.crash \in Nat
    <3>1. ASSUME Crash
          PROVE  faults'.crash = faults.crash + 1 /\ faults.crash \in Nat
      <4>1. faults \in [pg : Nat, ack : Nat, redis : Nat, crash : Nat] /\ faults' = [faults EXCEPT !.crash = @ + 1]
        BY <1>1, <3>1 DEF TypeRest, Faults, Crash
      <4>. QED
        BY <4>1
    <3>. QED
      BY <3>1
  <2>. QED
    BY <2>1
<1>3. Newer /\ \A s \in Sessions : counters[s] <= counters'[s]
  BY <1>1, <1>2, NumberingNext DEF Pipe
<1>4. rows \subseteq rows'
  BY BatcherAloneNext DEF Pipe
<1>5. Len(published) <= Len(published') /\ \A e \in Ids : e \in Ids' /\ published'[e] = published[e]
  BY <1>1, OnlyMore
<1>6. /\ \A e \in Ids' : e \in Ids \/ e \in NewIds
      /\ \A e \in NewIds : e \notin Ids /\ \A d \in Ids : d < e
  <2>1. Len(published) \in Nat /\ Len(published') \in Nat
    BY <1>1, PipeNext, LenType DEF Pipe, Inv
  <2>. QED
    BY <1>5, <2>1 DEF Ids, NewIds
<1>7. Unrefused' => Unrefused
  <2>1. \E pg, ack, redis \in Nat : Paid(pg, ack, redis)
    BY <1>1, <1>2, Steps, WorkFaults DEF Flow, Pays
  <2>. QED
    BY <1>1, <2>1, FaultsGrow DEF Unrefused
<1>. QED
  BY <1>3, <1>4, <1>5, <1>6, <1>7, PipeNext DEF Newer, Alive, Calm, Steady

----------------------------------------------------------------------------
(* What a connection is sent first.                                         *)

LEMMA Numerals ==
  ASSUME Pipe
  PROVE  /\ Len(published) \in Nat /\ Ids = 1 .. Len(published) /\ IsFiniteSet(Ids)
         /\ \A e \in Ids : Number(e) \in 1 .. Len(published) /\ published[e].session \in Sessions
         /\ \A e \in Of(Watched) : e \in Ids /\ e \in Nat /\ Number(e) \in Nat /\ Number(e) > 0
         /\ Alive => /\ \A e \in Of(Watched) : Number(e) <= counters[Watched]
                     /\ \A d, e \in Of(Watched) : /\ d < e <=> Number(d) < Number(e)
                                                  /\ Number(d) = Number(e) => d = e
<1>1. TypeRest /\ Numbering
  BY DEF Pipe, Inv
<1>2. Len(published) \in Nat /\ Ids = 1 .. Len(published)
  BY <1>1, LenType DEF Ids
<1>3. \A e \in Ids : published[e].session \in Sessions
  <2>1. \A e \in 1 .. Len(published) : published[e] \in Announced
    BY <1>1, ElementOfSeq DEF TypeRest
  <2>. QED
    BY <1>2, <2>1 DEF Announced
<1>4. \A e \in Ids : Number(e) \in 1 .. Len(published) /\ Number(e) \in Nat /\ Number(e) > 0 /\ e \in Nat
  BY <1>1, <1>2 DEF Numbering
<1>5. \A e \in Of(Watched) : e \in Ids /\ published[e].session = Watched
  BY DEF Of
<1>6. ASSUME Alive
      PROVE  /\ \A e \in Of(Watched) : Number(e) <= counters[Watched]
             /\ \A d, e \in Of(Watched) : d < e => Number(d) < Number(e)
  BY <1>1, <1>5, <1>6 DEF Numbering, Alive
<1>7. ASSUME Alive, NEW d \in Of(Watched), NEW e \in Of(Watched)
      PROVE  /\ d < e <=> Number(d) < Number(e)
             /\ Number(d) = Number(e) => d = e
  <2>1. d \in Nat /\ e \in Nat /\ Number(d) \in Nat /\ Number(e) \in Nat
    BY <1>4, <1>5
  <2>2. (d < e => Number(d) < Number(e)) /\ (e < d => Number(e) < Number(d))
    BY <1>6, <1>7
  <2>. QED
    BY <2>1, <2>2
<1>8. IsFiniteSet(Ids)
  BY <1>2, FS_Interval
<1>. QED
  BY <1>2, <1>3, <1>4, <1>5, <1>6, <1>7, <1>8

(* get_events finds what is stored, in the order of publication unless the   *)
(* retry worker has saved an event.                                          *)
LEMMA ReadRows ==
  ASSUME Pipe, NEW number, NEW list \in get_events(number)
  PROVE  /\ list \in Seq(Ids)
         /\ ToSet(list) = Later(number) \cap Stored
         /\ Steady => Mounting(list)
         /\ Calm => Rising(list)
<1> DEFINE R == {r \in rows : r.event \in Later(number)}
<1>1. PICK l \in SetToSeqs(R) :
        /\ \A i, j \in DOMAIN l : i < j => l[i].sequence <= l[j].sequence
        /\ list = [i \in DOMAIN l |-> l[i].event]
  BY DEF get_events
<1>2. TypeRest /\ IsFiniteSet(R)
  <2>1. TypeRest
    BY DEF Pipe, Inv
  <2>2. IsFiniteSet(rows) /\ R \subseteq rows
    BY <2>1 DEF TypeRest
  <2>. QED
    BY <2>1, <2>2, FS_Subset
<1>3. /\ l \in Seq(R) /\ ToSet(l) = R /\ DOMAIN l = 1 .. Len(l)
      /\ \A i, j \in DOMAIN l : i # j => l[i] # l[j]
  <2>. HIDE DEF R
  <2>. QED
    BY <1>2, Listing
<1>4. Len(l) \in Nat /\ \A i \in 1 .. Len(l) : l[i] \in R
  <2>. HIDE DEF R
  <2>. QED
    BY <1>3, LenProperties, ElementOfSeq
<1>5. /\ \A r \in R : r \in rows /\ r.event \in Later(number) /\ r.event \in Ids /\ r.event \in Nat
      /\ \A r \in R : r.sequence \in Nat
  BY <1>2, LenType DEF TypeRest
<1>6. list \in [1 .. Len(l) -> Ids]
  BY <1>1, <1>3, <1>4, <1>5
<1>7. list \in Seq(Ids) /\ Len(list) = Len(l) /\ DOMAIN list = 1 .. Len(l)
  BY <1>4, <1>6, SeqOfFunction
<1>8. \A i \in 1 .. Len(l) : list[i] = l[i].event
  BY <1>1, <1>3
<1>9. ToSet(list) = Later(number) \cap Stored
  <2>1. \A e \in ToSet(list) : \E i \in 1 .. Len(l) : e = l[i].event
    BY <1>7, <1>8 DEF ToSet
  <2>2. \A e \in ToSet(list) : e \in Later(number) \cap Stored
    BY <1>4, <1>5, <2>1 DEF Stored
  <2>3. ASSUME NEW e \in Later(number) \cap Stored
        PROVE  e \in ToSet(list)
    <3>1. PICK r \in R : r.event = e
      BY DEF Stored
    <3>2. PICK i \in 1 .. Len(l) : l[i] = r
      BY <1>3, <3>1 DEF ToSet
    <3>. QED
      BY <1>7, <1>8, <3>1, <3>2 DEF ToSet
  <2>. QED
    BY <2>2, <2>3
<1>10. ASSUME Steady, NEW i \in 1 .. Len(l), NEW j \in 1 .. Len(l), i < j
       PROVE  /\ list[i] <= list[j]
              /\ Calm => list[i] < list[j]
  <2>1. l[i] \in R /\ l[j] \in R /\ l[i] # l[j] /\ l[i].sequence <= l[j].sequence
    BY <1>1, <1>3, <1>4, <1>10
  <2>2. l[i] \in Batched /\ l[j] \in Batched
    BY <1>10, <2>1 DEF Steady, Batched
  <2>3. Calm => l[i].event # l[j].event
    BY <2>1 DEF Calm
  <2>4. l[j].sequence < l[i].sequence <=> l[j].event < l[i].event
    BY <1>10, <2>2 DEF Pipe, Rows, Numbered, Steady
  <2>5. /\ l[i].event \in Nat /\ l[j].event \in Nat
        /\ l[i].sequence \in Nat /\ l[j].sequence \in Nat
    BY <1>5, <2>1
  <2>. QED
    BY <1>8, <2>1, <2>3, <2>4, <2>5
<1>. QED
  BY <1>7, <1>9, <1>10, AliveFacts DEF Rising, Mounting

(* The list in Redis is read in order and in full, the table as it stands.   *)
LEMMA MissedFacts ==
  ASSUME Pipe, NEW missed \in MissedEvents
  PROVE  /\ missed.events \in Seq(Ids)
         /\ ToSet(missed.events) \subseteq Later(stream.resume)
         /\ \A e \in ToSet(missed.events) : published[e].reach # "none"
         /\ Steady => Mounting(missed.events)
         /\ Calm => Rising(missed.events)
         /\ stream.resume = 0 => missed.events = <<>>
         /\ \/ stream.resume = 0
            \/ missed.pg = 1
            \/ ToSet(missed.events) = Listed(stream.resume)
            \/ ToSet(missed.events) = Later(stream.resume) \cap Stored
<1>1. CASE missed.events = <<>> /\ (stream.resume = 0 \/ missed.pg = 1)
  <2>1. ToSet(<<>>) = {} /\ Rising(<<>>) /\ Mounting(<<>>) /\ <<>> \in Seq(Ids)
    BY DEF ToSet, Rising, Mounting
  <2>. QED
    BY <1>1, <2>1
<1>2. CASE stream.resume # 0 /\ missed.events \in InTurn(Listed(stream.resume))
  <2>1. Listed(stream.resume) \subseteq Ids /\ IsFiniteSet(Listed(stream.resume))
    <3>1. Listed(stream.resume) \subseteq Ids
      BY DEF Listed, Later, Of
    <3>. QED
      BY <3>1, Numerals, FS_Subset
  <2>2. /\ missed.events \in Seq(Listed(stream.resume))
        /\ ToSet(missed.events) = Listed(stream.resume) /\ Rising(missed.events)
    BY <1>2, <2>1, InTurnFacts
  <2>3. missed.events \in Seq(Ids) /\ Ids \subseteq Nat
    BY <2>1, <2>2, SeqMonotonic, LenType DEF Pipe, Inv
  <2>4. Mounting(missed.events)
    BY <2>2, <2>3, RisingMounts
  <2>. QED
    BY <1>2, <2>2, <2>3, <2>4 DEF Listed
<1>3. CASE stream.resume # 0 /\ missed.events \in get_events(stream.resume)
  <2>1. /\ missed.events \in Seq(Ids)
        /\ ToSet(missed.events) = Later(stream.resume) \cap Stored
        /\ Steady => Mounting(missed.events)
        /\ Calm => Rising(missed.events)
    BY <1>3, ReadRows
  <2>2. \A e \in Stored : published[e].reach = "all"
    BY DEF Pipe, AllTheWay
  <2>. QED
    BY <1>3, <2>1, <2>2
<1>4. \/ missed.events = <<>> /\ (stream.resume = 0 \/ missed.pg = 1)
      \/ stream.resume # 0 /\ missed.events \in InTurn(Listed(stream.resume))
      \/ stream.resume # 0 /\ missed.events \in get_events(stream.resume)
  BY DEF MissedEvents
<1>. QED
  BY <1>1, <1>2, <1>3, <1>4

----------------------------------------------------------------------------
(* The types of the stream.  What is sent comes from the session; the        *)
(* browser knows the last number it got; and the server holds events back    *)
(* for a replay only while it replays, or polls.                             *)
Sent == Got \cup ToSet(inbox) \cup ToSet(outbox)
Sources == \A e \in Sent : e \in Of(Watched) /\ published[e].reach # "none"
Resumes == lastEventId = IF got = <<>> THEN 0 ELSE Number(got[Len(got)])
Stages ==
  /\ stream.seen \subseteq 1 .. Len(published)
  /\ stream.stage = "live" /\ stream.via = "pubsub" => outbox = <<>>
  /\ stream.stage = "replaying" => outbox # <<>>
  /\ stream.stage = "connected" =>
       /\ stream.seen = {} /\ outbox = <<>> /\ stream.resume = lastEventId
       /\ stream.via = "polling" => stream.last_sequence = stream.resume
Typed == StreamTypeOK /\ Sources /\ Resumes /\ Stages

Streams == [stage : {"off", "connected", "replaying", "live", "closed"},
            via : {"pubsub", "polling"}, resume : Nat, seen : SUBSET Nat, last_sequence : Nat]

LEMMA Gots == Got = ToSet(got)
BY DEF Got, ToSet

LEMMA NoneListed == /\ ToSet(<<>>) = {} /\ Rising(<<>>) /\ Mounting(<<>>)
                    /\ \A S : <<>> \in Seq(S)
BY DEF ToSet, Rising, Mounting

LEMMA TypedInit == StreamInit => Typed
<1> SUFFICES ASSUME StreamInit PROVE Typed
  OBVIOUS
<1>1. /\ got = <<>> /\ inbox = <<>> /\ outbox = <<>> /\ lastEventId = 0
      /\ stream = [stage |-> "off", via |-> "pubsub", resume |-> 0, seen |-> {}, last_sequence |-> 0]
      /\ behind = 0 /\ connections = 0 /\ since = 0
  BY DEF StreamInit, Off
<1>2. StreamTypeOK
  BY <1>1, NoneListed, StreamAssumption DEF StreamTypeOK
<1>3. Sent = {}
  BY <1>1, NoneListed, Gots DEF Sent
<1>4. Resumes /\ Stages
  BY <1>1 DEF Resumes, Stages
<1>. QED
  BY <1>2, <1>3, <1>4 DEF Typed, Sources

(* Aside from the pipeline its events stay what they are.                    *)
LEMMA AsideFacts ==
  ASSUME Aside
  PROVE  /\ published' = published /\ Ids' = Ids /\ Of(Watched)' = Of(Watched)
         /\ \A e : Number(e)' = Number(e)
         /\ rows' = rows /\ Stored' = Stored /\ counters' = counters
BY DEF Aside, Ids, Of, Number, Stored

(* The messages of a step that the channel carries to the stream.            *)
LEMMA BesideFacts ==
  ASSUME Pipe, Beside(Next)
  PROVE  /\ Next /\ faults'.crash = faults.crash
         /\ UNCHANGED <<lastEventId, got, stream, outbox, behind, connections, since>>
         /\ \E list \in Seq(Ids') :
              /\ Rising(list) /\ ToSet(list) \subseteq NewIds
              /\ \A e \in ToSet(list) : /\ published'[e].session = Watched
                                        /\ published'[e].reach # "none"
              /\ \A e \in NewIds : published'[e].session = Watched /\ published'[e].reach = "all"
                                     => e \in ToSet(list)
              /\ inbox' = IF Subscribed THEN inbox \o list ELSE inbox
<1>1. /\ Next /\ faults'.crash = faults.crash /\ Hear
      /\ UNCHANGED <<lastEventId, got, stream, outbox, behind, connections, since>>
  BY DEF Beside
<1>2. PICK heard \in SUBSET {e \in NewIds : published'[e].session = Watched
                                            /\ published'[e].reach # "none"} :
        /\ \A e \in NewIds : published'[e].session = Watched /\ published'[e].reach = "all"
                               => e \in heard
        /\ \E list \in InTurn(heard) : inbox' = IF Subscribed THEN inbox \o list ELSE inbox
  BY <1>1 DEF Hear, NewIds
<1>3. PICK list \in InTurn(heard) : inbox' = IF Subscribed THEN inbox \o list ELSE inbox
  BY <1>2
<1>4. NewIds \subseteq Ids' /\ IsFiniteSet(NewIds)
  <2>1. Len(published) \in Nat /\ Len(published') \in Nat
    <3>1. published \in Seq(Announced) /\ published' \in Seq(Announced)
      BY <1>1, PipeNext DEF Pipe, Inv, TypeRest
    <3>. QED
      BY <3>1, LenProperties
  <2>. QED
    BY <2>1, FS_Interval DEF NewIds, Ids
<1>5. heard \subseteq NewIds /\ IsFiniteSet(heard) /\ heard \subseteq Ids'
  BY <1>4, FS_Subset
<1>6. list \in Seq(heard) /\ ToSet(list) = heard /\ Rising(list)
  BY <1>5, InTurnFacts
<1>7. list \in Seq(Ids')
  BY <1>5, <1>6, SeqMonotonic
<1>. QED
  BY <1>1, <1>2, <1>3, <1>5, <1>6, <1>7

LEMMA TypedBeside ==
  ASSUME Pipe, Typed, Beside(Next)
  PROVE  Typed'
<1>1. /\ Next /\ faults'.crash = faults.crash
      /\ UNCHANGED <<lastEventId, got, stream, outbox, behind, connections, since>>
  BY BesideFacts
<1>2. PICK list \in Seq(Ids') :
        /\ ToSet(list) \subseteq NewIds
        /\ \A e \in ToSet(list) : published'[e].session = Watched /\ published'[e].reach # "none"
        /\ inbox' = IF Subscribed THEN inbox \o list ELSE inbox
  BY BesideFacts
<1>3. /\ Len(published) <= Len(published')
      /\ \A e \in Ids : e \in Ids' /\ published'[e] = published[e]
  BY <1>1, Onward
<1>4. Ids \subseteq Ids' /\ \A e \in Of(Watched) : e \in Of(Watched)' /\ published'[e] = published[e]
  BY <1>3 DEF Of
<1>5. got \in Seq(Ids') /\ outbox \in Seq(Ids') /\ inbox \in Seq(Ids')
  BY <1>4, SeqMonotonic DEF Typed, StreamTypeOK
<1>6. inbox' \in Seq(Ids') /\ ToSet(inbox') \subseteq ToSet(inbox) \cup ToSet(list)
  BY <1>2, <1>5, Chained
<1>7. StreamTypeOK'
  BY <1>1, <1>2, <1>5, <1>6 DEF Typed, StreamTypeOK, Subscribed, Connected
<1>8. Sources'
  <2>1. \A e \in Got \cup ToSet(outbox) \cup ToSet(inbox) :
          e \in Of(Watched)' /\ published'[e].reach # "none"
    BY <1>4 DEF Typed, Sources, Sent
  <2>2. \A e \in ToSet(list) : e \in Of(Watched)' /\ published'[e].reach # "none"
    <3>1. \A e \in ToSet(list) : e \in Ids'
      BY ElementsOf
    <3>. QED
      BY <1>2, <3>1 DEF Of
  <2>3. Got' = Got /\ ToSet(outbox)' = ToSet(outbox)
    BY <1>1 DEF Got, ToSet
  <2>4. Sent' = Got' \cup ToSet(inbox') \cup ToSet(outbox)'
    BY DEF Sent
  <2>. QED
    BY <1>6, <2>1, <2>2, <2>3, <2>4 DEF Sources
<1>9. Resumes'
  <2>1. ASSUME got # <<>>
        PROVE  Number(got[Len(got)])' = Number(got[Len(got)])
    <3>1. Len(got) \in 1 .. Len(got)
      BY <2>1, EmptySeq DEF Typed, StreamTypeOK
    <3>2. got[Len(got)] \in Ids
      BY <3>1, ElementOfSeq DEF Typed, StreamTypeOK
    <3>. QED
      BY <1>1, <1>3, <3>2 DEF Number
  <2>. QED
    BY <1>1, <2>1 DEF Typed, Resumes
<1>10. Stages'
  <2>1. Len(published) \in Nat
    BY Numerals
  <2>2. 1 .. Len(published) \subseteq 1 .. Len(published')
    BY <1>3, <2>1
  <2>. QED
    BY <1>1, <2>2 DEF Typed, Stages
<1>. QED
  BY <1>7, <1>8, <1>9, <1>10 DEF Typed

(* A stream that ends holds nothing back.                                    *)
LEMMA TypedEnd ==
  ASSUME Pipe, Typed, published' = published, stream' \in {Off, stream}, stream' = Off \/ ~Connected,
         inbox' = <<>>, outbox' = <<>>, UNCHANGED <<lastEventId, got, behind, connections, since>>
  PROVE  Typed'
<1>1. Ids' = Ids /\ Of(Watched)' = Of(Watched) /\ \A e : Number(e)' = Number(e)
  BY DEF Ids, Of, Number
<1>2. stream'.stage \in {"off", "closed"} /\ stream'.seen \subseteq 1 .. Len(published)
      /\ stream' \in Streams
  BY DEF Typed, StreamTypeOK, Stages, Connected, Off, Streams
<1>3. StreamTypeOK'
  <2>1. <<>> \in Seq(Ids)
    BY NoneListed
  <2>. QED
    BY <1>1, <1>2, <2>1 DEF Typed, StreamTypeOK, Streams
<1>4. Sent' = Got
  BY NoneListed DEF Sent, Got, ToSet
<1>5. Sources' /\ Resumes' /\ Stages'
  BY <1>1, <1>2, <1>4 DEF Typed, Sources, Sent, Resumes, Stages
<1>. QED
  BY <1>3, <1>5 DEF Typed

LEMMA ConnectFacts ==
  ASSUME Pipe, Typed, Connect
  PROVE  /\ Aside /\ stream.stage = "off" /\ inbox = <<>> /\ outbox = <<>>
         /\ UNCHANGED <<lastEventId, got, inbox, outbox, behind>>
         /\ connections' = connections + 1 /\ connections \in Nat
         /\ connections + 1 \in 0 .. MaxConnections
         /\ since' = IF lastEventId = 0 THEN Len(published) ELSE since
         /\ stream'.stage = "connected" /\ stream'.seen = {} /\ stream'.resume = lastEventId
         /\ stream'.via = "polling" => stream'.last_sequence = lastEventId
         /\ stream'.last_sequence \in {0, lastEventId}
         /\ stream' \in Streams
<1>1. Aside
  BY StreamAside
<1>2. PICK redis \in {0, 1} :
        stream' = [Off EXCEPT !.stage = "connected", !.resume = lastEventId,
                     !.via = IF redis = 0 THEN "pubsub" ELSE "polling",
                     !.last_sequence = IF redis = 0 THEN 0 ELSE lastEventId]
  BY DEF Connect
<1>3. stream.stage = "off" /\ inbox = <<>> /\ outbox = <<>>
  BY DEF Connect, Typed, StreamTypeOK, Subscribed, Connected
<1>4. lastEventId \in Nat /\ connections \in 0 .. MaxConnections /\ MaxConnections \in Nat
  BY StreamAssumption DEF Typed, StreamTypeOK
<1>5. connections < MaxConnections
  BY DEF Connect
<1>6. connections \in Nat /\ connections + 1 \in 0 .. MaxConnections
  BY <1>4, <1>5
<1>7. /\ stream'.stage = "connected" /\ stream'.seen = {} /\ stream'.resume = lastEventId
      /\ stream'.via = "polling" => stream'.last_sequence = lastEventId
      /\ stream'.last_sequence \in {0, lastEventId}
      /\ stream' \in Streams
  BY <1>2, <1>4 DEF Off, Streams
<1>. QED
  BY <1>1, <1>3, <1>6, <1>7 DEF Connect

LEMMA TypedConnect ==
  ASSUME Pipe, Typed, Connect
  PROVE  Typed'
<1>1. /\ Aside /\ inbox = <<>> /\ outbox = <<>>
      /\ UNCHANGED <<lastEventId, got, inbox, outbox, behind>>
      /\ connections' = connections + 1 /\ connections \in Nat
      /\ connections + 1 \in 0 .. MaxConnections
      /\ since' \in {Len(published), since}
      /\ stream'.stage = "connected" /\ stream'.seen = {} /\ stream'.resume = lastEventId
      /\ stream'.via = "polling" => stream'.last_sequence = lastEventId
      /\ stream' \in Streams
  BY ConnectFacts
<1>2. /\ published' = published /\ Ids' = Ids /\ Of(Watched)' = Of(Watched)
      /\ \A e : Number(e)' = Number(e)
  BY <1>1, AsideFacts
<1>3. behind \in 0 .. connections'
  <2>1. behind \in 0 .. connections
    BY DEF Typed, StreamTypeOK
  <2>. QED
    BY <1>1, <2>1
<1>4. StreamTypeOK'
  <2>1. since' \in Nat
    BY <1>1, Numerals DEF Typed, StreamTypeOK
  <2>. QED
    BY <1>1, <1>2, <1>3, <2>1 DEF Typed, StreamTypeOK, Streams
<1>5. Sent' = Sent
  BY <1>1 DEF Sent, Got, ToSet
<1>6. Sources' /\ Resumes' /\ Stages'
  BY <1>1, <1>2, <1>5 DEF Typed, Sources, Resumes, Stages
<1>. QED
  BY <1>4, <1>6 DEF Typed

(* The highest number of a replay or a batch.                                *)
LEMMA HighestNumber ==
  ASSUME Pipe, NEW list \in Seq(Ids), NEW n \in Nat
  PROVE  /\ \A m \in Numbers(list) : \E e \in ToSet(list) : m = Number(e)
         /\ \A e \in ToSet(list) : Number(e) \in Numbers(list)
         /\ LET top == Max({n} \cup Numbers(list)) IN
              /\ top \in Nat /\ n <= top
              /\ top = n \/ \E e \in ToSet(list) : top = Number(e)
              /\ \A e \in ToSet(list) : Number(e) <= top
         /\ list # <<>> =>
              LET top == Max(Numbers(list)) IN
                /\ top \in Nat
                /\ \E e \in ToSet(list) : top = Number(e)
                /\ \A e \in ToSet(list) : Number(e) <= top
<1> DEFINE N == Numbers(list)
           b == n + Len(published)
<1>1. /\ \A m \in N : \E e \in ToSet(list) : m = Number(e)
      /\ \A e \in ToSet(list) : Number(e) \in N
  BY DEF Numbers, ToSet
<1>2. \A e \in ToSet(list) : e \in Ids
  BY ElementsOf
<1>3. b \in Nat /\ Len(published) \in Nat /\ \A e \in Ids : Number(e) \in 1 .. Len(published)
  BY Numerals
<1>4. \A m \in N : m \in 0 .. b
  BY <1>1, <1>2, <1>3
<1>5. N \in SUBSET (0 .. b) /\ {n} \cup N \in SUBSET (0 .. b) /\ {n} \cup N # {}
  BY <1>3, <1>4
<1>. HIDE DEF N, b
<1>6. Max({n} \cup N) \in {n} \cup N /\ \A y \in {n} \cup N : y <= Max({n} \cup N)
  BY <1>3, <1>5, Largest
<1>7. ASSUME list # <<>>
      PROVE  Max(N) \in N /\ \A y \in N : y <= Max(N)
  <2>1. ToSet(list) # {}
    BY <1>7, ElementsOf
  <2>2. N # {}
    BY <1>1, <2>1
  <2>. QED
    BY <1>3, <1>5, <2>2, Largest
<1>8. \A m \in N : m \in Nat
  BY <1>4, <1>3
<1>. QED
  BY <1>1, <1>6, <1>7, <1>8 DEF N

LEMMA ReplayFacts ==
  ASSUME Pipe, Typed, Replay
  PROVE  /\ Aside /\ stream.stage = "connected" /\ stream.seen = {} /\ outbox = <<>>
         /\ stream.resume = lastEventId
         /\ UNCHANGED <<lastEventId, got, inbox, connections, since>>
         /\ behind' = IF behind = 0 /\ FallsShort(outbox') THEN connections ELSE behind
         /\ stream'.stage = IF outbox' = <<>> THEN "live" ELSE "replaying"
         /\ stream'.via = stream.via /\ stream'.resume = stream.resume /\ stream'.seen = {}
         /\ stream'.last_sequence = IF stream.via = "polling"
              THEN Max({stream.resume} \cup Numbers(outbox')) ELSE stream.last_sequence
         /\ stream' \in Streams
         /\ outbox' \in Seq(Ids)
         /\ ToSet(outbox') \subseteq Later(stream.resume)
         /\ \A e \in ToSet(outbox') : published[e].reach # "none"
         /\ Steady => Mounting(outbox')
         /\ Calm => Rising(outbox')
         /\ stream.resume = 0 => outbox' = <<>>
         /\ \/ stream.resume = 0
            \/ ~Unrefused'
            \/ ToSet(outbox') = Listed(stream.resume)
            \/ ToSet(outbox') = Later(stream.resume) \cap Stored
<1>1. Aside
  BY StreamAside DEF Serve
<1>2. PICK missed \in MissedEvents :
       /\ Spend(missed.pg, 0, missed.redis)
       /\ outbox' = missed.events
       /\ stream' = [stream EXCEPT
            !.stage = IF missed.events = <<>> THEN "live" ELSE "replaying",
            !.last_sequence = IF stream.via = "polling"
              THEN Max({@} \cup Numbers(missed.events)) ELSE @]
       /\ behind' = IF behind = 0 /\ FallsShort(missed.events) THEN connections ELSE behind
  BY DEF Replay
<1>3. /\ stream.stage = "connected" /\ stream.seen = {} /\ outbox = <<>>
      /\ stream.resume = lastEventId
      /\ stream.via = "polling" => stream.last_sequence = stream.resume
      /\ stream \in Streams
  BY DEF Replay, Typed, Stages, StreamTypeOK, Streams
<1>4. /\ outbox' \in Seq(Ids)
      /\ ToSet(outbox') \subseteq Later(stream.resume)
      /\ \A e \in ToSet(outbox') : published[e].reach # "none"
      /\ Steady => Mounting(outbox')
      /\ Calm => Rising(outbox')
      /\ stream.resume = 0 => outbox' = <<>>
      /\ \/ stream.resume = 0
         \/ missed.pg = 1
         \/ ToSet(outbox') = Listed(stream.resume)
         \/ ToSet(outbox') = Later(stream.resume) \cap Stored
  BY <1>2, MissedFacts
<1>5. missed.pg = 1 => ~Unrefused'
  <2>1. missed.pg \in Nat /\ missed.redis \in Nat /\ 0 \in Nat
    BY MissedCosts
  <2>2. faults'.pg = faults.pg + missed.pg /\ faults'.crash = faults.crash
    BY <1>2, <2>1, SpendFacts DEF Paid, Pipe, Inv
  <2>3. faults.pg \in Nat /\ faults.crash \in Nat
    BY HarmType DEF Pipe, Inv
  <2>. QED
    BY <2>2, <2>3 DEF Unrefused
<1>6. Max({stream.resume} \cup Numbers(outbox')) \in Nat
  BY <1>3, <1>4, HighestNumber DEF Streams
<1>7. /\ stream'.stage = IF outbox' = <<>> THEN "live" ELSE "replaying"
      /\ stream'.via = stream.via /\ stream'.resume = stream.resume /\ stream'.seen = {}
      /\ stream'.last_sequence = IF stream.via = "polling"
           THEN Max({stream.resume} \cup Numbers(outbox')) ELSE stream.last_sequence
      /\ stream' \in Streams
  BY <1>2, <1>3, <1>6 DEF Streams
<1>. QED
  BY <1>1, <1>2, <1>3, <1>4, <1>5, <1>7 DEF Replay

LEMMA TypedReplay ==
  ASSUME Pipe, Typed, Replay
  PROVE  Typed'
<1>1. /\ Aside
      /\ UNCHANGED <<lastEventId, got, inbox, connections, since>>
      /\ behind' \in {connections, behind}
      /\ stream.stage = "connected"
      /\ stream'.stage = IF outbox' = <<>> THEN "live" ELSE "replaying"
      /\ stream'.via = stream.via /\ stream'.seen = {}
      /\ stream' \in Streams
      /\ outbox' \in Seq(Ids)
      /\ ToSet(outbox') \subseteq Later(stream.resume)
      /\ \A e \in ToSet(outbox') : published[e].reach # "none"
  BY ReplayFacts
<1>2. /\ published' = published /\ Ids' = Ids /\ Of(Watched)' = Of(Watched)
      /\ \A e : Number(e)' = Number(e)
  BY <1>1, AsideFacts
<1>3. StreamTypeOK'
  <2>1. behind' \in 0 .. connections /\ connections \in 0 .. MaxConnections
    BY <1>1 DEF Typed, StreamTypeOK
  <2>2. stream.via # "pubsub" => inbox = <<>>
    BY DEF Typed, StreamTypeOK, Subscribed
  <2>. QED
    BY <1>1, <1>2, <2>1, <2>2 DEF Typed, StreamTypeOK, Streams, Subscribed, Connected
<1>4. Sources'
  <2>1. Sent' = Got \cup ToSet(inbox) \cup ToSet(outbox')
    BY <1>1 DEF Sent, Got
  <2>2. \A e \in ToSet(outbox') : e \in Of(Watched)
    BY <1>1 DEF Later
  <2>. QED
    BY <1>1, <1>2, <2>1, <2>2 DEF Typed, Sources, Sent
<1>5. Resumes' /\ Stages'
  BY <1>1, <1>2 DEF Typed, Resumes, Stages
<1>. QED
  BY <1>3, <1>4, <1>5 DEF Typed

(* An event is sent.                                                         *)
LEMMA YieldFacts ==
  ASSUME Pipe, Typed, NEW e \in Sent, Aside, Yield(e)
  PROVE  /\ e \in Of(Watched) /\ e \in Ids /\ Number(e) \in 1 .. Len(published)
         /\ published[e].reach # "none"
         /\ got' \in Seq(Ids) /\ Got' = Got \cup {e}
         /\ lastEventId' \in Nat /\ Resumes'
<1>1. e \in Of(Watched) /\ published[e].reach # "none"
  BY DEF Typed, Sources
<1>2. e \in Ids /\ Number(e) \in 1 .. Len(published) /\ Number(e) \in Nat
  BY <1>1, Numerals
<1>3. got \in Seq(Ids)
  BY DEF Typed, StreamTypeOK
<1>4. got' = Append(got, e) /\ lastEventId' = Number(e) /\ Number(e)' = Number(e)
  BY AsideFacts DEF Yield
<1>5. /\ Append(got, e) \in Seq(Ids) /\ ToSet(Append(got, e)) = ToSet(got) \cup {e}
      /\ Append(got, e) # <<>> /\ Append(got, e)[Len(Append(got, e))] = e
  BY <1>2, <1>3, Appended
<1>6. Got' = Got \cup {e}
  BY <1>4, <1>5, Gots DEF Got, ToSet
<1>7. Resumes'
  BY <1>4, <1>5 DEF Resumes
<1>. QED
  BY <1>1, <1>2, <1>4, <1>5, <1>6, <1>7

(* The stream goes on, or ends, with an event that it sends.                 *)
Goes(e) ==
  /\ Yield(e)
  /\ stream'.stage = stream.stage /\ stream'.via = stream.via /\ stream'.resume = stream.resume
  /\ stream'.last_sequence = stream.last_sequence
  /\ stream'.seen = stream.seen \cup {Number(e)}
Ends(e) == Yield(e) /\ stream' = [Off EXCEPT !.stage = "closed"]

LEMMA SendReplayedFacts ==
  ASSUME Pipe, Typed, SendReplayed
  PROVE  /\ Aside /\ stream.stage = "replaying"
         /\ outbox \in Seq(Ids) /\ outbox # <<>> /\ Head(outbox) \in Sent
         /\ outbox' = Tail(outbox)
         /\ Yield(Head(outbox))
         /\ UNCHANGED <<inbox, behind, connections, since>>
         /\ stream'.stage = IF outbox' = <<>> THEN "live" ELSE "replaying"
         /\ stream'.via = stream.via /\ stream'.resume = stream.resume
         /\ stream'.last_sequence = stream.last_sequence
         /\ stream'.seen = stream.seen \cup {Number(Head(outbox))}
         /\ stream' \in Streams
<1>1. Aside
  BY StreamAside DEF Serve
<1>2. /\ stream.stage = "replaying" /\ outbox \in Seq(Ids) /\ outbox # <<>> /\ stream \in Streams
      /\ Yield(Head(outbox)) /\ outbox' = Tail(outbox)
      /\ stream' = [stream EXCEPT !.seen = @ \cup {Number(Head(outbox))},
                                  !.stage = IF Len(outbox) = 1 THEN "live" ELSE @]
      /\ UNCHANGED <<inbox, behind, connections, since>>
  BY DEF SendReplayed, Typed, Stages, StreamTypeOK, Streams
<1>3. Head(outbox) \in Sent /\ (Len(outbox) = 1 <=> outbox' = <<>>)
  BY <1>2, Heads DEF Sent
<1>4. Number(Head(outbox)) \in Nat
  BY <1>3, Numerals DEF Typed, Sources
<1>5. /\ stream'.stage = IF outbox' = <<>> THEN "live" ELSE "replaying"
      /\ stream'.via = stream.via /\ stream'.resume = stream.resume
      /\ stream'.last_sequence = stream.last_sequence
      /\ stream'.seen = stream.seen \cup {Number(Head(outbox))}
      /\ stream' \in Streams
  BY <1>2, <1>3, <1>4 DEF Streams
<1>. QED
  BY <1>1, <1>2, <1>3, <1>5

LEMMA DeliverFacts ==
  ASSUME Pipe, Typed, NEW e \in Sent, NEW closed \in BOOLEAN, Yield(e),
         stream' = IF closed THEN [Off EXCEPT !.stage = "closed"]
                   ELSE [stream EXCEPT !.seen = @ \cup {Number(e)}]
  PROVE  /\ IF closed THEN Ends(e) ELSE Goes(e)
         /\ stream' \in Streams
<1>1. stream \in Streams /\ Number(e) \in Nat
  BY Numerals DEF Typed, Sources, StreamTypeOK, Streams
<1>2. CASE closed
  BY <1>2 DEF Ends, Off, Streams
<1>3. CASE ~closed
  BY <1>1, <1>3 DEF Goes, Streams
<1>. QED
  BY <1>2, <1>3

LEMMA SendHeardFacts ==
  ASSUME Pipe, Typed, SendHeard
  PROVE  /\ Aside /\ stream.stage = "live" /\ stream.via = "pubsub" /\ outbox = <<>>
         /\ inbox \in Seq(Ids) /\ inbox # <<>> /\ Head(inbox) \in Sent
         /\ UNCHANGED <<outbox, behind, connections, since>>
         /\ stream' \in Streams
         /\ \/ /\ Number(Head(inbox)) \in stream.seen
               /\ inbox' = Tail(inbox) /\ UNCHANGED <<lastEventId, got, stream>>
            \/ /\ Number(Head(inbox)) \notin stream.seen
               /\ inbox' = Tail(inbox) /\ Goes(Head(inbox))
            \/ inbox' = <<>> /\ Ends(Head(inbox)) /\ Number(Head(inbox)) \notin stream.seen
<1>1. Aside
  BY StreamAside DEF Serve
<1>2. /\ stream.stage = "live" /\ stream.via = "pubsub" /\ outbox = <<>>
      /\ inbox \in Seq(Ids) /\ inbox # <<>> /\ stream \in Streams
      /\ UNCHANGED <<outbox, behind, connections, since>>
      /\ Deliver(Head(inbox), inbox)
  BY DEF SendHeard, Typed, Stages, StreamTypeOK, Streams
<1>3. Head(inbox) \in Sent
  BY <1>2, Heads DEF Sent
<1>4. CASE Number(Head(inbox)) \in stream.seen
  BY <1>1, <1>2, <1>3, <1>4 DEF Deliver
<1>5. CASE Number(Head(inbox)) \notin stream.seen
  <2>1. PICK closed \in BOOLEAN :
          /\ Yield(Head(inbox))
          /\ stream' = IF closed THEN [Off EXCEPT !.stage = "closed"]
                       ELSE [stream EXCEPT !.seen = @ \cup {Number(Head(inbox))}]
          /\ inbox' = IF closed THEN <<>> ELSE Tail(inbox)
    BY <1>2, <1>5 DEF Deliver, Closes
  <2>2. (IF closed THEN Ends(Head(inbox)) ELSE Goes(Head(inbox))) /\ stream' \in Streams
    BY <1>3, <2>1, DeliverFacts
  <2>. QED
    BY <1>1, <1>2, <1>3, <1>5, <2>1, <2>2
<1>. QED
  BY <1>4, <1>5

LEMMA SendPolledFacts ==
  ASSUME Pipe, Typed, SendPolled
  PROVE  /\ Aside /\ stream.stage = "live" /\ stream.via = "polling" /\ inbox = <<>>
         /\ outbox \in Seq(Ids) /\ outbox # <<>> /\ Head(outbox) \in Sent
         /\ UNCHANGED <<inbox, behind, connections, since>>
         /\ stream' \in Streams
         /\ \/ /\ Number(Head(outbox)) \in stream.seen
               /\ outbox' = Tail(outbox) /\ UNCHANGED <<lastEventId, got, stream>>
            \/ /\ Number(Head(outbox)) \notin stream.seen
               /\ outbox' = Tail(outbox) /\ Goes(Head(outbox))
            \/ outbox' = <<>> /\ Ends(Head(outbox)) /\ Number(Head(outbox)) \notin stream.seen
<1>1. Aside
  BY StreamAside DEF Serve
<1>2. /\ stream.stage = "live" /\ stream.via = "polling" /\ inbox = <<>>
      /\ outbox \in Seq(Ids) /\ outbox # <<>> /\ stream \in Streams
      /\ UNCHANGED <<inbox, behind, connections, since>>
      /\ Deliver(Head(outbox), outbox)
  BY DEF SendPolled, Typed, StreamTypeOK, Streams, Subscribed
<1>3. Head(outbox) \in Sent
  BY <1>2, Heads DEF Sent
<1>4. CASE Number(Head(outbox)) \in stream.seen
  BY <1>1, <1>2, <1>3, <1>4 DEF Deliver
<1>5. CASE Number(Head(outbox)) \notin stream.seen
  <2>1. PICK closed \in BOOLEAN :
          /\ Yield(Head(outbox))
          /\ stream' = IF closed THEN [Off EXCEPT !.stage = "closed"]
                       ELSE [stream EXCEPT !.seen = @ \cup {Number(Head(outbox))}]
          /\ outbox' = IF closed THEN <<>> ELSE Tail(outbox)
    BY <1>2, <1>5 DEF Deliver, Closes
  <2>2. (IF closed THEN Ends(Head(outbox)) ELSE Goes(Head(outbox))) /\ stream' \in Streams
    BY <1>3, <2>1, DeliverFacts
  <2>. QED
    BY <1>1, <1>2, <1>3, <1>5, <2>1, <2>2
<1>. QED
  BY <1>4, <1>5

LEMMA TypedSendReplayed ==
  ASSUME Pipe, Typed, SendReplayed
  PROVE  Typed'
<1> DEFINE e == Head(outbox)
<1>1. /\ Aside /\ stream.stage = "replaying"
      /\ outbox \in Seq(Ids) /\ outbox # <<>> /\ e \in Sent
      /\ outbox' = Tail(outbox)
      /\ Yield(e)
      /\ UNCHANGED <<inbox, behind, connections, since>>
      /\ stream'.stage = IF outbox' = <<>> THEN "live" ELSE "replaying"
      /\ stream'.via = stream.via /\ stream'.seen = stream.seen \cup {Number(e)}
      /\ stream' \in Streams
  BY SendReplayedFacts
<1>2. /\ published' = published /\ Ids' = Ids /\ Of(Watched)' = Of(Watched)
  BY <1>1, AsideFacts
<1>3. /\ e \in Of(Watched) /\ Number(e) \in 1 .. Len(published) /\ published[e].reach # "none"
      /\ got' \in Seq(Ids) /\ Got' = Got \cup {e}
      /\ lastEventId' \in Nat /\ Resumes'
  BY <1>1, YieldFacts
<1>4. outbox' \in Seq(Ids) /\ ToSet(outbox') \subseteq ToSet(outbox)
  BY <1>1, Heads
<1>. HIDE DEF e
<1>5. StreamTypeOK'
  BY <1>1, <1>2, <1>3, <1>4 DEF Typed, StreamTypeOK, Streams, Subscribed, Connected
<1>6. Sources'
  <2>1. Sent' = Got' \cup ToSet(inbox) \cup ToSet(outbox')
    BY <1>1 DEF Sent
  <2>. QED
    BY <1>2, <1>3, <1>4, <2>1 DEF Typed, Sources, Sent
<1>7. Stages'
  BY <1>1, <1>2, <1>3 DEF Typed, Stages
<1>. QED
  BY <1>3, <1>5, <1>6, <1>7 DEF Typed

(* What is delivered out of a live stream's queue.                           *)
LEMMA TypedLive ==
  ASSUME Pipe, Typed, NEW e \in Sent, Aside, stream.stage = "live",
         UNCHANGED <<behind, connections, since>>, stream' \in Streams,
         inbox' \in Seq(Ids), outbox' \in Seq(Ids),
         ToSet(inbox') \subseteq ToSet(inbox), ToSet(outbox') \subseteq ToSet(outbox),
         \/ UNCHANGED <<lastEventId, got, stream>>
         \/ Goes(e)
         \/ Ends(e) /\ inbox' = <<>> /\ outbox' = <<>>
  PROVE  Typed'
<1>1. published' = published /\ Ids' = Ids /\ Of(Watched)' = Of(Watched) /\ \A x : Number(x)' = Number(x)
  BY AsideFacts
<1>2. /\ inbox = <<>> => inbox' = <<>>
      /\ outbox = <<>> => outbox' = <<>>
  BY NoneListed, ElementsOf
<1>3. CASE UNCHANGED <<lastEventId, got, stream>>
  <2>1. StreamTypeOK'
    BY <1>1, <1>2, <1>3 DEF Typed, StreamTypeOK, Subscribed, Connected
  <2>2. Sent' = Got \cup ToSet(inbox') \cup ToSet(outbox')
    BY <1>3 DEF Sent, Got
  <2>3. Sources' /\ Resumes' /\ Stages'
    BY <1>1, <1>2, <1>3, <2>2 DEF Typed, Sources, Sent, Resumes, Stages
  <2>. QED
    BY <2>1, <2>3 DEF Typed
<1>4. CASE Goes(e) \/ (Ends(e) /\ inbox' = <<>> /\ outbox' = <<>>)
  <2>1. Yield(e)
    BY <1>4 DEF Goes, Ends
  <2>2. /\ e \in Of(Watched) /\ Number(e) \in 1 .. Len(published) /\ published[e].reach # "none"
        /\ got' \in Seq(Ids) /\ Got' = Got \cup {e}
        /\ lastEventId' \in Nat /\ Resumes'
    BY <2>1, YieldFacts
  <2>3. Sent' = Got' \cup ToSet(inbox') \cup ToSet(outbox')
    BY DEF Sent
  <2>4. Sources'
    BY <1>1, <2>2, <2>3 DEF Typed, Sources, Sent
  <2>5. CASE Goes(e)
    <3>1. StreamTypeOK'
      BY <1>1, <1>2, <2>2, <2>5 DEF Typed, StreamTypeOK, Subscribed, Connected, Streams, Goes
    <3>2. Stages'
      BY <1>1, <1>2, <2>2, <2>5 DEF Typed, Stages, Goes
    <3>. QED
      BY <2>2, <2>4, <3>1, <3>2 DEF Typed
  <2>6. CASE Ends(e) /\ inbox' = <<>> /\ outbox' = <<>>
    <3>1. StreamTypeOK'
      BY <1>1, <2>2, <2>6 DEF Typed, StreamTypeOK, Streams, Ends, Off
    <3>2. Stages'
      BY <2>6 DEF Stages, Ends, Off
    <3>. QED
      BY <2>2, <2>4, <3>1, <3>2 DEF Typed
  <2>. QED
    BY <1>4, <2>5, <2>6
<1>. QED
  BY <1>3, <1>4

LEMMA TypedSendHeard ==
  ASSUME Pipe, Typed, SendHeard
  PROVE  Typed'
<1>1. /\ Aside /\ stream.stage = "live" /\ outbox = <<>>
      /\ inbox \in Seq(Ids) /\ inbox # <<>> /\ Head(inbox) \in Sent
      /\ UNCHANGED <<outbox, behind, connections, since>>
      /\ stream' \in Streams
      /\ \/ inbox' = Tail(inbox) /\ UNCHANGED <<lastEventId, got, stream>>
         \/ inbox' = Tail(inbox) /\ Goes(Head(inbox))
         \/ inbox' = <<>> /\ Ends(Head(inbox))
  BY SendHeardFacts
<1>2. inbox' \in Seq(Ids) /\ ToSet(inbox') \subseteq ToSet(inbox)
  <2>1. Tail(inbox) \in Seq(Ids) /\ ToSet(Tail(inbox)) \subseteq ToSet(inbox)
    BY <1>1, Heads
  <2>. QED
    BY <1>1, <2>1, NoneListed
<1>. QED
  BY <1>1, <1>2, NoneListed, TypedLive

LEMMA TypedSendPolled ==
  ASSUME Pipe, Typed, SendPolled
  PROVE  Typed'
<1>1. /\ Aside /\ stream.stage = "live" /\ inbox = <<>>
      /\ outbox \in Seq(Ids) /\ outbox # <<>> /\ Head(outbox) \in Sent
      /\ UNCHANGED <<inbox, behind, connections, since>>
      /\ stream' \in Streams
      /\ \/ outbox' = Tail(outbox) /\ UNCHANGED <<lastEventId, got, stream>>
         \/ outbox' = Tail(outbox) /\ Goes(Head(outbox))
         \/ outbox' = <<>> /\ Ends(Head(outbox))
  BY SendPolledFacts
<1>2. outbox' \in Seq(Ids) /\ ToSet(outbox') \subseteq ToSet(outbox)
  <2>1. Tail(outbox) \in Seq(Ids) /\ ToSet(Tail(outbox)) \subseteq ToSet(outbox)
    BY <1>1, Heads
  <2>. QED
    BY <1>1, <2>1, NoneListed
<1>. QED
  BY <1>1, <1>2, NoneListed, TypedLive

LEMMA PollFacts ==
  ASSUME Pipe, Typed, Poll
  PROVE  /\ Aside /\ stream.stage = "live" /\ stream.via = "polling" /\ outbox = <<>>
         /\ UNCHANGED <<lastEventId, got, inbox, behind, connections, since>>
         /\ stream'.stage = "live" /\ stream'.via = "polling"
         /\ stream'.resume = stream.resume /\ stream'.seen = stream.seen
         /\ stream'.last_sequence = Max(Numbers(outbox')) /\ stream' \in Streams
         /\ outbox' \in Seq(Ids) /\ outbox' # <<>>
         /\ ToSet(outbox') \subseteq Later(stream.last_sequence) \cap Stored
         /\ Calm => Rising(outbox')
         /\ Steady => /\ Mounting(outbox')
                      /\ \A x \in ToSet(outbox'), y \in Later(stream.last_sequence) \cap Stored :
                           y \in ToSet(outbox') \/ x < y
<1>1. Aside
  BY StreamAside DEF Serve
<1>2. PICK new \in get_events(stream.last_sequence) :
       /\ new # <<>>
       /\ outbox' = SubSeq(new, 1, Min({batch_size, Len(new)}))
       /\ stream' = [stream EXCEPT !.last_sequence = Max(Numbers(outbox'))]
  BY DEF Poll
<1>3. /\ new \in Seq(Ids)
      /\ ToSet(new) = Later(stream.last_sequence) \cap Stored
      /\ Steady => Mounting(new)
      /\ Calm => Rising(new)
  BY ReadRows
<1>4. Min({batch_size, Len(new)}) \in 1 .. Len(new)
  <2>1. batch_size \in Nat \ {0} /\ Len(new) \in Nat \ {0}
    BY <1>2, <1>3, StreamAssumption, EmptySeq
  <2>2. \E m \in {batch_size, Len(new)} : \A y \in {batch_size, Len(new)} : m =< y
    BY <2>1
  <2>3. /\ Min({batch_size, Len(new)}) \in {batch_size, Len(new)}
        /\ \A y \in {batch_size, Len(new)} : Min({batch_size, Len(new)}) =< y
    BY <2>2 DEF Min
  <2>. QED
    BY <2>1, <2>3
<1>5. Ids \subseteq Nat
  BY Numerals
<1>6. /\ outbox' \in Seq(Ids) /\ outbox' # <<>> /\ ToSet(outbox') \subseteq ToSet(new)
      /\ Rising(new) => Rising(outbox')
      /\ Mounting(new) => /\ Mounting(outbox')
                          /\ \A x \in ToSet(outbox'), y \in ToSet(new) : y \in ToSet(outbox') \/ x < y
  BY <1>2, <1>3, <1>4, <1>5, Beginning
<1>7. Max(Numbers(outbox')) \in Nat
  BY <1>6, HighestNumber
<1>8. /\ stream.stage = "live" /\ stream.via = "polling" /\ outbox = <<>> /\ stream \in Streams
      /\ UNCHANGED <<lastEventId, got, inbox, behind, connections, since>>
  BY DEF Poll, Typed, StreamTypeOK, Streams
<1>9. /\ stream'.stage = "live" /\ stream'.via = "polling"
      /\ stream'.resume = stream.resume /\ stream'.seen = stream.seen
      /\ stream'.last_sequence = Max(Numbers(outbox')) /\ stream' \in Streams
  BY <1>2, <1>7, <1>8 DEF Streams
<1>. QED
  BY <1>1, <1>3, <1>6, <1>8, <1>9

LEMMA TypedPoll ==
  ASSUME Pipe, Typed, Poll
  PROVE  Typed'
<1>1. /\ Aside /\ stream.stage = "live" /\ stream.via = "polling" /\ outbox = <<>>
      /\ UNCHANGED <<lastEventId, got, inbox, behind, connections, since>>
      /\ stream'.stage = "live" /\ stream'.via = "polling" /\ stream'.seen = stream.seen
      /\ stream' \in Streams
      /\ outbox' \in Seq(Ids)
      /\ ToSet(outbox') \subseteq Later(stream.last_sequence) \cap Stored
  BY PollFacts
<1>2. /\ published' = published /\ Ids' = Ids /\ Of(Watched)' = Of(Watched)
      /\ \A e : Number(e)' = Number(e)
  BY <1>1, AsideFacts
<1>3. StreamTypeOK'
  BY <1>1, <1>2 DEF Typed, StreamTypeOK, Streams, Subscribed, Connected
<1>4. Sources'
  <2>1. Sent' = Got \cup ToSet(inbox) \cup ToSet(outbox')
    BY <1>1 DEF Sent, Got
  <2>2. \A e \in ToSet(outbox') : e \in Of(Watched) /\ published[e].reach # "none"
    BY <1>1 DEF Later, Pipe, AllTheWay
  <2>. QED
    BY <1>2, <2>1, <2>2 DEF Typed, Sources, Sent
<1>5. Resumes' /\ Stages'
  BY <1>1, <1>2 DEF Typed, Resumes, Stages
<1>. QED
  BY <1>3, <1>4, <1>5 DEF Typed

LEMMA RedisErrorFacts ==
  ASSUME Pipe, Typed, RedisError
  PROVE  /\ Aside /\ stream.stage = "live" /\ stream.via = "pubsub" /\ outbox = <<>>
         /\ UNCHANGED <<lastEventId, got, outbox, behind, connections, since>>
         /\ inbox' = <<>>
         /\ stream'.stage = "live" /\ stream'.via = "polling"
         /\ stream'.resume = stream.resume /\ stream'.seen = stream.seen
         /\ stream' \in Streams
         /\ \/ stream.seen = {} /\ stream'.last_sequence = stream.resume
            \/ /\ stream'.last_sequence \in stream.seen
               /\ \A n \in stream.seen : n <= stream'.last_sequence
<1>1. Aside
  BY StreamAside
<1>2. /\ stream.stage = "live" /\ stream.via = "pubsub" /\ outbox = <<>> /\ stream \in Streams
      /\ stream' = [stream EXCEPT !.via = "polling",
           !.last_sequence = IF stream.seen = {} THEN stream.resume ELSE Max(stream.seen)]
      /\ inbox' = <<>>
      /\ UNCHANGED <<lastEventId, got, outbox, behind, connections, since>>
  BY DEF RedisError, Typed, Stages, StreamTypeOK, Streams
<1>3. ASSUME stream.seen # {}
      PROVE  /\ Max(stream.seen) \in stream.seen
             /\ \A n \in stream.seen : n <= Max(stream.seen)
  <2>1. Len(published) \in Nat /\ stream.seen \in SUBSET (0 .. Len(published))
    <3>1. Len(published) \in Nat /\ stream.seen \subseteq 1 .. Len(published)
      BY Numerals DEF Typed, Stages
    <3>. QED
      BY <3>1
  <2>. QED
    BY <1>3, <2>1, Largest
<1>4. stream.seen \subseteq Nat /\ stream.resume \in Nat
  BY <1>2 DEF Streams
<1>5. /\ stream'.stage = "live" /\ stream'.via = "polling"
      /\ stream'.resume = stream.resume /\ stream'.seen = stream.seen
      /\ stream'.last_sequence = IF stream.seen = {} THEN stream.resume ELSE Max(stream.seen)
      /\ stream' \in Streams
  BY <1>2, <1>3, <1>4 DEF Streams
<1>. QED
  BY <1>1, <1>2, <1>3, <1>5

LEMMA TypedRedisError ==
  ASSUME Pipe, Typed, RedisError
  PROVE  Typed'
<1>1. /\ Aside /\ outbox = <<>>
      /\ UNCHANGED <<lastEventId, got, outbox, behind, connections, since>>
      /\ inbox' = <<>>
      /\ stream'.stage = "live" /\ stream'.via = "polling" /\ stream'.seen = stream.seen
      /\ stream' \in Streams
  BY RedisErrorFacts
<1>2. /\ published' = published /\ Ids' = Ids /\ Of(Watched)' = Of(Watched)
      /\ \A e : Number(e)' = Number(e)
  BY <1>1, AsideFacts
<1>3. StreamTypeOK'
  <2>1. <<>> \in Seq(Ids)
    BY NoneListed
  <2>. QED
    BY <1>1, <1>2, <2>1 DEF Typed, StreamTypeOK, Streams
<1>4. Sent' = Got \cup ToSet(outbox)
  BY <1>1, NoneListed DEF Sent, Got
<1>5. Sources' /\ Resumes' /\ Stages'
  BY <1>1, <1>2, <1>4 DEF Typed, Sources, Sent, Resumes, Stages
<1>. QED
  BY <1>3, <1>5 DEF Typed

(* The steps of the stream, one by one.                                      *)
LEMMA TypedNext ==
  ASSUME Pipe, Typed, [StreamNext]_allVars
  PROVE  Pipe' /\ Typed'
<1>1. CASE UNCHANGED allVars
  <2>1. /\ Ids' = Ids /\ Of(Watched)' = Of(Watched) /\ Stored' = Stored
        /\ \A e : Number(e)' = Number(e)
    BY <1>1 DEF allVars, vars, Ids, Of, Stored, Number
  <2>2. [Next]_vars /\ UNCHANGED vars
    BY <1>1 DEF allVars
  <2>3. Inv' /\ Rows'
    BY <2>2, InvNext, RowsNext DEF Pipe
  <2>4. Numbering' /\ AllTheWay' /\ BatcherAlone'
    BY <2>1, <2>2 DEF Pipe, vars, Numbering, AllTheWay, BatcherAlone, Batched
  <2>5. Sent' = Sent
    BY <1>1 DEF allVars, streamVars, Sent, Got
  <2>6. Typed'
    BY <1>1, <2>1, <2>5 DEF allVars, vars, streamVars, Typed, StreamTypeOK, Sources, Resumes, Stages,
                          Subscribed, Connected
  <2>. QED
    BY <2>3, <2>4, <2>6 DEF Pipe
<1>2. CASE Beside(Next)
  BY <1>2, BesideFacts, PipeNext, TypedBeside
<1>3. CASE Restart
  <2>1. Crash /\ Next
    BY <1>3 DEF Restart, Next
  <2>2. /\ published' = published /\ stream' \in {Off, stream} /\ (stream' = Off \/ ~Connected)
        /\ inbox' = <<>> /\ outbox' = <<>>
        /\ UNCHANGED <<lastEventId, got, behind, connections, since>>
    BY <1>3 DEF Restart, Crash
  <2>. QED
    BY <2>1, <2>2, PipeNext, TypedEnd
<1>4. CASE Connect \/ Serve \/ RedisError \/ Disconnect
  <2>1. Pipe'
    BY <1>4, StreamAside, PipeAside
  <2>2. CASE Disconnect
    BY <2>1, <2>2, TypedEnd DEF Disconnect, StreamStep
  <2>. QED
    BY <1>4, <2>1, <2>2, TypedConnect, TypedReplay, TypedSendReplayed, TypedSendHeard,
       TypedSendPolled, TypedPoll, TypedRedisError DEF Serve
<1>. QED
  BY <1>1, <1>2, <1>3, <1>4 DEF StreamNext

LEMMA TypedAlways == StreamSpec => [](Pipe /\ Typed)
BY PipeInit, TypedInit, TypedNext, PTL DEF StreamSpec

(* The stream keeps its types: only events of the pipeline are heard, read   *)
(* and sent, and nothing is held back for a stream that is off.              *)
THEOREM StreamTypeCorrect == StreamSpec => []StreamTypeOK
<1>1. Typed => StreamTypeOK
  BY DEF Typed
<1>. QED
  BY <1>1, TypedAlways, PTL

----------------------------------------------------------------------------
(* Why the order is kept: how the three marks of the stream fit together.    *)
(* The stream has sent nothing but what its marks stand for, ...             *)
Marks ==
  Alive =>
    /\ stream.resume <= counters[Watched] /\ stream.last_sequence <= counters[Watched]
    /\ \A n \in stream.seen : n > stream.resume /\ \E e \in Got : Number(e) = n
    /\ \A e \in ToSet(inbox) \cup ToSet(outbox) : Number(e) > stream.resume
    /\ stream.via = "polling" =>
         /\ stream.resume <= stream.last_sequence
         /\ \A n \in stream.seen : n <= stream.last_sequence
         /\ \A e \in ToSet(outbox) : Number(e) <= stream.last_sequence

(* ... its queues are in order; ...                                          *)
Queues ==
  /\ Steady => Rising(inbox) /\ Mounting(outbox)
  /\ Calm => Rising(outbox)

(* ... as long as no earlier connection has turned the order round, what the *)
(* browser has got is older than the connection or known to it, and what was *)
(* read from a store is newer than what was sent; ...                        *)
Sound == Calm /\ behind \in {0, connections}
Known == Sound /\ Connected => \A e \in Got : Number(e) <= stream.resume \/ Number(e) \in stream.seen
Unsent == Sound => \A e \in ToSet(outbox), n \in stream.seen : n < Number(e)

(* ... and where the channel overlaps the replay, what the replay lacks is   *)
(* newer than the replay.                                                    *)
Overlap ==
  Steady /\ behind = 0 /\ stream.via = "pubsub" /\ stream.stage \in {"replaying", "live"} =>
    \A e \in ToSet(inbox) :
      \/ e \in ToSet(outbox)
      \/ Number(e) \in stream.seen
      \/ (\A n \in stream.seen : n < Number(e)) /\ (\A d \in ToSet(outbox) : d < e)

Turns == Marks /\ Queues /\ Known /\ Unsent /\ Overlap
Orderly == Turns /\ InOrder

LEMMA OrderlyInit == StreamInit => Orderly
<1> SUFFICES ASSUME StreamInit PROVE Orderly
  OBVIOUS
<1>1. /\ got = <<>> /\ ToSet(inbox) = {} /\ ToSet(outbox) = {}
      /\ Rising(inbox) /\ Rising(outbox) /\ Mounting(outbox)
      /\ stream.seen = {} /\ stream.resume = 0 /\ stream.last_sequence = 0
      /\ stream.via = "pubsub" /\ stream.stage = "off" /\ counters[Watched] = 0
      /\ Got = {}
  BY NoneListed, Gots, StreamAssumption DEF StreamInit, Off, Init
<1>2. InOrder
  BY <1>1 DEF InOrder
<1>. QED
  BY <1>1, <1>2 DEF Orderly, Turns, Marks, Queues, Known, Unsent, Overlap, Connected

LEMMA AsideCalm ==
  ASSUME Pipe, Aside
  PROVE  /\ Alive' <=> Alive
         /\ Calm' <=> Calm
         /\ Steady' <=> Steady
         /\ Unrefused' => Unrefused
BY PipeAside, AsideFacts DEF Alive, Calm, Steady, Unrefused

LEMMA CalmAlive == (Calm => Steady) /\ (Steady => Alive) /\ (Sound => Calm)
BY DEF Calm, Steady, Alive, Sound

(* What a stream that is off has to say about its queues is little.          *)
LEMMA OrderlyEnd ==
  ASSUME Pipe', inbox' = <<>>, outbox' = <<>>, stream'.seen = {}, stream'.resume = 0,
         stream'.last_sequence = 0, stream'.via = "pubsub", stream'.stage \in {"off", "closed"}
  PROVE  Turns'
<1>1. counters'[Watched] \in Nat
  BY StreamAssumption DEF Pipe, Inv, TypeRest
<1>2. ToSet(inbox') = {} /\ ToSet(outbox') = {} /\ Rising(inbox') /\ Rising(outbox') /\ Mounting(outbox')
  BY NoneListed
<1>3. Marks' /\ Queues'
  BY <1>1, <1>2 DEF Marks, Queues
<1>4. Known' /\ Unsent' /\ Overlap'
  BY <1>2 DEF Known, Unsent, Overlap, Connected
<1>. QED
  BY <1>3, <1>4 DEF Turns

(* An event that goes out last is the newest, or at least a new one.         *)
LEMMA OrderAppended ==
  ASSUME Pipe, Typed, InOrder, Aside, NEW e \in Ids, got' = Append(got, e),
         behind' = behind, connections' = connections,
         Calm /\ behind = 0 => \A g \in Got : g < e,
         Sound => e \notin Got
  PROVE  InOrder'
<1>1. got \in Seq(Ids) /\ DOMAIN got = 1 .. Len(got) /\ Len(got) \in Nat
  BY LenProperties DEF Typed, StreamTypeOK
<1>2. /\ Append(got, e) \in Seq(Ids) /\ Len(Append(got, e)) = Len(got) + 1
      /\ Append(got, e)[Len(Append(got, e))] = e
      /\ \A i \in 1 .. Len(got) : Append(got, e)[i] = got[i]
  BY <1>1, Appended
<1>3. /\ DOMAIN got' = 1 .. Len(got) + 1 /\ got'[Len(got) + 1] = e
      /\ \A i \in 1 .. Len(got) : got'[i] = got[i] /\ got[i] \in Got
  <2>1. DOMAIN Append(got, e) = 1 .. Len(got) + 1
    BY <1>2, LenProperties
  <2>. QED
    BY <1>1, <1>2, <2>1 DEF Got
<1>4. ASSUME Calm', NEW i \in DOMAIN got', NEW j \in DOMAIN got', i < j
      PROVE  /\ behind' = 0 => got'[i] < got'[j]
             /\ behind' \in {0, connections'} => got'[i] # got'[j]
  <2>1. Calm /\ (behind \in {0, connections} => Sound)
    BY <1>4, AsideCalm DEF Sound
  <2>2. i \in 1 .. Len(got)
    BY <1>1, <1>3, <1>4
  <2>3. CASE j \in 1 .. Len(got)
    BY <1>1, <1>3, <1>4, <2>1, <2>2, <2>3 DEF InOrder
  <2>4. CASE j = Len(got) + 1
    BY <1>3, <2>1, <2>2, <2>4
  <2>. QED
    BY <1>1, <1>3, <2>3, <2>4
<1>. QED
  BY <1>4 DEF InOrder

(* What is read from a store is newer than everything that was sent.         *)
LEMMA ReadIsNewer ==
  ASSUME Pipe, Typed, Orderly, Connected, NEW e \in ToSet(outbox), Sound
  PROVE  e \notin Got /\ \A g \in Got : g < e
<1>1. e \in Of(Watched) /\ \A g \in Got : g \in Of(Watched)
  BY DEF Typed, Sources, Sent
<1>2. Alive
  BY CalmAlive
<1>3. Number(e) \in Nat /\ Number(e) > stream.resume /\ \A n \in stream.seen : n < Number(e)
  BY <1>1, <1>2, Numerals DEF Orderly, Turns, Marks, Unsent
<1>4. stream.resume \in Nat /\ \A g \in Got : Number(g) \in Nat
  BY <1>1, Numerals DEF Typed, StreamTypeOK
<1>5. \A g \in Got : Number(g) < Number(e)
  BY <1>3, <1>4 DEF Orderly, Turns, Known
<1>6. \A g \in Got : g < e
  BY <1>1, <1>2, <1>5, Numerals
<1>7. \A g \in Got : g \in Nat
  BY <1>1, Numerals
<1>. QED
  BY <1>6, <1>7

(* Sending what was read.                                                    *)
LEMMA OrderlyRead ==
  ASSUME Pipe, Typed, Orderly, Aside, outbox # <<>>, NEW e, e = Head(outbox),
         Yield(e), outbox' = Tail(outbox),
         UNCHANGED <<inbox, behind, connections>>,
         Connected, stream.stage # "connected",
         stream'.via = stream.via, stream'.resume = stream.resume,
         stream'.last_sequence = stream.last_sequence,
         stream'.seen = stream.seen \cup {Number(e)}
  PROVE  Orderly'
<1>1. /\ outbox \in Seq(Ids) /\ Ids \subseteq Nat /\ e \in ToSet(outbox) /\ e \in Sent
      /\ ToSet(outbox) = {e} \cup ToSet(outbox')
      /\ Calm => Rising(outbox') /\ \A x \in ToSet(outbox') : e < x
      /\ Steady => Mounting(outbox')
  <2>1. outbox \in Seq(Ids) /\ Ids \subseteq Nat
    BY Numerals DEF Typed, StreamTypeOK
  <2>2. e \in ToSet(outbox) /\ ToSet(outbox) = {e} \cup ToSet(outbox')
    BY <2>1, Heads
  <2>3. /\ Rising(outbox) => Rising(outbox') /\ \A x \in ToSet(outbox') : e < x
        /\ Mounting(outbox) => Mounting(outbox')
    BY <2>1, RisingTail, MountingTail
  <2>. QED
    BY <2>1, <2>2, <2>3 DEF Sent, Orderly, Turns, Queues
<1>2. /\ e \in Of(Watched) /\ e \in Ids /\ Number(e) \in Nat
      /\ Got' = Got \cup {e} /\ got' = Append(got, e)
  BY <1>1, YieldFacts, Numerals DEF Yield
<1>3. /\ Alive' <=> Alive
      /\ Calm' <=> Calm
      /\ Steady' <=> Steady
      /\ Sound' <=> Sound
      /\ \A x : Number(x)' = Number(x)
      /\ counters' = counters
  BY AsideCalm, AsideFacts DEF Sound
<1>4. /\ ToSet(outbox)' = ToSet(outbox') /\ ToSet(inbox)' = ToSet(inbox)
      /\ Rising(outbox)' <=> Rising(outbox')
      /\ Mounting(outbox)' <=> Mounting(outbox')
      /\ Rising(inbox)' <=> Rising(inbox)
  BY DEF ToSet, Rising, Mounting
<1>5. /\ \A x \in ToSet(inbox) \cup ToSet(outbox) : x \in Of(Watched) /\ x \in Nat /\ Number(x) \in Nat
      /\ Alive => \A d, x \in Of(Watched) : d < x <=> Number(d) < Number(x)
  BY Numerals DEF Typed, Sources, Sent
<1>6. InOrder'
  BY <1>1, <1>2, ReadIsNewer, OrderAppended, CalmAlive DEF Orderly, Sound
<1>7. Marks'
  BY <1>1, <1>2, <1>3, <1>4 DEF Marks, Orderly, Turns
<1>8. Queues'
  BY <1>1, <1>3, <1>4 DEF Queues, Orderly, Turns
<1>9. Known'
  BY <1>2, <1>3 DEF Known, Orderly, Turns
<1>10. Unsent'
  <2>1. ASSUME Sound, NEW x \in ToSet(outbox'), NEW n \in stream.seen \cup {Number(e)}
        PROVE  n < Number(x)
    <3>1. CASE n \in stream.seen
      BY <1>1, <2>1, <3>1 DEF Unsent, Orderly, Turns
    <3>2. CASE n = Number(e)
      BY <1>1, <1>2, <1>5, <2>1, <3>2, CalmAlive
    <3>. QED
      BY <3>1, <3>2
  <2>. QED
    BY <1>3, <1>4, <2>1 DEF Unsent
<1>11. Overlap'
  <2>1. ASSUME Steady, behind = 0, stream.via = "pubsub", NEW x \in ToSet(inbox)
        PROVE  \/ x \in ToSet(outbox')
               \/ Number(x) \in stream.seen \cup {Number(e)}
               \/ /\ \A n \in stream.seen \cup {Number(e)} : n < Number(x)
                  /\ \A d \in ToSet(outbox') : d < x
    <3>1. \/ x \in ToSet(outbox)
          \/ Number(x) \in stream.seen
          \/ (\A n \in stream.seen : n < Number(x)) /\ (\A d \in ToSet(outbox) : d < x)
      BY <2>1 DEF Overlap, Orderly, Turns, Connected
    <3>2. CASE x \in ToSet(outbox)
      BY <1>1, <3>2
    <3>3. CASE (\A n \in stream.seen : n < Number(x)) /\ (\A d \in ToSet(outbox) : d < x)
      <4>1. e < x /\ Number(e) < Number(x)
        BY <1>1, <1>2, <1>5, <2>1, <3>3, CalmAlive
      <4>. QED
        BY <1>1, <3>3, <4>1
    <3>. QED
      BY <3>1, <3>2, <3>3
  <2>. QED
    BY <1>3, <1>4, <2>1 DEF Overlap
<1>. QED
  BY <1>6, <1>7, <1>8, <1>9, <1>10, <1>11 DEF Orderly, Turns

(* Passing on, or passing over, what the channel has brought.                *)
LEMMA HeardIsNewer ==
  ASSUME Pipe, Typed, Orderly, Connected, stream.stage = "live", stream.via = "pubsub",
         NEW e \in ToSet(inbox), Number(e) \notin stream.seen
  PROVE  /\ Calm /\ behind = 0 => \A g \in Got : g < e
         /\ Sound => e \notin Got
<1>1. e \in Of(Watched) /\ \A g \in Got : g \in Of(Watched)
  BY DEF Typed, Sources, Sent
<1>2. /\ Number(e) \in Nat /\ stream.resume \in Nat
      /\ \A g \in Got : Number(g) \in Nat
  BY <1>1, Numerals DEF Typed, StreamTypeOK
<1>3. ASSUME Sound
      PROVE  /\ Number(e) > stream.resume
             /\ \A g \in Got : Number(g) <= stream.resume \/ Number(g) \in stream.seen
  BY <1>3, CalmAlive DEF Orderly, Turns, Marks, Known
<1>4. ASSUME Sound
      PROVE  e \notin Got
  <2>1. ~(Number(e) <= stream.resume)
    BY <1>2, <1>3, <1>4
  <2>. QED
    BY <1>3, <1>4, <2>1
<1>5. ASSUME Calm, behind = 0, NEW g \in Got
      PROVE  g < e
  <2>1. Sound /\ Alive
    BY <1>5, CalmAlive DEF Sound
  <2>2. outbox = <<>> /\ ToSet(outbox) = {}
    BY NoneListed DEF Typed, Stages
  <2>3. \A n \in stream.seen : n < Number(e)
    BY <1>5, <2>2, CalmAlive DEF Orderly, Turns, Overlap
  <2>4. Number(g) < Number(e)
    BY <1>2, <1>3, <2>1, <2>3
  <2>. QED
    BY <1>1, <2>1, <2>4, Numerals
<1>. QED
  BY <1>4, <1>5

LEMMA OrderlyHeard ==
  ASSUME Pipe, Typed, Orderly, SendHeard
  PROVE  Orderly'
<1> DEFINE e == Head(inbox)
<1>1. /\ Aside /\ stream.stage = "live" /\ stream.via = "pubsub" /\ outbox = <<>>
      /\ inbox \in Seq(Ids) /\ inbox # <<>> /\ e \in Sent
      /\ UNCHANGED <<outbox, behind, connections, since>>
      /\ \/ /\ Number(e) \in stream.seen
            /\ inbox' = Tail(inbox) /\ UNCHANGED <<lastEventId, got, stream>>
         \/ /\ Number(e) \notin stream.seen
            /\ inbox' = Tail(inbox) /\ Goes(e)
         \/ inbox' = <<>> /\ Ends(e) /\ Number(e) \notin stream.seen
  BY SendHeardFacts
<1>2. /\ e \in ToSet(inbox) /\ Ids \subseteq Nat
      /\ ToSet(inbox) = {e} \cup ToSet(Tail(inbox))
      /\ Steady => Rising(Tail(inbox)) /\ \A x \in ToSet(Tail(inbox)) : e < x
  <2>1. Ids \subseteq Nat
    BY Numerals
  <2>2. e \in ToSet(inbox) /\ ToSet(inbox) = {e} \cup ToSet(Tail(inbox))
    BY <1>1, Heads
  <2>3. Rising(inbox) => Rising(Tail(inbox)) /\ \A x \in ToSet(Tail(inbox)) : e < x
    BY <1>1, <2>1, RisingTail
  <2>. QED
    BY <2>1, <2>2, <2>3 DEF Orderly, Turns, Queues
<1>. HIDE DEF e
<1>3. /\ Alive' <=> Alive
      /\ Calm' <=> Calm
      /\ Steady' <=> Steady
      /\ Sound' <=> Sound
      /\ \A x : Number(x)' = Number(x)
      /\ counters' = counters
  BY <1>1, AsideCalm, AsideFacts DEF Sound
<1>4. /\ ToSet(outbox)' = {} /\ ToSet(inbox)' = ToSet(inbox')
      /\ Rising(outbox)' /\ Mounting(outbox)'
      /\ Rising(inbox)' <=> Rising(inbox')
  BY <1>1, NoneListed DEF ToSet, Rising, Mounting
<1>5. /\ \A x \in ToSet(inbox) : x \in Of(Watched) /\ x \in Nat /\ Number(x) \in Nat
      /\ Alive => \A d, x \in Of(Watched) : d < x <=> Number(d) < Number(x)
  BY Numerals DEF Typed, Sources, Sent
<1>6. Connected
  BY <1>1 DEF Connected
<1>7. CASE Number(e) \in stream.seen /\ inbox' = Tail(inbox) /\ UNCHANGED <<lastEventId, got, stream>>
  <2>1. Got' = Got
    BY <1>7 DEF Got
  <2>2. Marks'
    BY <1>2, <1>3, <1>4, <1>7, <2>1 DEF Marks, Orderly, Turns
  <2>3. Queues' /\ Known' /\ Unsent'
    BY <1>1, <1>2, <1>3, <1>4, <1>6, <1>7, <2>1 DEF Queues, Known, Unsent, Orderly, Turns
  <2>4. Overlap'
    BY <1>1, <1>2, <1>3, <1>4, <1>7, NoneListed DEF Overlap, Orderly, Turns
  <2>5. InOrder'
    BY <1>1, <1>3, <1>7 DEF InOrder, Orderly
  <2>. QED
    BY <2>2, <2>3, <2>4, <2>5 DEF Orderly, Turns
<1>8. ASSUME Number(e) \notin stream.seen, Yield(e)
      PROVE  /\ InOrder'
             /\ Got' = Got \cup {e} /\ Number(e) \in Nat
  <2>1. e \in Ids /\ Got' = Got \cup {e} /\ got' = Append(got, e)
    BY <1>1, <1>8, YieldFacts DEF Yield
  <2>2. /\ Calm /\ behind = 0 => \A g \in Got : g < e
        /\ Sound => e \notin Got
    BY <1>1, <1>2, <1>6, <1>8, HeardIsNewer
  <2>. QED
    BY <1>1, <1>2, <1>5, <2>1, <2>2, OrderAppended DEF Orderly
<1>9. CASE Number(e) \notin stream.seen /\ inbox' = Tail(inbox) /\ Goes(e)
  <2>1. /\ InOrder' /\ Got' = Got \cup {e} /\ Number(e) \in Nat
        /\ stream'.stage = stream.stage /\ stream'.via = stream.via /\ stream'.resume = stream.resume
        /\ stream'.last_sequence = stream.last_sequence
        /\ stream'.seen = stream.seen \cup {Number(e)}
    BY <1>8, <1>9 DEF Goes
  <2>2. Marks'
    BY <1>1, <1>2, <1>3, <1>4, <1>9, <2>1 DEF Marks, Orderly, Turns
  <2>3. Queues' /\ Known' /\ Unsent'
    BY <1>1, <1>2, <1>3, <1>4, <1>6, <1>9, <2>1 DEF Queues, Known, Unsent, Orderly, Turns
  <2>4. ASSUME Steady, behind = 0, NEW x \in ToSet(inbox')
        PROVE  \/ Number(x) \in stream.seen \cup {Number(e)}
               \/ \A n \in stream.seen \cup {Number(e)} : n < Number(x)
    <3>1. /\ x \in ToSet(inbox) /\ e < x /\ x \in Of(Watched) /\ e \in Of(Watched)
          /\ Number(x) \in Nat
      BY <1>2, <1>5, <1>9, <2>4
    <3>2. Number(e) < Number(x)
      BY <1>5, <2>4, <3>1, CalmAlive
    <3>3. Number(x) \in stream.seen \/ \A n \in stream.seen : n < Number(x)
      BY <1>1, <2>4, <3>1, NoneListed DEF Overlap, Orderly, Turns
    <3>. QED
      BY <3>2, <3>3
  <2>5. Overlap'
    BY <1>1, <1>3, <1>4, <2>1, <2>4 DEF Overlap
  <2>. QED
    BY <2>1, <2>2, <2>3, <2>5 DEF Orderly, Turns
<1>10. CASE inbox' = <<>> /\ Ends(e) /\ Number(e) \notin stream.seen
  <2>1. Pipe' /\ InOrder'
    BY <1>1, <1>8, <1>10, PipeAside DEF Ends
  <2>2. /\ stream'.seen = {} /\ stream'.resume = 0 /\ stream'.last_sequence = 0
        /\ stream'.via = "pubsub" /\ stream'.stage = "closed" /\ outbox' = <<>>
    BY <1>1, <1>10 DEF Ends, Off
  <2>. QED
    BY <1>10, <2>1, <2>2, OrderlyEnd DEF Orderly
<1>. QED
  BY <1>1, <1>7, <1>9, <1>10

(* Passing on what a poll has read.                                          *)
LEMMA OrderlyPolled ==
  ASSUME Pipe, Typed, Orderly, SendPolled
  PROVE  Orderly'
<1> DEFINE e == Head(outbox)
<1>1. /\ Aside /\ stream.stage = "live" /\ stream.via = "polling" /\ inbox = <<>>
      /\ outbox \in Seq(Ids) /\ outbox # <<>> /\ e \in Sent
      /\ UNCHANGED <<inbox, behind, connections, since>>
      /\ \/ /\ Number(e) \in stream.seen
            /\ outbox' = Tail(outbox) /\ UNCHANGED <<lastEventId, got, stream>>
         \/ outbox' = Tail(outbox) /\ Goes(e)
         \/ outbox' = <<>> /\ Ends(e)
  BY SendPolledFacts
<1>2. Connected
  BY <1>1 DEF Connected
<1>3. CASE outbox' = Tail(outbox) /\ UNCHANGED <<lastEventId, got, stream>>
  <2>1. /\ ToSet(outbox') \subseteq ToSet(outbox)
        /\ Calm => Rising(outbox')
        /\ Steady => Mounting(outbox')
    <3>1. ToSet(outbox') \subseteq ToSet(outbox)
      BY <1>1, <1>3, Heads
    <3>2. /\ Rising(outbox) => Rising(outbox')
          /\ Mounting(outbox) => Mounting(outbox')
      BY <1>1, <1>3, Numerals, RisingTail, MountingTail
    <3>. QED
      BY <3>1, <3>2 DEF Orderly, Turns, Queues
  <2>2. /\ Alive' <=> Alive
        /\ Calm' <=> Calm
        /\ Steady' <=> Steady
        /\ Sound' <=> Sound
        /\ \A x : Number(x)' = Number(x)
        /\ counters' = counters
    BY <1>1, AsideCalm, AsideFacts DEF Sound
  <2>3. /\ ToSet(outbox)' = ToSet(outbox') /\ ToSet(inbox)' = {} /\ Rising(inbox)'
        /\ Rising(outbox)' <=> Rising(outbox')
        /\ Mounting(outbox)' <=> Mounting(outbox')
        /\ Got' = Got
    BY <1>1, <1>3, NoneListed DEF ToSet, Rising, Mounting, Got
  <2>4. Marks'
    BY <1>3, <2>1, <2>2, <2>3 DEF Marks, Orderly, Turns
  <2>5. Queues' /\ Known' /\ Unsent'
    BY <1>2, <1>3, <2>1, <2>2, <2>3 DEF Queues, Known, Unsent, Orderly, Turns
  <2>6. Overlap' /\ InOrder'
    BY <1>1, <1>3, <2>2, <2>3 DEF Overlap, InOrder, Orderly
  <2>. QED
    BY <2>4, <2>5, <2>6 DEF Orderly, Turns
<1>4. CASE outbox' = Tail(outbox) /\ Goes(e)
  BY <1>1, <1>2, <1>4, OrderlyRead DEF Goes
<1>5. CASE outbox' = <<>> /\ Ends(e)
  <2>1. Pipe' /\ inbox' = <<>>
    BY <1>1, PipeAside
  <2>2. /\ stream'.seen = {} /\ stream'.resume = 0 /\ stream'.last_sequence = 0
        /\ stream'.via = "pubsub" /\ stream'.stage = "closed" /\ Yield(e)
    BY <1>5 DEF Ends, Off
  <2>3. Turns'
    BY <1>5, <2>1, <2>2, OrderlyEnd
  <2>4. e \in Ids /\ got' = Append(got, e)
    BY <1>1, <2>2, YieldFacts DEF Yield
  <2>5. e \in ToSet(outbox)
    BY <1>1, Heads
  <2>6. InOrder'
    BY <1>1, <1>2, <2>4, <2>5, ReadIsNewer, OrderAppended, CalmAlive DEF Orderly, Sound
  <2>. QED
    BY <2>3, <2>6 DEF Orderly
<1>. QED
  BY <1>1, <1>3, <1>4, <1>5

(* A batch of a poll is newer than all that the stream has sent.             *)
LEMMA OrderlyPoll ==
  ASSUME Pipe, Typed, Orderly, Poll
  PROVE  Orderly'
<1>1. /\ Aside /\ stream.stage = "live" /\ stream.via = "polling" /\ outbox = <<>>
      /\ UNCHANGED <<lastEventId, got, inbox, behind, connections, since>>
      /\ stream'.stage = "live" /\ stream'.via = "polling"
      /\ stream'.resume = stream.resume /\ stream'.seen = stream.seen
      /\ stream'.last_sequence = Max(Numbers(outbox')) /\ stream' \in Streams
      /\ outbox' \in Seq(Ids) /\ outbox' # <<>>
      /\ ToSet(outbox') \subseteq Later(stream.last_sequence) \cap Stored
      /\ Steady => Mounting(outbox')
      /\ Calm => Rising(outbox')
  BY PollFacts
<1>2. /\ Alive' <=> Alive
      /\ Calm' <=> Calm
      /\ Steady' <=> Steady
      /\ Sound' <=> Sound
      /\ \A x : Number(x)' = Number(x)
      /\ counters' = counters /\ Got' = Got
  BY <1>1, AsideCalm, AsideFacts DEF Sound, Got
<1>3. /\ inbox = <<>> /\ ToSet(outbox)' = ToSet(outbox') /\ ToSet(inbox)' = {} /\ Rising(inbox)'
      /\ Rising(outbox)' <=> Rising(outbox')
      /\ Mounting(outbox)' <=> Mounting(outbox')
  BY <1>1, NoneListed DEF ToSet, Rising, Mounting, Typed, StreamTypeOK, Subscribed
<1>4. /\ \E e \in ToSet(outbox') : stream'.last_sequence = Number(e)
      /\ \A e \in ToSet(outbox') : Number(e) <= stream'.last_sequence
      /\ stream'.last_sequence \in Nat
  BY <1>1, HighestNumber
<1>5. /\ \A e \in ToSet(outbox') : /\ Number(e) > stream.last_sequence /\ e \in Of(Watched)
                                   /\ Number(e) \in Nat
      /\ stream.last_sequence \in Nat /\ stream.resume \in Nat /\ stream.seen \subseteq Nat
  BY <1>1, Numerals DEF Later, Typed, StreamTypeOK
<1>6. ASSUME Alive
      PROVE  /\ stream.resume <= stream.last_sequence
             /\ \A n \in stream.seen : n <= stream.last_sequence
             /\ \A n \in stream.seen : n > stream.resume /\ \E e \in Got : Number(e) = n
             /\ \A e \in ToSet(outbox') : Number(e) <= counters[Watched]
             /\ stream.resume <= counters[Watched]
  BY <1>1, <1>5, <1>6, Numerals DEF Marks, Orderly, Turns
<1>7. stream.last_sequence < stream'.last_sequence
  BY <1>4, <1>5
<1>8. Marks'
  <2>1. ASSUME Alive
        PROVE  /\ stream'.last_sequence <= counters[Watched]
               /\ \A e \in ToSet(outbox') : Number(e) > stream.resume
               /\ stream.resume <= stream'.last_sequence
               /\ \A n \in stream.seen : n <= stream'.last_sequence
    BY <1>4, <1>5, <1>6, <1>7, <2>1
  <2>. QED
    BY <1>1, <1>2, <1>3, <1>4, <1>6, <2>1 DEF Marks
<1>9. Queues'
  BY <1>1, <1>2, <1>3 DEF Queues
<1>10. Known'
  BY <1>1, <1>2 DEF Known, Orderly, Turns, Connected
<1>11. Unsent'
  <2>1. ASSUME Sound, NEW e \in ToSet(outbox'), NEW n \in stream.seen
        PROVE  n < Number(e)
    BY <1>5, <1>6, <2>1, CalmAlive
  <2>. QED
    BY <1>1, <1>2, <1>3, <2>1 DEF Unsent
<1>12. Overlap' /\ InOrder'
  BY <1>1, <1>2 DEF Overlap, InOrder, Orderly
<1>. QED
  BY <1>8, <1>9, <1>10, <1>11, <1>12 DEF Orderly, Turns

(* A stream that turns to the table goes on from the last number it sent.    *)
LEMMA OrderlyRedisError ==
  ASSUME Pipe, Typed, Orderly, RedisError
  PROVE  Orderly'
<1>1. /\ Aside /\ stream.stage = "live" /\ outbox = <<>>
      /\ UNCHANGED <<lastEventId, got, outbox, behind, connections, since>>
      /\ inbox' = <<>>
      /\ stream'.stage = "live" /\ stream'.via = "polling"
      /\ stream'.resume = stream.resume /\ stream'.seen = stream.seen
      /\ \/ stream.seen = {} /\ stream'.last_sequence = stream.resume
         \/ /\ stream'.last_sequence \in stream.seen
            /\ \A n \in stream.seen : n <= stream'.last_sequence
  BY RedisErrorFacts
<1>2. /\ Alive' <=> Alive
      /\ Calm' <=> Calm
      /\ Steady' <=> Steady
      /\ Sound' <=> Sound
      /\ \A x : Number(x)' = Number(x)
      /\ counters' = counters /\ Got' = Got
  BY <1>1, AsideCalm, AsideFacts DEF Sound, Got
<1>3. /\ ToSet(outbox)' = {} /\ ToSet(inbox)' = {} /\ Rising(inbox)' /\ Rising(outbox)' /\ Mounting(outbox)'
  BY <1>1, NoneListed DEF ToSet, Rising, Mounting
<1>4. \A g \in Got : g \in Of(Watched)
  BY DEF Typed, Sources, Sent
<1>5. ASSUME Alive
      PROVE  /\ stream.resume <= stream'.last_sequence
             /\ stream'.last_sequence <= counters[Watched]
             /\ \A n \in stream.seen : n <= stream'.last_sequence
  <2>1. /\ stream.resume <= counters[Watched] /\ stream.resume \in Nat
        /\ stream.seen \subseteq Nat
        /\ \A n \in stream.seen : n > stream.resume /\ \E g \in Got : Number(g) = n
        /\ \A g \in Got : Number(g) <= counters[Watched]
    BY <1>4, <1>5, Numerals DEF Marks, Orderly, Turns, Typed, StreamTypeOK
  <2>2. \A n \in stream.seen : n <= counters[Watched]
    BY <2>1
  <2>. QED
    BY <1>1, <2>1, <2>2
<1>6. Marks'
  BY <1>1, <1>2, <1>3, <1>5 DEF Marks, Orderly, Turns
<1>7. Queues' /\ Unsent' /\ Overlap'
  BY <1>1, <1>2, <1>3 DEF Queues, Unsent, Overlap
<1>8. Known'
  BY <1>1, <1>2 DEF Known, Orderly, Turns, Connected
<1>9. InOrder'
  BY <1>1, <1>2 DEF InOrder, Orderly
<1>. QED
  BY <1>6, <1>7, <1>8, <1>9 DEF Orderly, Turns

(* Sending what was read for the replay.                                     *)
LEMMA OrderlySendReplayed ==
  ASSUME Pipe, Typed, Orderly, SendReplayed
  PROVE  Orderly'
<1>1. /\ Aside /\ stream.stage = "replaying" /\ outbox # <<>>
      /\ outbox' = Tail(outbox) /\ Yield(Head(outbox))
      /\ UNCHANGED <<inbox, behind, connections>>
      /\ stream'.via = stream.via /\ stream'.resume = stream.resume
      /\ stream'.last_sequence = stream.last_sequence
      /\ stream'.seen = stream.seen \cup {Number(Head(outbox))}
  BY SendReplayedFacts
<1>2. Connected /\ stream.stage # "connected"
  BY <1>1 DEF Connected
<1>. QED
  BY <1>1, <1>2, OrderlyRead

(* What a browser that connects again names: the last event it got, which is *)
(* the newest unless a connection has turned the order round.                *)
LEMMA LastGot ==
  ASSUME Pipe, Typed
  PROVE  /\ Alive => lastEventId <= counters[Watched]
         /\ lastEventId = 0 => got = <<>>
         /\ got # <<>> => \E g \in Got : lastEventId = Number(g)
         /\ Calm /\ behind = 0 /\ InOrder => \A g \in Got : Number(g) <= lastEventId
<1>1. /\ got \in Seq(Ids) /\ DOMAIN got = 1 .. Len(got) /\ Len(got) \in Nat
      /\ lastEventId = IF got = <<>> THEN 0 ELSE Number(got[Len(got)])
  BY LenProperties DEF Typed, StreamTypeOK, Resumes
<1>2. \A g \in Got : g \in Of(Watched) /\ g \in Nat /\ Number(g) \in Nat /\ Number(g) > 0
  BY Numerals DEF Typed, Sources, Sent
<1>3. ASSUME got # <<>>
      PROVE  /\ Len(got) \in DOMAIN got /\ got[Len(got)] \in Got
             /\ lastEventId = Number(got[Len(got)])
  BY <1>1, <1>3, EmptySeq DEF Got
<1>4. counters[Watched] \in Nat
  BY StreamAssumption DEF Pipe, Inv, TypeRest
<1>5. Alive => lastEventId <= counters[Watched]
  <2>1. CASE got = <<>>
    BY <1>1, <1>4, <2>1
  <2>2. CASE got # <<>>
    BY <1>2, <1>3, <2>2, Numerals
  <2>. QED
    BY <2>1, <2>2
<1>6. lastEventId = 0 => got = <<>>
  BY <1>2, <1>3
<1>7. ASSUME Calm, behind = 0, InOrder, NEW g \in Got
      PROVE  Number(g) <= lastEventId
  <2>1. PICK i \in 1 .. Len(got) : g = got[i]
    BY <1>1 DEF Got
  <2>2. got # <<>>
    BY <2>1
  <2>3. CASE i = Len(got)
    BY <1>2, <1>3, <2>1, <2>2, <2>3
  <2>4. CASE i # Len(got)
    <3>1. i < Len(got) /\ i \in DOMAIN got
      <4>1. i \in DOMAIN got
        BY <1>1, <2>1
      <4>2. \A n \in Nat : \A k \in 1 .. n : k # n => k < n
        OBVIOUS
      <4>3. i < Len(got)
        BY <1>1, <2>1, <2>4, <4>2
      <4>. QED
        BY <4>1, <4>3
    <3>2. g < got[Len(got)]
      BY <1>3, <1>7, <2>1, <2>2, <3>1 DEF InOrder
    <3>. QED
      BY <1>2, <1>3, <1>7, <2>2, <3>2, Numerals, CalmAlive
  <2>. QED
    BY <2>3, <2>4
<1>. QED
  BY <1>3, <1>5, <1>6, <1>7

LEMMA OrderlyConnect ==
  ASSUME Pipe, Typed, Orderly, Connect
  PROVE  Orderly'
<1>1. /\ Aside /\ inbox = <<>> /\ outbox = <<>>
      /\ UNCHANGED <<lastEventId, got, inbox, outbox, behind>>
      /\ connections' = connections + 1 /\ connections \in Nat
      /\ stream'.stage = "connected" /\ stream'.seen = {} /\ stream'.resume = lastEventId
      /\ stream'.via = "polling" => stream'.last_sequence = lastEventId
      /\ stream'.last_sequence \in {0, lastEventId}
  BY ConnectFacts
<1>2. /\ Alive' <=> Alive
      /\ Calm' <=> Calm
      /\ Steady' <=> Steady
      /\ \A x : Number(x)' = Number(x)
      /\ counters' = counters /\ Got' = Got
  BY <1>1, AsideCalm, AsideFacts DEF Got
<1>3. /\ ToSet(outbox)' = {} /\ ToSet(inbox)' = {} /\ Rising(inbox)' /\ Rising(outbox)' /\ Mounting(outbox)'
  BY <1>1, NoneListed DEF ToSet, Rising, Mounting
<1>4. behind \in {0, connections'} => behind = 0
  <2>1. behind \in 0 .. connections
    BY DEF Typed, StreamTypeOK
  <2>. QED
    BY <1>1, <2>1
<1>5. Marks'
  <2>1. Alive => lastEventId <= counters[Watched] /\ 0 <= counters[Watched]
    <3>1. counters[Watched] \in Nat
      BY StreamAssumption DEF Pipe, Inv, TypeRest
    <3>. QED
      BY <3>1, LastGot
  <2>2. lastEventId <= lastEventId
    BY DEF Typed, StreamTypeOK
  <2>. QED
    BY <1>1, <1>2, <1>3, <2>1, <2>2 DEF Marks
<1>6. Queues' /\ Unsent' /\ Overlap'
  BY <1>1, <1>3 DEF Queues, Unsent, Overlap
<1>7. Known'
  BY <1>1, <1>2, <1>4, LastGot DEF Known, Sound, Orderly
<1>8. InOrder'
  <2>1. ASSUME Calm', NEW i \in DOMAIN got, NEW j \in DOMAIN got, i < j
        PROVE  /\ behind' = 0 => got[i] < got[j]
               /\ behind' \in {0, connections'} => got[i] # got[j]
    BY <1>1, <1>2, <1>4, <2>1 DEF InOrder, Orderly
  <2>. QED
    BY <1>1, <2>1 DEF InOrder
<1>. QED
  BY <1>5, <1>6, <1>7, <1>8 DEF Orderly, Turns

(* A stream that has begun belongs to a connection.                          *)
Begun == Connected => connections # 0

LEMMA BegunNext ==
  ASSUME Pipe, Typed, Begun, [StreamNext]_allVars
  PROVE  Begun'
<1>1. CASE UNCHANGED allVars
  BY <1>1 DEF allVars, streamVars, Begun, Connected
<1>2. CASE Beside(Next)
  BY <1>2 DEF Beside, Begun, Connected
<1>3. CASE Restart
  BY <1>3 DEF Restart, Begun, Connected, Off
<1>4. CASE Connect
  BY <1>4, ConnectFacts DEF Begun
<1>5. CASE Replay
  BY <1>5, ReplayFacts DEF Begun, Connected
<1>6. CASE SendReplayed
  BY <1>6, SendReplayedFacts DEF Begun, Connected
<1>7. CASE SendHeard
  BY <1>7, SendHeardFacts DEF Begun, Connected, Goes, Ends, Off
<1>8. CASE SendPolled
  BY <1>8, SendPolledFacts DEF Begun, Connected, Goes, Ends, Off
<1>9. CASE Poll
  BY <1>9, PollFacts DEF Begun, Connected
<1>10. CASE RedisError
  BY <1>10, RedisErrorFacts DEF Begun, Connected
<1>11. CASE Disconnect
  BY <1>11 DEF Disconnect, Begun, Connected, Off
<1>. QED
  BY <1>1, <1>2, <1>3, <1>4, <1>5, <1>6, <1>7, <1>8, <1>9, <1>10, <1>11 DEF StreamNext, Serve

(* What is read for the replay.                                              *)
LEMMA OrderlyReplay ==
  ASSUME Pipe, Typed, Begun, Orderly, Replay
  PROVE  Orderly'
<1>1. /\ Aside /\ stream.stage = "connected" /\ stream.seen = {}
      /\ UNCHANGED <<lastEventId, got, inbox, connections>>
      /\ behind' = IF behind = 0 /\ FallsShort(outbox') THEN connections ELSE behind
      /\ stream'.via = stream.via /\ stream'.resume = stream.resume /\ stream'.seen = {}
      /\ stream'.last_sequence = IF stream.via = "polling"
           THEN Max({stream.resume} \cup Numbers(outbox')) ELSE stream.last_sequence
      /\ outbox' \in Seq(Ids)
      /\ ToSet(outbox') \subseteq Later(stream.resume)
      /\ Steady => Mounting(outbox')
      /\ Calm => Rising(outbox')
      /\ stream.resume = 0 => outbox' = <<>>
  BY ReplayFacts
<1>2. /\ Alive' <=> Alive
      /\ Calm' <=> Calm
      /\ Steady' <=> Steady
      /\ \A x : Number(x)' = Number(x)
      /\ counters' = counters /\ Got' = Got
  BY <1>1, AsideCalm, AsideFacts DEF Got
<1>3. /\ ToSet(outbox)' = ToSet(outbox') /\ ToSet(inbox)' = ToSet(inbox)
      /\ Rising(outbox)' <=> Rising(outbox')
      /\ Mounting(outbox)' <=> Mounting(outbox')
      /\ Rising(inbox)' <=> Rising(inbox)
  BY <1>1 DEF ToSet, Rising, Mounting
<1>4. Connected /\ connections # 0
  BY <1>1 DEF Connected, Begun
<1>5. Sound' => Sound
  BY <1>1, <1>2 DEF Sound
<1>6. \A e \in ToSet(outbox') : e \in Of(Watched) /\ Number(e) > stream.resume
  BY <1>1 DEF Later
<1>7. Marks'
  <2>1. stream.resume \in Nat
    BY DEF Typed, StreamTypeOK
  <2>2. LET top == Max({stream.resume} \cup Numbers(outbox')) IN
          /\ stream.resume <= top
          /\ top = stream.resume \/ \E e \in ToSet(outbox') : top = Number(e)
          /\ \A e \in ToSet(outbox') : Number(e) <= top
    BY <1>1, <2>1, HighestNumber
  <2>3. Alive => \A e \in ToSet(outbox') : Number(e) <= counters[Watched]
    BY <1>6, Numerals
  <2>4. Alive => /\ stream.resume <= counters[Watched]
                 /\ stream'.last_sequence <= counters[Watched]
                 /\ stream.via = "polling" =>
                      /\ stream.resume <= stream'.last_sequence
                      /\ \A e \in ToSet(outbox') : Number(e) <= stream'.last_sequence
    BY <1>1, <2>2, <2>3 DEF Marks, Orderly, Turns
  <2>. QED
    BY <1>1, <1>2, <1>3, <1>6, <2>4 DEF Marks, Orderly, Turns
<1>8. Queues' /\ Unsent'
  BY <1>1, <1>2, <1>3 DEF Queues, Unsent, Orderly, Turns
<1>9. Known'
  BY <1>1, <1>2, <1>4, <1>5 DEF Known, Orderly, Turns
<1>10. Overlap'
  <2>1. ASSUME Steady, behind' = 0, stream.via = "pubsub", NEW e \in ToSet(inbox)
        PROVE  e \in ToSet(outbox') \/ ToSet(outbox') = {}
    <3>1. ~FallsShort(outbox')
      BY <1>1, <1>4, <2>1
    <3>2. CASE stream.resume = 0
      BY <1>1, <3>2, NoneListed
    <3>3. CASE ToSet(outbox') = Listed(stream.resume)
      <4>1. e \in Of(Watched) /\ published[e].reach # "none"
        BY <2>1 DEF Typed, Sources, Sent
      <4>2. Number(e) > stream.resume
        BY <2>1, CalmAlive DEF Marks, Orderly, Turns
      <4>. QED
        BY <3>3, <4>1, <4>2 DEF Listed, Later
    <3>. QED
      BY <2>1, <3>1, <3>2, <3>3 DEF FallsShort
  <2>. QED
    BY <1>1, <1>2, <1>3, <2>1 DEF Overlap
<1>11. InOrder'
  BY <1>1, <1>2, <1>5 DEF InOrder, Orderly, Sound
<1>. QED
  BY <1>7, <1>8, <1>9, <1>10, <1>11 DEF Orderly, Turns

(* What the channel brings is newer than whatever the stream has to do with. *)
LEMMA OrderlyBeside ==
  ASSUME Pipe, Typed, Orderly, Beside(Next)
  PROVE  Orderly'
<1>1. /\ Next /\ faults'.crash = faults.crash
      /\ UNCHANGED <<lastEventId, got, stream, outbox, behind, connections, since>>
  BY BesideFacts
<1>2. PICK list \in Seq(Ids') :
        /\ Rising(list) /\ ToSet(list) \subseteq NewIds
        /\ \A e \in ToSet(list) : published'[e].session = Watched
        /\ inbox' = IF Subscribed THEN inbox \o list ELSE inbox
  BY BesideFacts
<1>3. /\ Pipe'
      /\ \A e \in Ids : e \in Ids' /\ published'[e] = published[e]
      /\ \A e \in NewIds : \A d \in Ids : d < e
      /\ \A e \in NewIds : published'[e].number > counters[published'[e].session]
      /\ counters[Watched] <= counters'[Watched]
      /\ Alive' <=> Alive
      /\ Calm' => Calm
      /\ Steady' => Steady
  BY <1>1, Onward, StreamAssumption
<1>4. /\ Got' = Got /\ ToSet(outbox)' = ToSet(outbox) /\ ToSet(inbox)' = ToSet(inbox')
      /\ Rising(outbox)' <=> Rising(outbox)
      /\ Mounting(outbox)' <=> Mounting(outbox)
      /\ Rising(inbox)' <=> Rising(inbox')
      /\ Sound' => Sound
  BY <1>1, <1>3 DEF Got, ToSet, Rising, Mounting, Sound
<1>5. /\ \A e \in Sent : e \in Of(Watched) /\ e \in Ids /\ Number(e) \in Nat
      /\ \A e \in Sent : Number(e)' = Number(e)
      /\ counters[Watched] \in Nat /\ counters'[Watched] \in Nat
      /\ stream.resume \in Nat /\ stream.last_sequence \in Nat /\ stream.seen \subseteq Nat
  <2>1. \A e \in Sent : e \in Of(Watched) /\ e \in Ids /\ Number(e) \in Nat
    BY Numerals DEF Typed, Sources
  <2>2. \A e \in Sent : Number(e)' = Number(e)
    BY <1>3, <2>1 DEF Number
  <2>3. counters[Watched] \in Nat /\ counters'[Watched] \in Nat
    BY <1>3, StreamAssumption DEF Pipe, Inv, TypeRest
  <2>. QED
    BY <2>1, <2>2, <2>3 DEF Typed, StreamTypeOK
<1>6. \A e \in ToSet(list) : /\ Number(e)' > counters[Watched] /\ Number(e)' \in Nat
                             /\ \A d \in Sent : d < e
  <2>1. \A e \in ToSet(list) : Number(e)' > counters[Watched]
    BY <1>2, <1>3 DEF Number
  <2>2. \A e \in ToSet(list) : e \in Ids'
    BY ElementsOf
  <2>3. (\A e \in Ids : Number(e) \in 1 .. Len(published))'
    BY <1>3, Numerals DEF Pipe, Numbering
  <2>4. Len(published') \in Nat
    BY <1>3, LenType DEF Pipe, Inv
  <2>. QED
    BY <1>2, <1>3, <1>5, <2>1, <2>2, <2>3, <2>4
<1>7. /\ ToSet(inbox') \subseteq ToSet(inbox) \cup ToSet(list)
      /\ Steady => Rising(inbox')
  <2>1. inbox \in Seq(Ids') /\ Ids' \subseteq Nat
    <3>1. Ids \subseteq Ids'
      BY <1>3
    <3>2. Ids' \subseteq Nat
      BY DEF Ids
    <3>. QED
      BY <3>1, <3>2, SeqMonotonic DEF Typed, StreamTypeOK
  <2>2. \A x \in ToSet(inbox), y \in ToSet(list) : x < y
    BY <1>6 DEF Sent
  <2>3. /\ ToSet(inbox \o list) = ToSet(inbox) \cup ToSet(list)
        /\ Rising(inbox) => Rising(inbox \o list)
    BY <1>2, <2>1, <2>2, Chained
  <2>. QED
    BY <1>2, <2>3 DEF Queues, Orderly, Turns
<1>8. Marks'
  <2>1. ASSUME Alive
        PROVE  /\ stream.resume <= counters'[Watched] /\ stream.last_sequence <= counters'[Watched]
               /\ \A n \in stream.seen : n > stream.resume /\ \E e \in Got : Number(e)' = n
               /\ \A e \in ToSet(inbox') \cup ToSet(outbox) : Number(e)' > stream.resume
               /\ stream.via = "polling" =>
                    /\ stream.resume <= stream.last_sequence
                    /\ \A n \in stream.seen : n <= stream.last_sequence
                    /\ \A e \in ToSet(outbox) : Number(e)' <= stream.last_sequence
    <3>1. Marks
      BY DEF Orderly, Turns
    <3>2. stream.resume <= counters[Watched] /\ stream.last_sequence <= counters[Watched]
      BY <2>1, <3>1 DEF Marks
    <3>3. stream.resume <= counters'[Watched] /\ stream.last_sequence <= counters'[Watched]
      BY <1>3, <1>5, <3>2
    <3>4. \A n \in stream.seen : n > stream.resume /\ \E e \in Got : Number(e)' = n
      BY <1>5, <2>1, <3>1 DEF Marks, Sent
    <3>5. \A e \in ToSet(list) : Number(e)' > stream.resume
      BY <1>5, <1>6, <3>2
    <3>6. \A e \in ToSet(inbox) \cup ToSet(outbox) : Number(e)' > stream.resume
      BY <1>5, <2>1, <3>1 DEF Marks, Sent
    <3>7. stream.via = "polling" =>
                    /\ stream.resume <= stream.last_sequence
                    /\ \A n \in stream.seen : n <= stream.last_sequence
                    /\ \A e \in ToSet(outbox) : Number(e)' <= stream.last_sequence
      BY <1>5, <2>1, <3>1 DEF Marks, Sent
    <3>. QED
      BY <1>7, <3>3, <3>4, <3>5, <3>6, <3>7
  <2>. QED
    BY <1>1, <1>3, <1>4, <2>1 DEF Marks
<1>9. Queues'
  BY <1>3, <1>4, <1>7 DEF Queues, Orderly, Turns
<1>10. Known' /\ Unsent'
  BY <1>1, <1>4, <1>5 DEF Known, Unsent, Connected, Orderly, Turns, Sent
<1>11. Overlap'
  <2>1. ASSUME Steady, behind = 0, stream.via = "pubsub", stream.stage \in {"replaying", "live"},
               NEW e \in ToSet(inbox')
        PROVE  \/ e \in ToSet(outbox)
               \/ Number(e)' \in stream.seen
               \/ (\A n \in stream.seen : n < Number(e)') /\ (\A d \in ToSet(outbox) : d < e)
    <3>1. CASE e \in ToSet(inbox)
      BY <1>5, <2>1, <3>1 DEF Overlap, Orderly, Turns, Sent
    <3>2. CASE e \in ToSet(list)
      <4>1. \A g \in Got : Number(g) <= counters[Watched]
        BY <1>5, <2>1, Numerals, CalmAlive DEF Sent
      <4>2. \A n \in stream.seen : n <= counters[Watched]
        BY <2>1, <4>1, CalmAlive DEF Marks, Orderly, Turns
      <4>3. \A n \in stream.seen : n < Number(e)'
        BY <1>5, <1>6, <3>2, <4>2
      <4>. QED
        BY <1>6, <3>2, <4>3 DEF Sent
    <3>. QED
      BY <1>7, <2>1, <3>1, <3>2
  <2>. QED
    BY <1>1, <1>3, <1>4, <2>1 DEF Overlap
<1>12. InOrder'
  BY <1>1, <1>3 DEF InOrder, Orderly
<1>. QED
  BY <1>8, <1>9, <1>10, <1>11, <1>12 DEF Orderly, Turns

(* The steps of the stream, one by one.                                      *)
LEMMA OrderlyNext ==
  ASSUME Pipe, Typed, Begun, Orderly, [StreamNext]_allVars
  PROVE  Orderly'
<1>1. CASE UNCHANGED allVars
  <2>1. /\ \A e : Number(e)' = Number(e)
        /\ Got' = Got /\ ToSet(inbox)' = ToSet(inbox) /\ ToSet(outbox)' = ToSet(outbox)
        /\ Rising(inbox)' <=> Rising(inbox)
        /\ Rising(outbox)' <=> Rising(outbox)
        /\ Mounting(outbox)' <=> Mounting(outbox)
        /\ Alive' <=> Alive
        /\ Calm' <=> Calm
        /\ Steady' <=> Steady
        /\ UNCHANGED <<lastEventId, got, stream, behind, connections, counters>>
    BY <1>1 DEF allVars, vars, streamVars, Number, Got, ToSet, Rising, Mounting, Alive, Calm, Steady
  <2>2. Sound' <=> Sound
    BY <2>1 DEF Sound
  <2>3. Marks' /\ Queues' /\ Known' /\ Unsent' /\ Overlap'
    BY <2>1, <2>2 DEF Marks, Queues, Known, Unsent, Overlap, Connected, Orderly, Turns
  <2>4. InOrder'
    BY <2>1 DEF InOrder, Orderly
  <2>. QED
    BY <2>3, <2>4 DEF Orderly, Turns
<1>2. CASE Restart
  <2>1. Crash /\ UNCHANGED <<got, behind, connections>>
    BY <1>2 DEF Restart
  <2>2. ~Alive'
    <3>1. faults \in [pg : Nat, ack : Nat, redis : Nat, crash : Nat] /\ faults' = [faults EXCEPT !.crash = @ + 1]
      BY <2>1 DEF Pipe, Inv, TypeRest, Faults, Crash
    <3>. QED
      BY <3>1 DEF Alive
  <2>3. ~Calm' /\ ~Steady' /\ ~Sound'
    BY <2>2 DEF Calm, Steady, Alive, Sound
  <2>. QED
    BY <2>2, <2>3 DEF Orderly, Turns, Marks, Queues, Known, Unsent, Overlap, InOrder
<1>3. CASE Disconnect
  <2>1. Aside /\ Pipe'
    BY <1>3, StreamAside, PipeAside
  <2>2. /\ stream'.stage = "off" /\ stream'.via = "pubsub" /\ stream'.resume = 0
        /\ stream'.seen = {} /\ stream'.last_sequence = 0 /\ inbox' = <<>> /\ outbox' = <<>>
        /\ UNCHANGED <<got, behind, connections>>
    BY <1>3 DEF Disconnect, Off
  <2>3. Turns'
    BY <2>1, <2>2, OrderlyEnd
  <2>4. InOrder'
    BY <2>1, <2>2, AsideCalm DEF InOrder, Orderly
  <2>. QED
    BY <2>3, <2>4 DEF Orderly
<1>. QED
  BY <1>1, <1>2, <1>3, OrderlyBeside, OrderlyConnect, OrderlyReplay, OrderlySendReplayed,
     OrderlyHeard, OrderlyPolled, OrderlyPoll, OrderlyRedisError DEF StreamNext, Serve

LEMMA OrderlyAlways == StreamSpec => [](Pipe /\ Typed /\ Begun /\ Orderly)
<1>1. StreamInit => Begun
  BY DEF StreamInit, Begun, Connected, Off
<1>. QED
  BY <1>1, PipeInit, TypedInit, OrderlyInit, TypedNext, BegunNext, OrderlyNext, PTL DEF StreamSpec

(* The browser gets the events in the order of their publication, each once, *)
(* as far as the process lives, the retry worker has saved none of them and  *)
(* none was stored twice, which takes a commit that was not acknowledged.    *)
THEOREM AlwaysInOrder == StreamSpec => []InOrder
<1>1. Orderly => InOrder
  BY DEF Orderly
<1>. QED
  BY <1>1, OrderlyAlways, PTL

----------------------------------------------------------------------------
(* Why nothing is missed: where an event is that the browser is owed.  As    *)
(* long as PostgreSQL has not failed and no replay fell short, ...           *)
Intact == Unrefused /\ behind = 0
Owed == {d \in Of(Watched) : since < d /\ published[d].reach = "all"}

(* ... a first connection has on its channel what was published since, ...   *)
OnChannel ==
  Intact /\ stream.stage = "connected" /\ stream.via = "pubsub" /\ stream.resume = 0 =>
    Owed \subseteq ToSet(inbox)

(* ... a connection with a channel has sent it, read it or heard it, ...     *)
AtTheChannel ==
  Intact /\ stream.stage \in {"replaying", "live"} /\ stream.via = "pubsub" =>
    Owed \subseteq Sent

(* ... one that polls has sent it, read it or will ask for it, ...           *)
AtTheTable ==
  Intact /\ stream.stage \in {"replaying", "live"} /\ stream.via = "polling" =>
    \A d \in Owed : d \in Got \cup ToSet(outbox) \/ Number(d) > stream.last_sequence

(* ... and the browser has it if it has anything newer.                      *)
Covered == Intact => \A e \in Got, d \in Owed : d < e => d \in Got

Complete == OnChannel /\ AtTheChannel /\ AtTheTable /\ Covered

LEMMA CompleteInit == StreamInit => Complete
<1> SUFFICES ASSUME StreamInit PROVE Complete
  OBVIOUS
<1>1. Got = {} /\ stream.stage = "off"
  BY NoneListed, Gots DEF StreamInit, Off
<1>. QED
  BY <1>1 DEF Complete, OnChannel, AtTheChannel, AtTheTable, Covered

LEMMA CoveredIsGapless ==
  ASSUME Pipe, Covered
  PROVE  NoGap
<1>1. faults.pg \in Nat /\ faults.crash \in Nat
  BY HarmType DEF Pipe, Inv
<1>2. faults.crash + faults.pg = 0 => Unrefused
  BY <1>1 DEF Unrefused
<1>. QED
  BY <1>2 DEF NoGap, Covered, Intact, Owed

(* The numbers of what is owed and sent are in the order of publication.     *)
LEMMA OwedFacts ==
  ASSUME Pipe, Typed
  PROVE  /\ Intact => Steady /\ Alive
         /\ \A x \in Owed \cup Sent : x \in Of(Watched) /\ x \in Ids /\ x \in Nat /\ Number(x) \in Nat
                                      /\ Number(x) > 0
         /\ Intact => \A d, x \in Owed \cup Sent : /\ d < x <=> Number(d) < Number(x)
                                                   /\ Number(d) = Number(x) => d = x
         /\ stream.resume \in Nat /\ stream.last_sequence \in Nat /\ stream.seen \subseteq Nat
<1>1. Intact => Steady /\ Alive
  BY AliveFacts DEF Intact
<1>2. \A x \in Owed \cup Sent : x \in Of(Watched)
  BY DEF Owed, Typed, Sources
<1>. QED
  BY <1>1, <1>2, Numerals DEF Typed, StreamTypeOK

(* An event whose number the stream has noted has been sent.                 *)
LEMMA NotedIsGot ==
  ASSUME Pipe, Typed, Orderly, Intact, NEW d \in Owed \cup Sent, Number(d) \in stream.seen
  PROVE  d \in Got
<1>1. PICK g \in Got : Number(g) = Number(d)
  BY OwedFacts DEF Orderly, Turns, Marks
<1>2. g \in Sent
  BY DEF Sent
<1>. QED
  BY <1>1, <1>2, OwedFacts

(* A step aside leaves what is owed as it is.                                *)
LEMMA OwedAside ==
  ASSUME Pipe, Aside, behind' = behind
  PROVE  /\ Intact' => Intact
         /\ \A x : Number(x)' = Number(x)
         /\ Stored' = Stored
         /\ since' = since => Owed' = Owed
<1>1. published' = published /\ Of(Watched)' = Of(Watched)
  BY AsideFacts
<1>. QED
  BY <1>1, AsideCalm, AsideFacts DEF Intact, Owed

(* What was owed before the event that was read next has been sent.          *)
LEMMA ReadCovers ==
  ASSUME Pipe, Typed, Orderly, Complete, Intact,
         stream.stage \in {"replaying", "live"}, outbox # <<>>,
         NEW d \in Owed, d < Head(outbox)
  PROVE  d \in Got
<1> DEFINE e == Head(outbox)
<1>1. /\ outbox \in Seq(Ids) /\ Ids \subseteq Nat /\ e \in ToSet(outbox)
      /\ \A x \in ToSet(outbox) : x = e \/ e <= x
  <2>1. outbox \in Seq(Ids) /\ Ids \subseteq Nat
    BY Numerals DEF Typed, StreamTypeOK
  <2>2. e \in ToSet(outbox) /\ ToSet(outbox) = {e} \cup ToSet(Tail(outbox))
    BY <2>1, Heads
  <2>3. Mounting(outbox)
    BY OwedFacts DEF Orderly, Turns, Queues
  <2>4. \A x \in ToSet(Tail(outbox)) : e <= x
    BY <2>1, <2>3, MountingTail
  <2>. QED
    BY <2>1, <2>2, <2>4
<1>2. d < e
  OBVIOUS
<1>. HIDE DEF e
<1>3. e \in Sent /\ e \in Nat /\ d \in Nat /\ Number(d) < Number(e) /\ Number(d) \in Nat /\ Number(e) \in Nat
  BY <1>1, <1>2, OwedFacts DEF Sent
<1>4. d \notin ToSet(outbox)
  BY <1>1, <1>2, <1>3
<1>5. CASE stream.via = "pubsub"
  <2>1. d \in Sent
    BY <1>5 DEF Complete, AtTheChannel
  <2>2. CASE d \in ToSet(inbox)
    <3>1. \/ Number(d) \in stream.seen
          \/ \A x \in ToSet(outbox) : x < d
      BY <1>4, <1>5, <2>2, OwedFacts DEF Overlap, Orderly, Turns, Intact
    <3>2. ~(e < d)
      BY <1>2, <1>3
    <3>. QED
      BY <1>1, <3>1, <3>2, NotedIsGot
  <2>. QED
    BY <1>4, <2>1, <2>2 DEF Sent
<1>6. CASE stream.via = "polling"
  <2>1. d \in Got \cup ToSet(outbox) \/ Number(d) > stream.last_sequence
    BY <1>6 DEF Complete, AtTheTable
  <2>2. Number(e) <= stream.last_sequence /\ stream.last_sequence \in Nat
    BY <1>1, <1>6, OwedFacts DEF Orderly, Turns, Marks
  <2>. QED
    BY <1>3, <1>4, <2>1, <2>2
<1>. QED
  BY <1>5, <1>6 DEF Typed, StreamTypeOK

(* Sending what was read.                                                    *)
LEMMA CompleteRead ==
  ASSUME Pipe, Typed, Orderly, Complete, Aside, outbox # <<>>, NEW e, e = Head(outbox),
         outbox' = Tail(outbox), Yield(e),
         UNCHANGED <<inbox, behind, connections, since>>,
         stream.stage \in {"replaying", "live"},
         stream'.stage \in {"replaying", "live"}, stream'.via = stream.via,
         stream'.last_sequence = stream.last_sequence
  PROVE  Complete'
<1>1. /\ e \in Sent /\ ToSet(outbox) = {e} \cup ToSet(outbox')
  <2>1. outbox \in Seq(Ids)
    BY DEF Typed, StreamTypeOK
  <2>. QED
    BY <2>1, Heads DEF Sent
<1>2. Got' = Got \cup {e}
  BY <1>1, YieldFacts
<1>3. /\ Intact' => Intact
      /\ \A x : Number(x)' = Number(x)
      /\ Owed' = Owed
  BY OwedAside
<1>4. Sent' = Got' \cup ToSet(inbox) \cup ToSet(outbox')
  BY DEF Sent, ToSet
<1>5. Sent' = Sent
  BY <1>1, <1>2, <1>4 DEF Sent
<1>6. OnChannel' /\ AtTheChannel'
  BY <1>3, <1>5 DEF OnChannel, AtTheChannel, Complete
<1>7. AtTheTable'
  <2>1. ToSet(outbox)' = ToSet(outbox')
    BY DEF ToSet
  <2>. QED
    BY <1>1, <1>2, <1>3, <2>1 DEF AtTheTable, Complete
<1>8. Covered'
  <2>1. ASSUME Intact, NEW x \in Got \cup {e}, NEW d \in Owed, d < x
        PROVE  d \in Got \cup {e}
    BY <2>1, ReadCovers DEF Covered, Complete
  <2>. QED
    BY <1>2, <1>3, <2>1 DEF Covered
<1>. QED
  BY <1>6, <1>7, <1>8 DEF Complete

LEMMA CompleteSendReplayed ==
  ASSUME Pipe, Typed, Orderly, Complete, SendReplayed
  PROVE  Complete'
<1>1. /\ Aside /\ stream.stage = "replaying" /\ outbox # <<>>
      /\ outbox' = Tail(outbox) /\ Yield(Head(outbox))
      /\ UNCHANGED <<inbox, behind, connections, since>>
      /\ stream'.stage \in {"replaying", "live"}
      /\ stream'.via = stream.via /\ stream'.last_sequence = stream.last_sequence
  BY SendReplayedFacts
<1>. QED
  BY <1>1, CompleteRead

(* A stream that has ended owes nothing but what the browser has.            *)
LEMMA CompleteEnd ==
  ASSUME stream'.stage \notin {"connected", "replaying", "live"}, Covered'
  PROVE  Complete'
BY DEF Complete, OnChannel, AtTheChannel, AtTheTable

LEMMA CompletePolled ==
  ASSUME Pipe, Typed, Orderly, Complete, SendPolled
  PROVE  Complete'
<1> DEFINE e == Head(outbox)
<1>1. /\ Aside /\ stream.stage = "live" /\ stream.via = "polling"
      /\ outbox \in Seq(Ids) /\ outbox # <<>> /\ e \in Sent
      /\ UNCHANGED <<inbox, behind, connections, since>>
      /\ \/ /\ Number(e) \in stream.seen
            /\ outbox' = Tail(outbox) /\ UNCHANGED <<lastEventId, got, stream>>
         \/ outbox' = Tail(outbox) /\ Goes(e)
         \/ outbox' = <<>> /\ Ends(e)
  BY SendPolledFacts
<1>2. /\ Intact' => Intact
      /\ \A x : Number(x)' = Number(x)
      /\ Owed' = Owed
  BY <1>1, OwedAside
<1>3. CASE Number(e) \in stream.seen /\ outbox' = Tail(outbox) /\ UNCHANGED <<lastEventId, got, stream>>
  <2>1. ToSet(outbox) = {e} \cup ToSet(outbox') /\ ToSet(outbox)' = ToSet(outbox') /\ Got' = Got
    BY <1>1, <1>3, Heads DEF ToSet, Got
  <2>2. Intact => e \in Got
    BY <1>1, <1>3, NotedIsGot
  <2>3. AtTheTable'
    BY <1>1, <1>2, <1>3, <2>1, <2>2 DEF AtTheTable, Complete
  <2>4. OnChannel' /\ AtTheChannel' /\ Covered'
    BY <1>1, <1>2, <1>3, <2>1 DEF OnChannel, AtTheChannel, Covered, Complete
  <2>. QED
    BY <2>3, <2>4 DEF Complete
<1>4. CASE outbox' = Tail(outbox) /\ Goes(e)
  BY <1>1, <1>4, CompleteRead DEF Goes
<1>5. CASE outbox' = <<>> /\ Ends(e)
  <2>1. Got' = Got \cup {e}
    BY <1>1, <1>5, YieldFacts DEF Ends
  <2>2. ASSUME Intact, NEW x \in Got \cup {e}, NEW d \in Owed, d < x
        PROVE  d \in Got \cup {e}
    BY <1>1, <2>2, ReadCovers DEF Covered, Complete
  <2>3. Covered'
    BY <1>2, <2>1, <2>2 DEF Covered
  <2>. QED
    BY <1>5, <2>3, CompleteEnd DEF Ends
<1>. QED
  BY <1>1, <1>3, <1>4, <1>5

(* Passing on, or passing over, what the channel has brought.                *)
LEMMA CompleteHeard ==
  ASSUME Pipe, Typed, Orderly, Complete, SendHeard
  PROVE  Complete'
<1> DEFINE e == Head(inbox)
<1>1. /\ Aside /\ stream.stage = "live" /\ stream.via = "pubsub" /\ outbox = <<>>
      /\ inbox \in Seq(Ids) /\ inbox # <<>> /\ e \in Sent
      /\ UNCHANGED <<outbox, behind, connections, since>>
      /\ \/ /\ Number(e) \in stream.seen
            /\ inbox' = Tail(inbox) /\ UNCHANGED <<lastEventId, got, stream>>
         \/ inbox' = Tail(inbox) /\ Goes(e)
         \/ inbox' = <<>> /\ Ends(e)
  BY SendHeardFacts
<1>2. /\ Intact' => Intact
      /\ \A x : Number(x)' = Number(x)
      /\ Owed' = Owed
  BY <1>1, OwedAside
<1>3. /\ ToSet(inbox) = {e} \cup ToSet(Tail(inbox))
      /\ Intact => \A x \in ToSet(Tail(inbox)) : e < x
  <2>1. Ids \subseteq Nat
    BY Numerals
  <2>2. Intact => Rising(inbox)
    BY OwedFacts DEF Orderly, Turns, Queues
  <2>3. Rising(inbox) => \A x \in ToSet(Tail(inbox)) : e < x
    BY <1>1, <2>1, RisingTail
  <2>. QED
    BY <1>1, <2>2, <2>3, Heads
<1>4. ToSet(outbox) = {}
  BY <1>1, NoneListed
<1>5. ASSUME Intact
      PROVE  /\ Owed \subseteq Got \cup {e} \cup ToSet(Tail(inbox))
             /\ \A d \in Owed : d < e => d \in Got
  <2>1. Owed \subseteq Got \cup ToSet(inbox)
    BY <1>1, <1>4, <1>5 DEF AtTheChannel, Complete, Sent
  <2>2. ASSUME NEW d \in Owed, d < e
        PROVE  d \in Got
    <3>1. d \in Nat /\ e \in Nat
      BY <1>1, OwedFacts
    <3>2. d # e /\ ~(e < d)
      BY <2>2, <3>1
    <3>. QED
      BY <1>3, <1>5, <2>1, <2>2, <3>2
  <2>. QED
    BY <1>3, <2>1, <2>2
<1>6. Sent' = Got' \cup ToSet(inbox') \cup ToSet(outbox')
  BY DEF Sent, ToSet
<1>7. CASE Number(e) \in stream.seen /\ inbox' = Tail(inbox) /\ UNCHANGED <<lastEventId, got, stream>>
  <2>1. Got' = Got
    BY <1>7 DEF Got
  <2>2. Intact => e \in Got
    BY <1>1, <1>7, NotedIsGot
  <2>3. AtTheChannel'
    BY <1>2, <1>5, <1>6, <1>7, <2>1, <2>2 DEF AtTheChannel
  <2>4. OnChannel' /\ AtTheTable' /\ Covered'
    BY <1>1, <1>2, <1>7, <2>1 DEF OnChannel, AtTheTable, Covered, Complete
  <2>. QED
    BY <2>3, <2>4 DEF Complete
<1>8. ASSUME Yield(e)
      PROVE  Got' = Got \cup {e} /\ Covered'
  <2>1. Got' = Got \cup {e}
    BY <1>1, <1>8, YieldFacts
  <2>2. ASSUME Intact, NEW x \in Got \cup {e}, NEW d \in Owed, d < x
        PROVE  d \in Got \cup {e}
    BY <1>5, <2>2 DEF Covered, Complete
  <2>. QED
    BY <1>2, <2>1, <2>2 DEF Covered
<1>9. CASE inbox' = Tail(inbox) /\ Goes(e)
  <2>1. Got' = Got \cup {e} /\ Covered'
    BY <1>8, <1>9 DEF Goes
  <2>2. AtTheChannel'
    BY <1>2, <1>5, <1>6, <1>9, <2>1 DEF AtTheChannel
  <2>3. OnChannel' /\ AtTheTable'
    BY <1>1, <1>9 DEF OnChannel, AtTheTable, Goes
  <2>. QED
    BY <2>1, <2>2, <2>3 DEF Complete
<1>10. CASE inbox' = <<>> /\ Ends(e)
  <2>1. Covered'
    BY <1>8, <1>10 DEF Ends
  <2>. QED
    BY <1>10, <2>1, CompleteEnd DEF Ends
<1>. QED
  BY <1>1, <1>7, <1>9, <1>10

(* Until PostgreSQL fails the table holds the beginning of what was          *)
(* published: what it lacks is newer than what it has.                       *)
LEMMA UnstoredIsNewer ==
  ASSUME Pipe, Typed, Intact, NEW d \in Owed, d \notin Stored, NEW x \in Stored \cap Of(Watched)
  PROVE  x < d /\ Number(x) < Number(d)
<1>1. NoOvertaking
  BY LinedUp DEF Pipe
<1>2. published[d].reach = "all" /\ d \in Of(Watched)
  BY DEF Owed
<1>3. faults.pg + faults.crash = 0 /\ Alive
  BY OwedFacts DEF Intact, Unrefused
<1>4. d \in Ids /\ d \in Nat /\ x \in Nat
  BY <1>2, Numerals
<1>5. ~(d < x) /\ d # x
  BY <1>1, <1>2, <1>3, <1>4 DEF NoOvertaking
<1>. QED
  BY <1>2, <1>3, <1>4, <1>5, Numerals

(* A batch of a poll passes over nothing.                                    *)
LEMMA CompletePoll ==
  ASSUME Pipe, Typed, Orderly, Complete, Poll
  PROVE  Complete'
<1>1. /\ Aside /\ stream.stage = "live" /\ stream.via = "polling" /\ outbox = <<>>
      /\ UNCHANGED <<got, inbox, behind, connections, since>>
      /\ stream'.stage = "live" /\ stream'.via = "polling"
      /\ stream'.last_sequence = Max(Numbers(outbox'))
      /\ outbox' \in Seq(Ids) /\ outbox' # <<>>
      /\ ToSet(outbox') \subseteq Later(stream.last_sequence) \cap Stored
      /\ Steady => \A x \in ToSet(outbox'), y \in Later(stream.last_sequence) \cap Stored :
                     y \in ToSet(outbox') \/ x < y
  BY PollFacts
<1>2. /\ Intact' => Intact
      /\ \A x : Number(x)' = Number(x)
      /\ Owed' = Owed /\ Got' = Got /\ ToSet(outbox)' = ToSet(outbox')
  BY <1>1, OwedAside DEF Got, ToSet
<1>3. \E x \in ToSet(outbox') : stream'.last_sequence = Number(x)
  BY <1>1, HighestNumber
<1>4. PICK x \in ToSet(outbox') : stream'.last_sequence = Number(x)
  BY <1>3
<1>5. x \in Of(Watched) /\ x \in Stored
  BY <1>1 DEF Later
<1>6. ASSUME Intact, NEW d \in Owed
      PROVE  d \in Got \cup ToSet(outbox') \/ Number(d) > stream'.last_sequence
  <2>1. d \in Got \/ Number(d) > stream.last_sequence
    BY <1>1, <1>6, NoneListed DEF AtTheTable, Complete
  <2>2. d \in Of(Watched) /\ x \in Nat /\ d \in Nat /\ Number(x) \in Nat /\ Number(d) \in Nat
    BY <1>5, Numerals DEF Owed
  <2>3. CASE d \in Stored /\ Number(d) > stream.last_sequence
    <3>1. d \in Later(stream.last_sequence) \cap Stored
      BY <2>2, <2>3 DEF Later
    <3>2. d \in ToSet(outbox') \/ x < d
      BY <1>1, <1>6, <3>1, OwedFacts
    <3>3. x < d => Number(x) < Number(d)
      BY <1>5, <1>6, <2>2, Numerals, OwedFacts
    <3>. QED
      BY <1>4, <2>2, <3>2, <3>3
  <2>4. CASE d \notin Stored
    <3>1. Number(x) < Number(d)
      BY <1>5, <1>6, <2>4, UnstoredIsNewer
    <3>. QED
      BY <1>4, <2>2, <3>1
  <2>. QED
    BY <2>1, <2>3, <2>4
<1>7. AtTheTable'
  BY <1>2, <1>6 DEF AtTheTable
<1>8. OnChannel' /\ AtTheChannel'
  BY <1>1 DEF OnChannel, AtTheChannel
<1>9. Covered'
  BY <1>2 DEF Covered, Complete
<1>. QED
  BY <1>7, <1>8, <1>9 DEF Complete

(* What the channel has brought and the stream has not sent is newer than    *)
(* the number from which it polls.                                           *)
LEMMA CompleteRedisError ==
  ASSUME Pipe, Typed, Orderly, Complete, RedisError
  PROVE  Complete'
<1>1. /\ Aside /\ stream.stage = "live" /\ stream.via = "pubsub" /\ outbox = <<>>
      /\ UNCHANGED <<got, outbox, behind, connections, since>>
      /\ stream'.stage = "live" /\ stream'.via = "polling"
      /\ \/ stream'.last_sequence = stream.resume
         \/ stream'.last_sequence \in stream.seen
  BY RedisErrorFacts
<1>2. /\ Intact' => Intact
      /\ \A x : Number(x)' = Number(x)
      /\ Owed' = Owed /\ Got' = Got
  BY <1>1, OwedAside DEF Got
<1>3. ASSUME Intact, NEW d \in Owed
      PROVE  d \in Got \/ Number(d) > stream'.last_sequence
  <2>1. ToSet(outbox) = {}
    BY <1>1, NoneListed
  <2>2. d \in Got \cup ToSet(inbox)
    BY <1>1, <1>3, <2>1 DEF AtTheChannel, Complete, Sent
  <2>3. CASE d \in ToSet(inbox)
    <3>1. Number(d) \in stream.seen \/ \A n \in stream.seen : n < Number(d)
      BY <1>1, <1>3, <2>1, <2>3, OwedFacts DEF Overlap, Orderly, Turns, Intact
    <3>2. Number(d) > stream.resume
      BY <1>3, <2>3, OwedFacts DEF Marks, Orderly, Turns
    <3>3. Number(d) \in Nat /\ stream.resume \in Nat /\ stream.seen \subseteq Nat
      BY OwedFacts
    <3>. QED
      BY <1>1, <1>3, <3>1, <3>2, <3>3, NotedIsGot
  <2>. QED
    BY <2>2, <2>3
<1>4. AtTheTable'
  BY <1>2, <1>3 DEF AtTheTable
<1>5. OnChannel' /\ AtTheChannel'
  BY <1>1 DEF OnChannel, AtTheChannel
<1>6. Covered'
  BY <1>2 DEF Covered, Complete
<1>. QED
  BY <1>4, <1>5, <1>6 DEF Complete

LEMMA CompleteConnect ==
  ASSUME Pipe, Typed, Complete, Connect
  PROVE  Complete'
<1>1. /\ Aside /\ UNCHANGED <<got, behind>>
      /\ since' = IF lastEventId = 0 THEN Len(published) ELSE since
      /\ stream'.stage = "connected" /\ stream'.resume = lastEventId
  BY ConnectFacts
<1>2. AtTheChannel' /\ AtTheTable'
  BY <1>1 DEF AtTheChannel, AtTheTable
<1>3. CASE lastEventId = 0
  <2>1. Owed' = {}
    <3>1. Owed' \subseteq {d \in Of(Watched) : Len(published) < d}
      BY <1>1, <1>3, AsideFacts DEF Owed
    <3>2. \A d \in Of(Watched) : d \in 1 .. Len(published) /\ Len(published) \in Nat
      BY Numerals
    <3>. QED
      BY <3>1, <3>2
  <2>. QED
    BY <1>2, <2>1 DEF Complete, OnChannel, Covered
<1>4. CASE lastEventId # 0
  <2>1. OnChannel'
    BY <1>1, <1>4 DEF OnChannel
  <2>2. Covered'
    BY <1>1, <1>4, OwedAside DEF Covered, Complete, Got
  <2>. QED
    BY <1>2, <2>1, <2>2 DEF Complete
<1>. QED
  BY <1>3, <1>4

(* A replay, if there is one, goes on from the last event, and what it lacks *)
(* is on the channel or will be asked for.                                   *)
LEMMA CompleteReplay ==
  ASSUME Pipe, Typed, Begun, Orderly, Complete, Replay
  PROVE  Complete'
<1>1. /\ Aside /\ stream.stage = "connected"
      /\ stream.resume = lastEventId
      /\ UNCHANGED <<lastEventId, got, inbox, connections, since>>
      /\ behind' = IF behind = 0 /\ FallsShort(outbox') THEN connections ELSE behind
      /\ stream'.stage \in {"live", "replaying"} /\ stream'.via = stream.via
      /\ stream'.last_sequence = IF stream.via = "polling"
           THEN Max({stream.resume} \cup Numbers(outbox')) ELSE stream.last_sequence
      /\ outbox' \in Seq(Ids)
      /\ ToSet(outbox') \subseteq Later(stream.resume)
      /\ stream.resume = 0 => outbox' = <<>>
      /\ \/ stream.resume = 0
         \/ ~Unrefused'
         \/ ToSet(outbox') = Listed(stream.resume)
         \/ ToSet(outbox') = Later(stream.resume) \cap Stored
  BY ReplayFacts
<1>2. /\ \A x : Number(x)' = Number(x)
      /\ Owed' = Owed /\ Got' = Got /\ ToSet(outbox)' = ToSet(outbox')
      /\ Sent' = Got \cup ToSet(inbox) \cup ToSet(outbox')
  BY <1>1, AsideFacts DEF Owed, Got, ToSet, Sent
<1>3. /\ Intact' => Intact
      /\ Intact' => ~FallsShort(outbox') /\ Unrefused'
  <2>1. connections # 0
    BY <1>1 DEF Begun, Connected
  <2>2. Unrefused' => Unrefused
    BY <1>1, AsideCalm
  <2>. QED
    BY <1>1, <2>1, <2>2 DEF Intact
<1>4. OnChannel'
  BY <1>1 DEF OnChannel
<1>5. Covered'
  BY <1>2, <1>3 DEF Covered, Complete
<1>6. ASSUME Intact', NEW d \in Owed, stream.resume # 0, Number(d) <= stream.resume
      PROVE  d \in Got
  <2>1. got # <<>>
    BY <1>1, <1>6 DEF Typed, Resumes
  <2>2. PICK g \in Got : stream.resume = Number(g)
    BY <1>1, <2>1, LastGot
  <2>3. d < g \/ d = g
    <3>1. g \in Sent /\ Intact
      BY <1>3, <1>6 DEF Sent
    <3>. QED
      BY <1>6, <2>2, <3>1, OwedFacts
  <2>. QED
    BY <1>3, <1>6, <2>3 DEF Covered, Complete
<1>7. ASSUME NEW d \in Owed, Number(d) > stream.resume
      PROVE  d \in Later(stream.resume) /\ d \in Listed(stream.resume)
  BY <1>7 DEF Later, Listed, Owed
<1>8. \A d \in Owed : Number(d) \in Nat /\ stream.resume \in Nat /\ Number(d) > 0
  BY OwedFacts
<1>9. ASSUME Intact', stream.via = "pubsub", NEW d \in Owed
      PROVE  d \in Got \cup ToSet(inbox) \cup ToSet(outbox')
  <2>1. CASE stream.resume = 0
    BY <1>1, <1>3, <1>9, <2>1 DEF OnChannel, Complete
  <2>2. CASE stream.resume # 0 /\ Number(d) <= stream.resume
    BY <1>6, <1>9, <2>2
  <2>3. CASE stream.resume # 0 /\ Number(d) > stream.resume
    BY <1>3, <1>7, <1>9, <2>3 DEF FallsShort
  <2>. QED
    BY <1>8, <2>1, <2>2, <2>3
<1>10. AtTheChannel'
  BY <1>1, <1>2, <1>9 DEF AtTheChannel
<1>11. ASSUME Intact', stream.via = "polling", NEW d \in Owed
       PROVE  d \in Got \cup ToSet(outbox') \/ Number(d) > stream'.last_sequence
  <2>1. /\ stream'.last_sequence = Max({stream.resume} \cup Numbers(outbox'))
        /\ \/ stream'.last_sequence = stream.resume
           \/ \E x \in ToSet(outbox') : stream'.last_sequence = Number(x)
    BY <1>1, <1>8, <1>11, HighestNumber
  <2>2. CASE Number(d) <= stream.resume
    BY <1>6, <1>8, <1>11, <2>2
  <2>3. CASE Number(d) > stream.resume /\ stream'.last_sequence = stream.resume
    BY <2>3
  <2>4. ASSUME Number(d) > stream.resume,
               NEW x \in ToSet(outbox'), stream'.last_sequence = Number(x)
        PROVE  d \in ToSet(outbox') \/ Number(d) > stream'.last_sequence
    <3>1. CASE stream.resume = 0
      BY <1>1, <2>4, <3>1, NoneListed
    <3>2. CASE ToSet(outbox') = Listed(stream.resume)
      BY <1>7, <2>4, <3>2
    <3>3. CASE ToSet(outbox') = Later(stream.resume) \cap Stored
      <4>1. CASE d \in Stored
        BY <1>7, <2>4, <3>3, <4>1
      <4>2. CASE d \notin Stored
        <5>1. x \in Stored \cap Of(Watched) /\ Number(x) \in Nat
          BY <2>4, <3>3, Numerals DEF Later
        <5>2. Number(x) < Number(d)
          BY <1>3, <1>11, <4>2, <5>1, UnstoredIsNewer
        <5>. QED
          BY <1>8, <2>4, <5>1, <5>2
      <4>. QED
        BY <4>1, <4>2
    <3>. QED
      BY <1>1, <1>3, <1>11, <3>1, <3>2, <3>3
  <2>. QED
    BY <1>8, <2>1, <2>2, <2>3, <2>4
<1>12. AtTheTable'
  BY <1>1, <1>2, <1>11 DEF AtTheTable
<1>. QED
  BY <1>4, <1>5, <1>10, <1>12 DEF Complete

(* What the pipeline publishes is on the channel or newer than a poll.       *)
LEMMA CompleteBeside ==
  ASSUME Pipe, Typed, Orderly, Complete, Beside(Next)
  PROVE  Complete'
<1>1. /\ Next /\ faults'.crash = faults.crash
      /\ UNCHANGED <<lastEventId, got, stream, outbox, behind, connections, since>>
  BY BesideFacts
<1>2. PICK list \in Seq(Ids') :
        /\ \A e \in NewIds : published'[e].session = Watched /\ published'[e].reach = "all"
                               => e \in ToSet(list)
        /\ inbox' = IF Subscribed THEN inbox \o list ELSE inbox
  BY BesideFacts
<1>3. /\ \A e \in Ids : e \in Ids' /\ published'[e] = published[e]
      /\ \A e \in Ids' : e \in Ids \/ e \in NewIds
      /\ \A e \in NewIds : e \notin Ids /\ \A d \in Ids : d < e
      /\ \A e \in NewIds : published'[e].number > counters[published'[e].session]
      /\ Unrefused' => Unrefused
      /\ Pipe'
  BY <1>1, Onward
<1>4. Intact' => Intact
  BY <1>1, <1>3 DEF Intact
<1>5. /\ Got' = Got /\ ToSet(outbox)' = ToSet(outbox)
      /\ Sent' = Got \cup ToSet(inbox') \cup ToSet(outbox)
  BY <1>1 DEF Got, ToSet, Sent
<1>6. Subscribed => ToSet(inbox') = ToSet(inbox) \cup ToSet(list)
  <2>1. inbox \in Seq(Ids')
    <3>1. Ids \subseteq Ids'
      BY <1>3
    <3>. QED
      BY <3>1, SeqMonotonic DEF Typed, StreamTypeOK
  <2>2. ToSet(inbox \o list) = ToSet(inbox) \cup ToSet(list)
    BY <2>1, Chained
  <2>. QED
    BY <1>2, <2>2
<1>7. ASSUME NEW d \in Owed'
      PROVE  \/ d \in Owed /\ Number(d)' = Number(d)
             \/ /\ d \in NewIds /\ Number(d)' > counters[Watched]
                /\ Subscribed => d \in ToSet(list)
  <2>1. d \in Ids' /\ published'[d].session = Watched /\ published'[d].reach = "all" /\ since < d
    BY <1>1 DEF Owed, Of
  <2>2. CASE d \in Ids
    BY <1>3, <2>1, <2>2 DEF Owed, Of, Number
  <2>3. CASE d \in NewIds
    BY <1>2, <1>3, <2>1, <2>3 DEF Number
  <2>. QED
    BY <1>3, <2>1, <2>2, <2>3
<1>8. OnChannel'
  <2>1. ASSUME stream.stage = "connected", stream.via = "pubsub"
        PROVE  Subscribed
    BY <2>1 DEF Subscribed, Connected
  <2>2. ToSet(inbox)' = ToSet(inbox')
    BY DEF ToSet
  <2>. QED
    BY <1>1, <1>4, <1>6, <1>7, <2>1, <2>2 DEF OnChannel, Complete
<1>9. AtTheChannel'
  <2>1. ASSUME stream.stage \in {"replaying", "live"}, stream.via = "pubsub"
        PROVE  Subscribed
    BY <2>1 DEF Subscribed, Connected
  <2>2. ASSUME Intact, stream.stage \in {"replaying", "live"}, stream.via = "pubsub", NEW d \in Owed'
        PROVE  d \in Sent'
    BY <1>5, <1>6, <1>7, <2>1, <2>2 DEF AtTheChannel, Complete, Sent
  <2>. QED
    BY <1>1, <1>4, <2>2 DEF AtTheChannel
<1>10. AtTheTable'
  <2>1. ASSUME Intact, stream.stage \in {"replaying", "live"}, stream.via = "polling", NEW d \in Owed'
        PROVE  d \in Got \cup ToSet(outbox) \/ Number(d)' > stream.last_sequence
    <3>1. CASE d \in Owed /\ Number(d)' = Number(d)
      BY <2>1, <3>1 DEF AtTheTable, Complete
    <3>2. CASE d \in NewIds /\ Number(d)' > counters[Watched]
      <4>1. d \in Of(Watched)'
        BY DEF Owed
      <4>2. Number(d)' \in Nat
        <5>1. (\A e \in Ids : Number(e) \in 1 .. Len(published))'
          BY <1>3 DEF Pipe, Numbering
        <5>. QED
          BY <4>1, <5>1 DEF Of
      <4>3. counters[Watched] \in Nat /\ stream.last_sequence \in Nat
        BY StreamAssumption, OwedFacts DEF Pipe, Inv, TypeRest
      <4>4. stream.last_sequence <= counters[Watched]
        BY <2>1, OwedFacts DEF Marks, Orderly, Turns
      <4>. QED
        BY <3>2, <4>2, <4>3, <4>4
    <3>. QED
      BY <1>7, <3>1, <3>2
  <2>. QED
    BY <1>1, <1>4, <1>5, <2>1 DEF AtTheTable
<1>11. Covered'
  <2>1. ASSUME Intact, NEW e \in Got, NEW d \in Owed', d < e
        PROVE  d \in Got
    <3>1. e \in Ids /\ e \in Nat
      BY OwedFacts DEF Sent
    <3>2. CASE d \in Owed
      BY <2>1, <3>2 DEF Covered, Complete
    <3>3. CASE d \in NewIds
      <4>1. e < d /\ d \in Nat
        BY <1>3, <3>1, <3>3 DEF Owed, Of, Ids
      <4>. QED
        BY <2>1, <3>1, <4>1
    <3>. QED
      BY <1>7, <3>2, <3>3
  <2>. QED
    BY <1>4, <1>5, <2>1 DEF Covered
<1>. QED
  BY <1>8, <1>9, <1>10, <1>11 DEF Complete

(* The steps of the stream, one by one.                                      *)
LEMMA CompleteNext ==
  ASSUME Pipe, Typed, Begun, Orderly, Complete, [StreamNext]_allVars
  PROVE  Complete'
<1>1. CASE UNCHANGED allVars
  <2>1. /\ \A e : Number(e)' = Number(e)
        /\ Got' = Got /\ ToSet(inbox)' = ToSet(inbox) /\ ToSet(outbox)' = ToSet(outbox)
        /\ Sent' = Sent /\ Owed' = Owed
        /\ Intact' <=> Intact
        /\ UNCHANGED stream
    BY <1>1 DEF allVars, vars, streamVars, Number, Got, ToSet, Sent, Owed, Of, Ids, Intact, Unrefused
  <2>. QED
    BY <2>1 DEF OnChannel, AtTheChannel, AtTheTable, Covered, Complete
<1>2. CASE Restart
  <2>1. ~Intact'
    <3>1. faults \in [pg : Nat, ack : Nat, redis : Nat, crash : Nat] /\ faults' = [faults EXCEPT !.crash = @ + 1]
      BY <1>2 DEF Restart, Pipe, Inv, TypeRest, Faults, Crash
    <3>. QED
      BY <3>1 DEF Intact, Unrefused
  <2>. QED
    BY <2>1 DEF OnChannel, AtTheChannel, AtTheTable, Covered, Complete
<1>3. CASE Disconnect
  <2>1. Aside
    BY <1>3, StreamAside
  <2>2. stream'.stage = "off" /\ UNCHANGED <<got, behind, since>>
    BY <1>3 DEF Disconnect, Off
  <2>3. Covered'
    BY <2>1, <2>2, OwedAside DEF Covered, Complete, Got
  <2>. QED
    BY <2>2, <2>3, CompleteEnd
<1>. QED
  BY <1>1, <1>2, <1>3, CompleteBeside, CompleteConnect, CompleteReplay, CompleteSendReplayed,
     CompleteHeard, CompletePolled, CompletePoll, CompleteRedisError DEF StreamNext, Serve

(* Between the events that the browser has got none is missing that went all *)
(* the way, whatever connections broke, as long as no replay fell short and  *)
(* PostgreSQL has refused nothing.                                           *)
THEOREM NeverGaps == StreamSpec => []NoGap
<1>1. StreamSpec => [](Pipe /\ Typed /\ Begun /\ Orderly /\ Complete)
  BY CompleteInit, CompleteNext, OrderlyAlways, PTL DEF StreamSpec
<1>2. Pipe /\ Complete => NoGap
  BY CoveredIsGapless DEF Complete
<1>. QED
  BY <1>1, <1>2, PTL
=============================================================================
