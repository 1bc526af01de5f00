---------------------------- MODULE MetricsProxy ----------------------------
(***************************************************************************)
(* The way of metrics from the servers to the time series database: the    *)
(* push job of a key server or aggregator (crates/key-server/src/server.rs *)
(* and metrics_push.rs), the metrics proxy (crates/seal-proxy) and the     *)
(* database behind it, which is Mimir.                                     *)
(*                                                                         *)
(* A push is its node and the time it was collected at; it holds the       *)
(* families of the registry, of which the proxy sends counters and gauges  *)
(* on, a limited number per request, and keeps histograms for a scraper.   *)
(* Requests, replies and posts may be lost or late, and whoever waits for  *)
(* them gives up at some time.  Values of metrics are cumulative and not   *)
(* part of the model.                                                      *)
(***************************************************************************)
EXTENDS Integers, Sequences, FiniteSets, SequencesExt

CONSTANTS
  Node,
  Token,          \* Token[n]: the bearer token in the push configuration of n
  Interval,       \* Interval[n]: push_interval_secs of n
  ConfigLabels,   \* ConfigLabels[n]: the labels of that configuration
  ServerLabels,   \* ServerLabels[n]: the labels that say which committee server n is
  Hostname,       \* Hostname[n], or None
  Peer,           \* Peer[n]: where a request of n says it comes from, by decreasing preference
  BearerTokens,   \* the items of the bearer token file of the proxy: token and name
  AddLabels,      \* label_actions of the proxy's configuration: labels to add ...
  RemoveLabels,   \* ... and names of labels to remove
  Families,       \* the families of a registry in order: name and field type
  MaxSampleSize,  \* MIMIR_MAX_SAMPLE_SIZE
  MaxQueueTime,   \* MAX_QUEUE_TIME_SECS
  MaxTime,        \* bound on time
  MaxOpen,        \* bound on the requests at the proxy, the abandoned ones included
  MaxWire,        \* bound on the posts that are on their way to the database
  None

ASSUME ProxyAssumption ==
  /\ MaxSampleSize \in Nat \ {0} /\ {MaxQueueTime, MaxTime} \subseteq Nat
  /\ Families \in Seq([name : STRING, field_type : {"counter", "gauge", "histogram", "summary"}])

VARIABLES
  now,
  node,      \* node[n]: its push job: the push it waits for, the last one, the last created
  reqs,      \* the requests the proxy works on
  wire,      \* posts on their way to the database
  store,     \* the newest sample of every series in the database
  relay,     \* the queue of the HistogramRelay
  scraped,   \* the pushes in the response of a scrape, in the step that makes it
  calm       \* None, or the time since when nothing is lost, late or refused

vars == <<now, node, reqs, wire, store, relay, scraped, calm>>

-----------------------------------------------------------------------------
\* What is done to the labels and the families of a push.

\* Labels of the second set take the place of those of the first with the same name.
Override(base, labels) == {b \in base : \A l \in labels : l.name # b.name} \cup labels

\* The labels a node sends: the configured ones, its identity, its host.
StaticLabels(n) ==
  Override(Override(ConfigLabels[n], ServerLabels[n]),
           IF Hostname[n] = None THEN {} ELSE {[name |-> "hostname", value |-> Hostname[n]]})

\* The name a bearer token is listed with; the last item of a token counts.
get_bearer_token_owner_name(token) ==
  LET items == SelectSeq(BearerTokens, LAMBDA i : i.token = token)
  IN  IF items = <<>> THEN None ELSE Last(items).name

\* X-Forwarded-For, X-Real-IP, X-Client-IP, the address of the socket.
extract_client_ip(n) ==
  LET given == SelectSeq(Peer[n], LAMBDA ip : ip # None)
  IN  IF given = <<>> THEN "unknown" ELSE Head(given)

\* The labels every metric gets: the configured ones take precedence over those of the node,
\* the origin is added, and the names to be removed go last of all.
populate_labels(n) ==
  LET origin == {[name |-> "node_name", value |-> get_bearer_token_owner_name(Token[n])],
                 [name |-> "client_ip", value |-> extract_client_ip(n)]}
  IN  {l \in Override(StaticLabels(n), AddLabels) \cup origin : l.name \notin RemoveLabels}

PopulatedLabels == [n \in Node |-> populate_labels(n)]

OfType(types) == SelectSeq(Families, LAMBDA f : f.field_type \in types)

extract_histograms == OfType({"histogram"})

\* Counters and gauges become time series; the other types are skipped.
Timeseries == OfType({"counter", "gauge"})

\* The time series in requests of at most MaxSampleSize.
chunks == (Len(Timeseries) + MaxSampleSize - 1) \div MaxSampleSize

chunk(k) ==
  SubSeq(Timeseries, (k - 1) * MaxSampleSize + 1,
         IF k * MaxSampleSize < Len(Timeseries) THEN k * MaxSampleSize ELSE Len(Timeseries))

-----------------------------------------------------------------------------
\* The push job of a node.

Waiting(n) == node[n].waits # None

\* The registry is gathered, stamped and sent.
push_metrics(n) ==
  /\ node' = [node EXCEPT ![n].waits = now, ![n].last = now]
  /\ reqs' = reqs \cup {[node |-> n, at |-> now, pc |-> "arrived", ts |-> None, k |-> 0]}

\* A tick of the interval.  The next one is waited for only after this push has ended; missed
\* ticks are skipped.
spawn_metrics_push_job(n) ==
  /\ ~Waiting(n)
  /\ node[n].last + Interval[n] <= now
  /\ Cardinality(reqs) < MaxOpen
  /\ push_metrics(n)
  /\ UNCHANGED <<now, wire, store, relay>> /\ scraped' = {}

\* The node stops waiting for the push of r, unless it has given up on it before.
PushAnswered(r, status) ==
  node' = IF node[r.node].waits = r.at
          THEN [node EXCEPT ![r.node].waits = None,
                            ![r.node].created = IF status = "CREATED" THEN r.at ELSE @]
          ELSE node

\* The response arrives.
PushEnds(r) ==
  /\ r.pc = "replied"
  /\ reqs' = reqs \ {r}
  /\ PushAnswered(r, "CREATED")
  /\ UNCHANGED <<now, wire, store, relay>> /\ scraped' = {}

create_push_client_Patient(n) == FALSE /\ UNCHANGED vars

\* The timeout of the node's client, which is made anew after an error.
create_push_client(n) ==
  /\ Waiting(n)
  /\ node' = [node EXCEPT ![n].waits = None]
  /\ UNCHANGED <<now, reqs, wire, store, relay>> /\ scraped' = {}

-----------------------------------------------------------------------------
\* The proxy.

Becomes(r, s) == reqs' = (reqs \ {r}) \cup {s}

\* An error status ends the request; to the node all of them are the same failure, which it
\* logs, so that they need no time to get there.
Fails(r, status) == reqs' = reqs \ {r} /\ PushAnswered(r, status)

\* The middleware: a bearer token that is not listed is rejected.
expect_valid_bearer_token(r) ==
  /\ r.pc = "arrived"
  /\ get_bearer_token_owner_name(Token[r.node]) = None
  /\ Fails(r, "UNAUTHORIZED")
  /\ UNCHANGED <<now, wire, store, relay>> /\ scraped' = {}

\* LenDelimProtobuf: the body does not arrive, or cannot be decompressed or decoded.
from_request(r) ==
  /\ r.pc = "arrived"
  /\ get_bearer_token_owner_name(Token[r.node]) # None
  /\ Fails(r, "BAD_REQUEST")
  /\ UNCHANGED <<now, wire, store, relay>> /\ scraped' = {}

\* The handler labels the metrics and calls submit, which starts by taking its timestamp.
publish_metrics(r) ==
  /\ r.pc = "arrived"
  /\ get_bearer_token_owner_name(Token[r.node]) # None
  /\ Becomes(r, [r EXCEPT !.pc = "submit", !.ts = now])
  /\ UNCHANGED <<now, node, wire, store, relay>> /\ scraped' = {}

retain_Short(queue, ts) == SelectSeq(queue, LAMBDA v : ts - v.ts + 1 < MaxQueueTime)

retain(queue, ts) == SelectSeq(queue, LAMBDA v : ts - v.ts < MaxQueueTime)

\* HistogramRelay::submit under the lock: old entries go, the histograms of the push come.
submit(r) ==
  /\ r.pc = "submit"
  /\ relay' = Append(retain(relay, r.ts),
                     [ts |-> r.ts, node |-> r.node, at |-> r.at, data |-> extract_histograms])
  /\ Becomes(r, [r EXCEPT !.pc = "send"])
  /\ UNCHANGED <<now, node, wire, store>> /\ scraped' = {}

\* The loop of convert_to_remote_write: the next request is posted, or all are done.
convert_to_remote_write(r) ==
  /\ r.pc = "send"
  /\ \/ /\ r.k < chunks /\ Cardinality(wire) < MaxWire
        /\ Becomes(r, [r EXCEPT !.pc = "post", !.k = @ + 1])
        /\ wire' = wire \cup {[node |-> r.node, at |-> r.at, k |-> r.k + 1]}
        /\ UNCHANGED node
     \/ r.k = chunks /\ Becomes(r, [r EXCEPT !.pc = "replied"]) /\ UNCHANGED <<node, wire>>
  /\ UNCHANGED <<now, store, relay>> /\ scraped' = {}

\* The conversion, or the encoding of a request, fails.
encode_compress(r) ==
  /\ r.pc = "send"
  /\ Fails(r, "INTERNAL_SERVER_ERROR")
  /\ UNCHANGED <<now, wire, store, relay>> /\ scraped' = {}

\* The answer of the database to the post; every status but OK ends the loop.
check_response_Lenient(r, status) == Becomes(r, [r EXCEPT !.pc = "send"]) /\ UNCHANGED node

check_response(r, status) ==
  IF status = "OK" THEN Becomes(r, [r EXCEPT !.pc = "send"]) /\ UNCHANGED node
                   ELSE Fails(r, "INTERNAL_SERVER_ERROR")

\* No answer to the post: an error of the connection, or the timeout of the client.
PostFails(r) ==
  /\ r.pc = "post"
  /\ Fails(r, "INTERNAL_SERVER_ERROR")
  /\ UNCHANGED <<now, wire, store, relay>> /\ scraped' = {}

\* The timeout of the whole request drops it where it awaits; a disconnect does the same.
TimeoutLayer(r) ==
  /\ r.pc \in {"arrived", "send", "post"}
  /\ Fails(r, "REQUEST_TIMEOUT")
  /\ UNCHANGED <<now, wire, store, relay>> /\ scraped' = {}

export ==
  /\ relay # <<>>
  /\ scraped' = {[node |-> v.node, at |-> v.at] : v \in Range(relay)}
  /\ relay' = <<>>
  /\ UNCHANGED <<now, node, reqs, wire, store>>

-----------------------------------------------------------------------------
\* The database and the network.

Samples(w) ==
  {[name |-> f.name, labels |-> PopulatedLabels[w.node], at |-> w.at, node |-> w.node] :
     f \in Range(chunk(w.k))}

SameSeries(a, b) == a.name = b.name /\ a.labels = b.labels

StoreAnswers(w, new, status) ==
  LET waiting == {r \in reqs : r.pc = "post" /\ r.node = w.node /\ r.at = w.at /\ r.k = w.k}
  IN  /\ wire' = wire \ {w}
      /\ store' = new \cup {o \in store : \A s \in new : ~SameSeries(o, s)}
      /\ IF waiting = {} THEN UNCHANGED <<node, reqs>> ELSE \E r \in waiting : check_response(r, status)
      /\ UNCHANGED <<now, relay>> /\ scraped' = {}

\* Samples that are not newer than what a series has are refused.
StoreReceives(w) ==
  LET new == {s \in Samples(w) : \A o \in store : SameSeries(o, s) => o.at < s.at}
  IN  StoreAnswers(w, new, IF new = Samples(w) THEN "OK" ELSE "BAD_REQUEST")

\* The database refuses a post: its limits, an error of its own.
StoreRefuses(w) == StoreAnswers(w, {}, "INTERNAL_SERVER_ERROR")

\* A request or its response is lost; the node that waits for it is not told.  A post that is
\* lost is one that is refused after the proxy has given up on it.
Lost(r) ==
  /\ r.pc \in {"arrived", "replied"}
  /\ reqs' = reqs \ {r}
  /\ UNCHANGED <<now, node, wire, store, relay>> /\ scraped' = {}

Tick ==
  /\ now < MaxTime
  /\ now' = now + 1
  /\ UNCHANGED <<node, reqs, wire, store, relay>> /\ scraped' = {}

-----------------------------------------------------------------------------
Init ==
  /\ now = 0
  /\ node = [n \in Node |-> [waits |-> None, last |-> -Interval[n], created |-> None]]
  /\ reqs = {} /\ wire = {} /\ store = {}
  /\ relay = <<>> /\ scraped = {}
  /\ calm = None

Publish(r) ==
  expect_valid_bearer_token(r) \/ publish_metrics(r) \/ submit(r) \/ convert_to_remote_write(r)

\* The push a node waits for was lost, so that only the timeout ends the wait.
PushLost(n) == \A r \in reqs : ~(r.node = n /\ r.at = node[n].waits)

\* What happens in any case.
Works ==
  /\ \/ Tick
     \/ \E n \in Node : spawn_metrics_push_job(n) \/ (PushLost(n) /\ create_push_client(n))
     \/ \E r \in reqs : Publish(r) \/ PushEnds(r)
     \/ \E w \in wire : StoreReceives(w)
  /\ UNCHANGED calm

\* What goes wrong, timeouts before an answer that is on its way included.
Disturbance ==
  /\ calm = None
  /\ \/ \E n \in Node : create_push_client(n)
     \/ \E r \in reqs :
          from_request(r) \/ encode_compress(r) \/ PostFails(r) \/ TimeoutLayer(r) \/ Lost(r)
     \/ \E w \in wire : StoreRefuses(w)
  /\ UNCHANGED calm

Known == {n \in Node : get_bearer_token_owner_name(Token[n]) # None}

\* Disturbances end, early enough for a tick of some node within the bound on time.
CalmsDown ==
  /\ calm = None /\ calm' = now
  /\ \E n \in Known : now + Interval[n] <= MaxTime
  /\ UNCHANGED <<now, node, reqs, wire, store, relay>> /\ scraped' = {}

Next == Works \/ Disturbance \/ (export /\ UNCHANGED calm) \/ CalmsDown

Spec == Init /\ [][Next]_vars

\* Time passes, tasks go on and timeouts expire.  The scraper need not come, and disturbances
\* need not end.
FairSpec == Spec /\ WF_vars(Works)

-----------------------------------------------------------------------------
\* A node that was told "created" finds the metrics of that push, or newer ones, in the
\* database: all of its counters and gauges, as its own series, whatever requests timed out,
\* were answered to nobody or overtook each other.  publish_metrics, convert_to_remote_write.
CreatedIsStored ==
  \A n \in Node : node[n].created # None =>
    \A f \in Range(Timeseries) :
      \E s \in store : s.node = n /\ s.name = f.name /\ s.at >= node[n].created

\* The histograms of a push are scraped at most once, and they leave the queue only to the
\* scraper or after MaxQueueTime in it, although timestamps are taken outside of the lock.
\* HistogramRelay::submit and export.
HistogramsOnce ==
  [][/\ \A v \in Range(relay) \ Range(relay') :
          [node |-> v.node, at |-> v.at] \in scraped' \/ now - v.ts >= MaxQueueTime
     /\ \A v \in Range(relay') : [node |-> v.node, at |-> v.at] \notin scraped']_vars

\* The push job recovers: whatever was lost, abandoned or is still being worked on when the
\* disturbances end, the next push of a node that the proxy knows is acknowledged.  The job
\* awaits a push before it waits for the next tick, so a push that never ended would be the
\* last.  spawn_metrics_push_job, create_push_client, convert_to_remote_write.
PushesRecover ==
  <>[](calm # None => \A n \in Known : calm + Interval[n] <= MaxTime => node[n].created = node[n].last)

=============================================================================
