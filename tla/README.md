# kafkascope, specified in TLA+

This directory models [kafkascope](../src/README.md), a web tool that looks
into Kafka clusters, searches their topics, resends messages and administers
topics and consumer groups. The modules are checked with TLC on small instances;
the theorems are proved with TLAPS for every value of the constants.

    tlc -workers 2 -config MCScan.cfg MCScan.tla     # a run
    tlapm ScanProof.tla                              # a proof

`PROJECT.json` lists the components, the runs, a mutant of the code for every
property a run checks, the source lines behind every definition, the hazards and
the findings.

## The system

kafkascope is one FastAPI process. An asyncio event loop serves the endpoints of
`app/routers/`; everything that blocks, above all the calls of librdkafka, runs on
worker threads. It persists nothing. What is hard about it is that nearly every
operation is several round trips to a cluster that other clients change
meanwhile, and that requests share a few module-level caches.

| component | state | operations | interacts with | hard because | must guarantee |
|---|---|---|---|---|---|
| message search (`services/messages.py` `_plan`, `scan`; `routers/messages.py` `/scan`) | plan, budget, counters of one coroutine | plan, fetch a batch, filter a record, end | broker, browser (SSE), schema caches | log changes between awaits, browser leaves, broker goes quiet | budget exact, hits once and in order, one final event, ends, says truly why it ended |
| live tail (`tail`, `/tail`) | consumer position | assign at the end, fetch, filter, end | as above | position overtaken by retention or a purge | nothing old, nothing passed is skipped, ends with the browser |
| resend prefill (`fetch_one`, produce form) | none | fetch one coordinate | broker | the coordinate may be gone | shows the message asked for |
| consumer groups (`services/groups.py`, `routers/groups.py`) | none of its own; the broker's group | show, lag, reset, delete | broker, group members, audit log | check, resolve, alter and verify are separate round trips; partial errors | no offset beyond the log, lag never negative, ok means moved, all audited |
| producing (`services/produce.py`, `routers/produce.py`) | one `Producer` per cluster, shared | encode, enqueue, flush, read the report | broker, schema registry, audit log | `flush` waits for everybody, reports are served by anybody, timeouts leave it open | "sent" only when written, every send answered and audited |
| schema caches (`services/schema_registry.py`, `services/decode.py`) | schemas by id for each registry, parsed schemas by id | look up, fetch, store, parse | registry, every reader of messages | request without the lock, failures are cached, one cache for all clusters | cached schemas are right, the registry is not hammered, bodies are read with their own schema |
| topic administration (`services/admin.py`, `routers/admin.py`) | none of its own; the cluster's topics | create, delete, add partitions, edit configuration, purge | broker, audit log | existence is judged one round trip early, the broker acts late, purges are per partition | ok means done, internal topics are spared, purges remove what they count |
| request pipeline (`main.py`, `auth.py`, `csrf.py`, `templating.py`) | CSRF cookie, pages that carry its token, `ContextVar` of the cluster | check the token, authenticate, select a cluster, require write access | every endpoint | tabs share a cookie, the secret is renewed at a restart, worker threads read the context | no change without write access, no request to another cluster, no user locked out for good |
| configuration (`config.py`) | the settings | validate, resolve clusters, parse users | start-up, pipeline, clients | one cluster can be described in two ways, checked by different code | what is accepted works |
| clients (`kafka_client.py`) | `_producers`, `_admins` | make and remember a client | producing, administration | check-then-act on worker threads | a client of the cluster that was asked for |
| cluster views (`services/cluster.py`, `routers/topics.py`) | none | overview, topic page, counts | broker | metadata, watermarks and configuration are separate calls | numbers that were true |
| filters (`matches`, `_json_lookup`) | none | judge a record | search, tail | nulls, lists, digits, missing parts | a hit is what was asked for |
| decoding, encoding (`decode.py`, `encode.py`) | none | header, message index, protobuf walk | search, tail, producing | truncated input, boundaries of varints and lengths | what is shown was encoded |
| messages page script (`templates/messages.html`) | one `EventSource` | start a scan or a tail, stop, append hits | `/scan`, `/tail` | reconnection, late events | shows one stream at a time |

## Modules

    KafkaLog <-- Scan     --> HitStream <-- Page      Config <-- Requests
      ^  ^--- LiveTail  --> HitStream
      |  ^--- Resend                                Schemas <-- Decoding --> Wire
      ^--- Groups
    Filters  <-- Scan                               Produce     Admin

(an arrow to the left is EXTENDS, one to the right INSTANCE or EXTENDS).

`KafkaLog` is external: the partitions of one topic, what producers, retention,
purges and compaction do to them, and what librdkafka answers (`Watermarks`,
`OffsetForTime`, `Fetches`). Modules that read a topic extend it, and each of
their steps may interleave with its `LogNext`. `HitStream` is the abstract
specification of what the messages page receives; `Scan` and `LiveTail` are shown
to implement it under the mapping `Page` at the end of each module, and the module
`Page` builds on it: its server is `HitStream`, so what holds of the page's script
holds over either of them.

**One action per await or round trip.** Between two awaits the event loop (or, for a
service on a worker thread, the thread) touches only its own variables, so the
code in between belongs to the action that ends with the next await. A client's
`pc` names the await it is at.

| module | models | how |
|---|---|---|
| `Filters` | `matches`, `_json_lookup` | operators; a text is the set of strings it contains, a JSON payload a function from positions to nodes. `Wanted` says what a filter means without walking a path |
| `Scan` | `_spec_from_query`, `_plan`, `scan`, the `/scan` stream | `ListTopics`, `ReadMarks`, `ResolveStarts`, `Assign`, `LoopHead`, `Consume`, `ProcessRecord`, `Close`; `BrokerTrouble` is any failing call, `Disconnect` the browser |
| `LiveTail` | `_tail_assignments`, `tail`, the `/tail` stream | the same shape without a window; `Reset` is librdkafka's `auto.offset.reset=latest` |
| `Resend` | `fetch_one`, the produce form | `GetTopic`, `FormAssign`, `FormConsume`, and `FormReset` to the end, librdkafka's default |
| `Groups` | `get_group`, `_resolve_targets`, `reset_offsets`, `delete_group` and their endpoints | requests as processes against one group, its members (`ConsumerJoins`, `ConsumerCommits`, ...) and `KafkaLog` |
| `Produce` | `send_message`, `_encode_field`, `encode_avro`, `encode_json_schema`, `send`, `producer()`, the endpoint | requests as threads that share Producers: a queue each, delivery reports served by any thread in `flush`. A field is encoded in two steps, the registry's answer (`AskLatest`, `Register`) and the bytes (`EncodeAvro`, `EncodeJson`); `registry` gives every schema its id, type and text, and `encoded` has the id and the text of what is sent as two fields |
| `Schemas` | `schema_by_id`, `_decode_registry`, `_decode_avro` | worker threads on the two caches; the locked sections are one action each, the request between them another |
| `Wire` | the header of `encode.py` and `decode.py`, `_strip_protobuf_index`, `_read_varint`, `decode_protobuf`, `_decode_length_delimited` | operators over sequences of bytes, with the sizes of the format as constants; a result is a set, empty where the code raises. The walk is a recursive function. `Put` is an encoder that knows the schema, `PutIndex` the one of the message index, `Meant` what the page should show of a field. Texts are cut into `Characters`, byte sequences of any length |
| `Decoding` | `decode` | `Schemas` with the bytes of `Wire`: `Arrive` is a payload that was encoded, and perhaps cut off behind its header, `ShowProtobuf` the walk of its body with the schema `Schemas` found |
| `Admin` | the five operations of `services/admin.py`, the count and the topic page of `services/cluster.py`, and their endpoints | look, judge, submit, wait; a configuration is saved from a form that `OpenForm` filled with the overrides there were, and posts all of them (`Entries`); a view looks, reads watermarks, then the configuration; `Broker` applies or refuses what is in flight whenever it likes, also after the thread gave up |
| `Config` | `parse_users`, `_coherent_security`, `_cluster_from_dict`, `Settings` and its validators | operators: `Accepts(env)`, `ResolveClusters(env)`, `ParseUsers`; a word is a model value with its canonical form |
| `Requests` | `select_cluster`, `authenticate`, `csrf_middleware`, `require_write`, `Principal.can_write`, `audit`'s cluster, `admin()` and its cache, the cookie and the token in a page | tabs as processes: `Load` and `Post` send, `Enter` is both middlewares and `select_cluster` (the event loop does not wait in them), `Authorise`, `UseClient`, `MakeClient` run on threads, `Arrive` stores the answer's cookie and page; `Restart` renews the secret and loses what is unanswered |
| `Page` | the script of `templates/messages.html` | `StartSource`, `Stop` and the listeners `OnHit`, `OnFinal`, `Lost`; the EventSource (`Connect`, `Refused`, `Dispatch`, `OnEnd`) and the network (`Drop`) are external |

Abstracted throughout: the contents of records (a constant `Content` that `Filters`
judges in `Scan`, a constant set of matches in `LiveTail` and `Page`; which ones are
at or after a time is `Late`), names and messages (model values), wording and
layout. Outside `Requests`, a request has the permission to write or not.

## Runs

Every run has the deadlock check off: requests and scans end, and the whole system
may then stop. Bounds are in the `.cfg` files and named in the modules: records of a
partition (`MaxHigh`, `MaxInitial`), schemas of a registry (`MaxSchemas`), payloads
(`MaxDecodes`), partitions and creations of topics (`MaxParts`, `MaxGens`), restarts
(`MaxRestarts`), searches and broken connections (`MaxSearches`, `MaxDrops`), ids, messages of a
schema and fields of messages (`MaxId`, `Paths`, `Fields`, `MaxFields`). Two bounds are
sets: `Deployed`, the settings under which requests are followed, and `Watched`, the topics
other clients act on. `MCSpec` of `MCAdmin`, `MCProduce` and `MCReaders` leaves out
combinations of requests that cannot disturb each other, that of `MCDecoding` starts
with one id registered.

| run | shows | bounds, and why they are enough |
|---|---|---|
| `scan` | types, exact budget, what the end of the window is worth, hits exactly what the filters ask for, `HitStream` implemented, every scan ends | two partitions of up to two records, batches of two, a budget of three: less than the topic, more than a batch, so every way to end happens; one request per way to plan or be refused, and per kind of filter: key, value, header with and without a value, JSON path through dicts and lists, over payloads with nulls, texts and none |
| `readers` | a tail shows nothing old and skips nothing it passed (`TailFollows`), implements `HitStream`, and ends with its browser; a form has the record asked for while it is there, never an older one (`FormFaithful`) | two partitions that may be purged under the position; first and second record, one not yet written, a non-existent coordinate. Tail and form read the same topic, and as neither changes it, one of them waits at its start |
| `page` | the page shows one search, in order and complete when it says "done"; a tail keeps the newest; the Stop button does not stay behind | two searches or tails and two broken connections, two records of two partitions, one of them not matching, a cap of two results |
| `resend_exact` | *violated*: another record is prefilled | |
| `groups` | types, offsets within the log and lag (`OffsetsSound`), ok, audit, times | one request of each of 17 kinds against members and a changing log on two partitions; several requests at once are covered by the theorems |
| `groups_timestamp` | *violated*: a reset to a time skips a record | as `groups` |
| `produce` | types, "ok" means written, audit, every send answered; what is written names the schema it was encoded with, and has a body of its kind (`WrittenIsReadable`) | two requests: plain, with a schema, and every way to be refused, as two threads are enough to serve each other's reports and to make two Producers; or one that encodes key or value as Avro or JSON, with the latest schema or one to register, next to one that sends nothing, because others disturb it only through the registry. They register schemas of two texts and three types; two schemas, so that the latest can be overtaken or be of another type |
| `schemas` | truthful caches, bounded requests, bodies read with their id | two threads, two registries, two ids, three schemas of both kinds; three payloads, one more than the threads |
| `schemas_own` | *violated*: a body is read with another cluster's schema | |
| `decoding` | messages are shown as they were encoded, and what is cut off is refused or shown in part (`ShownIsSent`) | one thread, as the caches are `schemas`' matter; two ids, of one and of two bytes; the first message of a schema and another. The format is small (`Base`, `Wires`, `Wide`, `Narrow`), with characters of one and of two bytes: every message of up to two of ten fields, of each wire type, varints of one and of two groups, texts with and without blanks, a nested message, one that looks like text and bytes that look like nothing, cut off at every byte |
| `admin` | types, ok means done, what was done was allowed and is audited, counts are true, a save changes nothing its form does not have | two requests of 13 kinds on an ordinary and an internal topic of up to two partitions that others write to, delete and create again while somebody looks at records; what is turned away at once meets only a creation; edits of one key or none, from forms with one override or none when two of them meet |
| `requests` | accepted settings work, and both ways to describe a cluster agree but for blank brokers and names; every request reaches its own cluster; only an entitled one writes; a user who keeps trying gets through | every shape of a cluster in both descriptions and every way to list users at start-up; then two tabs on two clusters, one restart, four deployments (open, basic, proxy with a kept secret, read-only) and an admin and a viewer. Each tab stands for any number of its like, also for auto-refresh |

**Fairness.** `Scan`, `LiveTail`, `Produce`: weak fairness of a client's own steps and
nothing else. Every call to the broker or a registry carries a timeout
(`request_timeout`, one second for `consume`, `_HTTP_TIMEOUT`), so the await returns
or raises and the coroutine or thread gets its next turn. Nothing is assumed of the
broker, the browser, or other clients; in `Produce` the broker may never act.
`Requests`: the server's steps of a request and the arrival of its answer are weakly
fair; the user of a tab keeps trying, which is the premise of
`PersistentUserSucceeds`: loads the page when there is none to post from, and posts
again and again (strong fairness, as other tabs may spoil the token in between).
`Page`: events are dispatched, an EventSource that is connecting is answered or
refused, and a search ends on the server, which is what the property `Terminates` of
the run `scan` shows; connections may break `MaxDrops` times.

**Symmetry** is used for requests, threads, ids and configuration keys where Init and
Next treat them alike, and in no run with a liveness property.

## What the violation runs found

* `resend_exact`: `fetch_one` does not compare the offset of what it got with the
  one it asked for; after a purge or compaction the form holds another message.
* `groups_timestamp`: a record written between `offsets_for_times` and the watermark
  read is skipped by a reset to a time before it.
* `schemas_own`: parsed Avro schemas are shared by clusters whose registries number
  their schemas independently.

Other behaviours the models have, and that made a property weaker than one might
expect:

* `Scan`: appended records spend the budget of the window, and the scan then says it
  reached the window's end with records of it unread. `EndOfWindowComplete` is
  therefore about scans that read nothing but the window.
* `Groups`: a caller without write access, an unknown target or an unreadable
  timestamp leaves no audit line; `ChangesAccounted` speaks of changes only.
* `Produce`: a send whose own report has arrived can be answered "Broker did not
  acknowledge", because `flush` counts another request's message; an error or a
  timeout, headed "Not sent", does not mean that nothing is written; two first sends
  make two Producers, which `OkMeansWritten` survives, as
  every thread keeps the one it has.
* `Produce`: where the subject's latest schema is Protobuf, the form sends JSON under its
  id, whatever format was asked for (`services/produce.py` 141-145); neither consumers
  nor kafkascope can read that by the id. The README (120-129) promises messages that they can read, and
  says that a value which does not fit its schema is rejected: Avro does that, but
  `encode_json_schema` is not even given the schema (`services/encode.py` 36-42).
  `WrittenIsReadable` leaves both out, and says what is left.
* `Schemas`: a failed request overwrites the schema another thread cached meanwhile;
  `CacheTruthful` says nothing of a cached failure.
* `Admin`: two purges at once both report all the records as removed, and a view
  adds up watermarks of different moments; hence `CountsTruthful` gives bounds.
* `Filters`: a JSON null at the end of a path counts as absent, although the comment
  in `matches` says that without a value "the path exists at all" is enough. Segments
  such as "²" are digits to `isdigit()` and not to `int()`: such a path ends a scan
  with "failed" (in the model a record that cannot be built, `BrokerTrouble`).
* `Wire`: a protobuf body cut off within a fixed-size or length-delimited value is
  shown with a shortened last value; only a cut varint is reported as "decode failed".
  `ShownIsSent` says what is left (`Honest`): fields that were there, in order, the last
  one possibly short. A nested message whose bytes are printable UTF-8 is shown as
  text ("prefer a clean text reading"); `Meant` accepts that, as nobody without the
  schema can tell. For the same reason `Fields` has no bytes that are UTF-8 or walk as a
  message by chance (`Opaque`), and no text that is not printable and without a blank
  (`Written`), such as a lone control character, which the page shows in base64.
* `Wire`: the message index of the Confluent wire format has zigzag numbers (`PutIndex`),
  and `_strip_protobuf_index` reads plain ones (`services/decode.py` 127-131). Only the first message of a schema,
  whose index is a lone zero, is read at the right byte; the others are in the run, and
  `ShownIsSent` says only under which id they are looked up.
* `Page`: a search whose connection breaks off is run again by the EventSource, and
  its hits are added to those already shown: they are there twice, and "done" counts
  only the last connection. A tail that is connected again starts at the new end, so
  records that arrived in between are missing without a word.
* `Requests`: a page that cannot be made (broker down) is rendered by the outermost
  error handler and brings no cookie; two threads may both make an admin client for a
  cluster, of which one is dropped, to no effect.
* `Admin`: the configuration form posts every override that its page showed, typed in or
  not, and all of them are set (`routers/admin.py` 63): a save puts back what another admin changed
  since the page was made, also in keys nobody touched. `SavesOnlyItsForm` says what
  is left of incremental edits: an override that came after the form was made
  survives.
* `Config`: an entry of `KAFKASCOPE_CLUSTERS` without brokers is refused, a blank
  `KAFKA_BROKERCONNECT` is not (`config.py` 106-108 and 291), and the process starts with a
  cluster that it can never reach; see `Workable` and `JudgedAlike`.
* `Config`: an invalid flat variable stops the process even when
  `KAFKASCOPE_CLUSTERS` is set and the variable describes nothing.

## Proofs

All theorems hold for any number of partitions, requests, threads and records, and
for any budget and batch size, under the `ASSUME`s of the modules, which say of
what kind the constants are.

**`ScanProof`** proves that `IInv` is inductive and from it `TypeCorrect`,
`BudgetIsExact`, `EndOfWindowIsComplete`, `DisconnectIsNoticed`, `FiltersAreExact` and
`ImplementsHitStream` (each step of a scan is a step of the page's stream or a
stutter). None of the properties is inductive. That a scan which ends has read its
window needs to know that what was read of a partition has no gap (`GaplessInv`),
in spite of appends, purges and compaction, and what a count of zero in
`remaining` says about it (`RemainingInv`). No duplicates needs the order within a
partition (`OrderInv`) and that hits are records already scanned (`HitsInv`). The
budget needs the batch size to be judged again with every fetch (`ControlInv`).

`FilterExact` compares the code's walk along a path, one segment after the other, with
`Wanted`, which looks the whole path up at once. The walk is a recursive function, and the
library's induction theorems cannot be used; instead the set of numbers
for which a claim holds has 0 and successors, and a number outside it would be a least one
(`Induction`, from the well-foundedness of `<`). So the walk exists (`WalkExists`), each of its steps is at a
position of the payload (`WalkNames`), and it arrives where the path
points, or nowhere (`NamesWalk`). This needs that `json.loads` returns a tree, whose lists
have numerals for keys (`IsJson`, in `ScanAssumption`).

**`GroupsProof`** proves `GInv` inductive and from it `TypeCorrect`,
`OffsetsAreSound`, `OkMeansAllMoved`,
`ChangesAreAccounted` and `TimestampKeepsWhatWasKnown`. The argument for the
offsets is that high watermarks only grow (`LogStep` of `KafkaLogProof`), so what
was within the log when it was read or computed is so when it is stored
(`OffsetInv`) and shown (`RowInv`); the one for the audit is that an effect
(`moved`) exists only from the alteration on, and each way on from there audits
(`MovedInv`).

**`SchemasProof`** proves the caches truthful (`CacheIsTruthful`): an answer travels
from the registry into the cache untouched (`InFlight`); that bodies are read with
their id (`ReadsWithItsId`); and `NotHammered`, by counting: the answers stored for
an id and the threads that still ask for it are together no more than the threads
(`Racing`).

Of `Decoding` it proves `ShowsWhatWasSent`: a payload is looked up under the id it
was written with, and the walk shows what was put into it, for any format, any set of
UTF-8 characters and any set of fields that fit (`WireAssumption`: more than one value per
group, wire types up to 5, and numbers and lengths that have no more digits than the
format has room for). A thread that is about to read a payload has the id and the bytes it
came with (`DInv`, inductive), which the threads that race on the caches do not touch; the
rest is about bytes. `Number` undoes `Digits`, and a varint ends at its first byte
without the "more" bit, so it is read as what was put (`VarintExact`) and not
at all if it is cut (`VarintCut`). That `Walk` and `Meant` are what their recursive
definitions say (`WalkIs`, `MeantIs`) is proved by layers: functions that satisfy the
definition on bytes shorter than `n`, or fields nested less deeply, exist for each `n` and agree
(`WalksTo`, `MeansTo`). A text is text because it can be cut where its characters end
(`TextIsText`); bytes in no character are not, wherever they are cut
(`OpaqueIsNoText`), and no tag is read from them (`OpaqueIsNoMessage`). By induction on
the fields, the walk of a message followed by anything finds the fields and goes on with
the rest (`MessageWalk`); by induction on the depth,
it shows what they mean (`SeenIsMeant`). Several messages may have the same bytes; they
are shown alike, because bytes are walked in at most one way (`WalkOne`). Of bytes that
end inside a field the walk finds nothing or its number (`FieldCut`). The theorem is about
the first message of a schema, whose index is a lone zero (`IndexExact`).

**`RequestsProof`** proves `ConfigIsSound`: accepted settings work (`AcceptedWorks`) and
both descriptions of a cluster are judged alike (`DescriptionsJudgedAlike`), for every
environment. Blank brokers and a blank name are the exceptions: the flat variables
take the first as they are and replace the second by "default", while an entry is refused
for either; `Workable` asks for brokers unless a blank flat variable was given. It proves, from the inductive invariant `RInv`, `ReachesOwnCluster` and
`WritesAreEntitled`. A request past the middlewares stays at the cluster of its
address, and a post past each check keeps what the check found (`UnderWay`), among
it that its token is of the secret the process has, because a restart ends every request
and only `Start` changes the settings (`SettingsStay`); a client in the cache is
connected to the cluster it is stored under (`AdminsInv`), which the unlocked
check-then-store of `admin()` does not disturb.

Its type (`TypeCorrect`) needs counting: the cookie and what each tab holds are at
most `4 * Cardinality(Tabs) + 1` tokens, fewer than there are serials, so a fresh one is left
(`FreshToken`); and the entry of `KAFKASCOPE_USERS` that counts for a name exists
because a finite set of indices has a greatest (`Greatest`).

**`LiveTailProof`** proves `TypeCorrect`, `FollowsTheEnd` and `ImplementsHitStream`. `TailFollows`
itself is half of the inductive invariant; the other half is that a planned partition
is followed from a begin that is no older than the request (`PositionInv`), that what was
fetched lies between those and behind the position (`PassedInv`), and that hits and then
the batch are in order (`OrderInv`), without which a fetched record could be one that
was shown already. Records only appear at the end of the log, so none appears behind
the position; what a reset by librdkafka jumps over is `overtaken`. The same module
takes `Resend`, on the same log, and proves `FormTypeCorrect` and `FormIsFaithful`
for it: from the seek on, the position is the wanted offset, unless the log lost it or
had not reached it (`SeekInv`).

**`ProduceProof`** proves `PInv` inductive and from it `TypeCorrect`, `SentMeansWritten`,
`WrittenReadable` and `WritesAudited`, for any finite number of requests, any texts and at
least one schema (`ProduceAssumption`). What is hard is that requests of a
cluster share a Producer, so the callback for one may be served by another's `flush`:
a thread in `flush` has its report or is in the queue of the Producer it holds
(`ReportInv`), also when another thread has replaced that Producer in the cache
(`MadeInv`); and what is queued or written comes from a request past every check
(`SendInv`). What a thread keeps of the registry's answer is a schema with its own id
(`FoundInv`), and stays so while others register, as an id is never given twice.

**`AdminProof`** proves `AInv` inductive and from it `TypeCorrect`, `DoneMeansDone`,
`ChangesAudited` and (with `CountInv`) `CountsAreTruthful`, and, as a step property that needs no invariant, `SavesItsForm`. Its parts
are the order of generations (`TopicInv`), which tell a topic that was found from one of
the same name created later (`ThreadInv`); where the work submitted for a request is, also
after the request gave up: under way, done or refused, and accounted for in each case
(`SubmitInv`); and that, while the topic found by a purge is there, each partition it
had has a mark at or behind the end it was found with, or is still to be read
(`PurgeInv`).

For the counts, `SeenInv` places the marks that were read between what the topic held when
the request came in and what it holds now; `SumInv` says that there is a share for each partition,
between what a purge can still remove there and what was ever there, that the shares of
the partitions read add up to what is reported, and that those of the
partitions purged are at least what was removed. The share is what the partition held when
it was read; that such a sum grows with its set and its terms, and does not
depend on the order in which `MapThenSumSet` takes the elements (`TotalAny`, `TotalGrows`),
is proved by the same induction.

**The page** is proved about in `RequestsProof` too:
`PageTypeCorrect` and `PageShowsOneStream`. What the server has sent on a connection is,
from the oldest on, no longer on the page, on the page, and on the wire; `OnPage` and `OnWire` say
where the two borders are. A hit that is dispatched moves the second border, one that
a tail has no room for any more moves the first. That records are in order
across connections needs that a tail which is connected again starts behind all it
had shown (`Fresh`); that "done" means all of them, that the final event follows the
last hit on the wire (`OnWire`).

**`KafkaLogProof`** holds what the others cite about the log: every change keeps it
consistent and only raises watermarks, and `offsets_for_times` answers with the
first record.

Names in `Resend` and `Page` have a prefix where another module has the same one
(`FormInit`, `PageSpec`), so that a proof module can extend them next to `LiveTail` and
`Requests`; nothing in the proofs relates the two.

Only model-checked: all liveness (`Terminates`, `DisconnectEndsTail`,
`EverySendAnswered`, `PersistentUserSucceeds`, `ScanSettles`); fairness and ENABLED
are out of the prover's reach.

## Not modelled

* The 400 answers of the routers to malformed parameters before a scan or a tail begins
  (`routers/messages.py` 15-45): nothing is read and no state kept.
* Avro and JSON Schema bodies, which fastavro and json read and write: `Produce` has
  which schema they are for and whether they fit it, `Schemas` which one they are read
  with. The Python dict that `decode_protobuf` collects fields into is kept as the
  fields in order in `Decoding`; templates and
  styles; the audit log's file; the overview's list of topics, which is one metadata
  call.
* Settings that are only passed on to librdkafka or to a handler; the parsing of
  `Authorization` headers; security headers; the public paths.
* The bytes of tokens, signatures and digests: a token is a serial number under a
  secret.
* The filters of a tail, which are those of a scan: a constant set of matches.
* Cancellation of a coroutine by the server in the middle of an await: Starlette
  cancels the task of a closed stream at times of its own; the code handles only
  `is_disconnected`, which is what `Disconnect` models.
* librdkafka's prefetching: a record that was fetched into the client before a
  purge may still be delivered after it. `Fetches` delivers from the log as it is.
* A topic that is deleted and created again during a scan, a tail or a group
  request (`Admin` has re-creation for operations and views).
* Configuration that a topic inherits from its brokers, which `describe_configs` does not
  call a default: the form shows it like an override and sets it.
* Negative offsets in a resend link, which librdkafka reads as "beginning" or "end".
* The list of groups, the group page's extra list of topics, the schema panel:
  reads that keep no state.

## Plan

Every component with state has its module, and every safety property and action
property a run checks is a theorem. Liveness stays with TLC. What could follow is the
list above: re-creation of a topic under a scan, and records that librdkafka
fetched ahead of a purge.
