# PureFlash in TLA+

PureFlash is a distributed block store. A client library (`common/src/pf_client_api.cpp`)
sends I/O to the store that holds the primary replica of a shard. There a dispatcher
(`pfs/src/pf_dispatcher.cpp`) passes each write to its replicas: local disks, each served by
one `PfFlashStore` and its ssd thread, and remote stores, reached through a replicator. A
conductor outside this repository keeps volumes, snapshots and replica states and talks to
the stores over REST. What a store may not lose is on its disks: the data objects, and the
metadata that says which object belongs to which block range and snapshot.

The project starts from the disk and works outwards: the metadata persistence protocol, the
object tables it protects, the data of an object through snapshots and copy-on-write, the
recovery of a replica, the path of a write through the primary's store, and the client
library. `PROJECT.json` lists every part of the system with its status, the source lines of
every definition, and the hazards of each part; what is left out is at the end.

## Modules

| module | what it models | source |
|---|---|---|
| `DurableLog` | abstract: an accepted record survives everything, once and in order | |
| `RedoZones` | two metadata zones, two log zones, head page; ssd thread, compaction thread, stop, crash, start | `pf_flash_store.cpp`, `pf_redolog.cpp`, `pf_main.cpp` |
| `RedoZonesProofs` | proofs about `RedoZones` | |
| `FixedSizeQueue` | the ring behind the two object queues | `pf_fixed_size_queue.h` |
| `FixedSizeQueueProofs` | proofs about `FixedSizeQueue` | |
| `LmtChain` | the entries of one object, newest snapshot first, and the decision of `delete_obj_snapshot` | `pf_lmt.h`, `pf_flash_store.cpp` |
| `LmtTables` | the tables `obj_lmt`, `free_obj_queue`, `trim_obj_queue`, and the replay of each log item | `pf_redolog.cpp` |
| `FlashMeta` (`MCFlashMeta`) | every operation that changes the tables, with the items it logs | `pf_flash_store.cpp` |
| `SnapStore` | the data of one object: writes, copies, snapshots, crash | `pf_flash_store.cpp` |
| `Recovery` | one object of a replica recovered from the primary while clients write | `pf_flash_store.cpp`, `pf_restful_api.cpp` |
| `StoreIO` | a write through the primary: dispatcher, replicator, error handler, both connections, the peer | `pf_dispatcher.cpp`, `pf_replicator.cpp`, `pf_error_handler.cpp`, `pf_server.cpp` |
| `StoreIOInvariant` | the inductive invariant of `StoreIO`, lemmas about its parts | |
| `StoreIOServerProofs`, `StoreIOReplicatorProofs` | every step of the dispatcher, the client's connection and the disk, and of the replicator, the delay thread and the error handler keeps it | |
| `StoreIOProofs` | so does every step of the network and the peer; the theorems about `StoreIO` | |
| `ClientVolume` | the client library: iocbs, replies, timeouts, resends, reopen | `pf_client_api.cpp`, `pf_tcp_connection.cpp` |
| `ClientVolumeInvariant` | the inductive invariant of `ClientVolume`; every step keeps it | |
| `ClientVolumeProofs` | the theorems about `ClientVolume` | |

The levels meet at two promises. `RedoZones` treats a log record as an ordinal and a metadata
image as the sequence of records applied to it, and implements `DurableLog`. `FlashMeta`
builds on that promise: its disk is an image plus the items accepted after it. It shows that
the items rebuild the tables, but for the end of a copy logged under a wrong key, and that each
object has one owner. `SnapStore` takes for granted that the log rebuilds the tables, the end of a
copy included, and follows the data; what it says of a crash holds as far as that does. `Recovery` uses the same chains (`LmtChain`) with `do_write` as
one step on each replica, and adds the second replica. `StoreIO` and `ClientVolume` are the
two ends of the path of a request and treat the disk as a place that keeps values.

### RedoZones

`md`, `logArea` and `diskHead` are the disk. `head`, `log`, `cstate` (`to_run_compact`) and
`tool` (`compact_tool`) are the fields of the running `PfFlashStore`; `pc` and `cpc` are where
its two threads stand. A step is what happens between two disk writes or under one hold of
`md_lock`, so a crash may fall between any two writes of a save: `save_meta_data` is two steps,
first the zone is being overwritten (`torn`), then zone and head page are complete. The two log
zones are adjacent and `replay` has no bound of its own; `ItemAt` and `RunLength` keep that.

Some paths of the code give up the guarantee. Each is a *disturbance*, an event named in
`DisturbanceKinds` that happens only if the constant `Disturbances` allows it and that sets the
history variable `disturbed`:

- `late_compaction`: a second trigger takes `md_lock` before the compaction thread and resets
  the log to the start of the zone it is writing;
- `log_error`: `write_entry` fails, and the item may have reached the disk all the same;
- `sync_save`: the synchronous save after a failed compaction;
- `flush_error`: the result of the last `flush_buffer` of a save is overwritten;
- `startup_save_error`: the result of the save at start-up is ignored;
- `busy_stop`: `stop_app` meets an outstanding or failed compaction, or the ssd thread logs after
  the save of `stop_app`.

Properties of the form `~disturbed => ...` say what holds until then. The theorems hold for
every choice of `Disturbances`. The unconditional form is checked where a document, comment or
test of the repository claims it.

### FlashMeta and SnapStore

In `FlashMeta` one action is one call on the ssd thread (`do_write`, the end of a copy,
`delete_obj_snapshot`, `delete_obj`, one step of `trim_proc`), with the items it logs. The rings keep
their indexes and their stale slots, since replay restores slots by index. `DeleteReplica`
assumes that no copy of the object is in progress; the code does not enforce it (see hazards).
`do_cow_entry` logs the end of a copy under a key that it reads through a pointer to a local
variable of a call that has returned, so `CowDone` logs it under any key. The history variable
`misfiled` holds the objects whose copy was logged under another key than their own; replay leaves
their entries COPYING, and a restart drops them. `ReplayMatchesMemory` says that this is the only
difference between memory and the replayed log.
Keys are interchangeable, so the run uses symmetry.

`SnapStore` has one object, with its device writes in flight, the `waiting_io` lists and the
pieces of a copy. A write is a number. `may` and `snapMay` record what a reader of the
volume or of a snapshot is entitled to see. Its disturbances are a deletion that takes an object
from an earlier snapshot, a copy from an unfinished copy, and a copy from an object with a
write in flight.

### Recovery

`prim` and `repl` are the chains of the object on primary and replica, `head` is
`recovery_head_entry` with its buffer, `rec` is where the recovery thread stands. What the thread does
through `sync_invoke` is one step; between the steps clients write, to each replica separately,
and the replica may fail. Only `out[b]`, a write done by one replica and not the other, is
kept of the I/O path. The first three steps of `recovery_object_series` are `PlaceHead`,
`CompareSnaps` (query the primary, delete what it does not have, choose what to read) and
`BeginEntry`; `CopyBlock` is one `RecoverySubTask`; `finish_recovery_object` is `DropHead`,
`AllocForBuffer`, `UseFirstEntry`, `CopyOnWrite`, `Overlay`, or `FinishFails`. When, after a
snapshot, the placeholder has a lower snap_seq than the entry to be recovered, `BeginEntry` inserts that entry in
front, the code takes it for the placeholder from then on (`head.known`), and the assertion at the
end of the recovery fails (`HeadNotRecovering`). A block of an object that was never written holds
what the device held before, which need not be the same on both replicas (`OldOnPrimary`,
`OldOnReplica`); `ReplicaReadsLikePrimary` compares the blocks that were written.

Disturbances: `slow_write` (the primary answers a recovery read before a write that it took
earlier has landed), `snapshot` (taken during the recovery), `newer_entry` and `two_newer` (the
replica has entries that the comparison of snap_seqs does not see through), `query_fails`,
`disk_fails`. `since` is a history variable that tells a trusted stale entry apart.

### StoreIO

`sio` are the `PfServerIocb`s of the client's connection with reference count, task mask and status;
`disp` and `rep` say where dispatcher and replicator stand when a connection may close under
them; `repQ` and `delayed` are event queues; `rio` are the replicator's iocbs; `conns` are the
connections to the peer, one after the other, with `inflying_io` and `unclean_closed`. `peer` and
`replies` are messages under way. A connection that closes loses its replies and any part of its
requests; what it does not lose, the peer may execute at any later time. The conductor is external: it
takes the replica out of service. `acked` is what the client was told.

Disturbances: `close_race` and `reply_race` (a buffer is posted on a connection after its flush),
`late_original` (the peer executes a request of a closed connection after its second copy was
done), `conductor_silent`, `conductor_refuses` (an error answer, whose exception ends the process),
`disk_error`, and `not_primary` (the dispatcher waits for itself). Four more miscount `inflying_io`:
`no_iocb` and `requeued` (a request is put back after `get_throttle`), `recovery_read` (its completion
calls `put_throttle` without a `get_throttle`) and `uninit_count` (no constructor sets the count; a
connection starts with a value of `StartCounts`). The history field `drift` of a connection adds
them up; `ThrottleAccounted` says that the count is the requests in flight plus `drift`.

### ClientVolume

`events` is the queue of `vol_proc`, `waiting` is `reopen_waiting`, `link` the connection with its posted
reply buffers, `net` the requests under way. The users, `vol_proc`, the poller and
the timeout thread are separate processes; the timeout thread posts an event and marks the
iocb in two steps. `sent` abstracts `sent_time` to unset, recent and overdue. `command_seq` is the flag
`stale` on a request that no longer has the number of its iocb. `store` holds the volume's
version at the conductor and at the store, which refuses a request with another version.

A connection may close in the middle of the payload of a READ. The buffer that is flushed is then
the user's `data_bd`; `client_on_tcp_network_done` puts it into `reply_pool`, and the `reply_bd` is lost.
`cut` follows both: how many reply buffers are lost, and how many data buffers are pooled,
posted or stuck in their place. A data buffer that is posted swallows the replies that
follow (`Swallow`), and a transfer that ends in the buffer of a request without a `client_iocb`
dereferences NULL (`OrphanDone`). A process that ends this way, on an unset `io->conn` or by
`S5LOG_FATAL` keeps the reason in `fault` and takes no further step. `post_send` and `post_recv` do not
fail here for lack of room: the queues of a connection have twice `io_depth` places, as many as
the client has iocbs.

Disturbances: `close_race`, `read_refused` (a READ refused by the store: the client waits for a
payload that is not sent) and `reopen_fails`. After a refused READ the bytes of the next replies would
fill its data buffer; the model lets the client wait until the connection closes.

## Runs

| run | expect | what it shows |
|---|---|---|
| `redo_zones` | pass | at every crash point a restart finds exactly the accepted records; tables in memory equal the recoverable ones; the compaction image is exact; phases advance; blocked writers get through; records are absorbed; `DurableLog` is implemented |
| `redo_sync_save` | violation | after a failed compaction, the synchronous save points the log at a zone that a restart does not replay |
| `flash_meta` | pass | replay rebuilds the tables wherever a compaction cuts the log, but for copies logged under a wrong key; one owner per object; no leak but the known one; chains stay ordered |
| `flash_meta_leak` | violation | a restart during a copy loses the object of the copy |
| `flash_meta_target` | violation | deleting a snapshot older than the first write to an object runs off the chain |
| `snap_store` | pass | volume and snapshots read back through copies, failed copies, deletions and crashes; the source of a copy is kept; no write is forgotten |
| `snap_shared_object` | violation | deleting a snapshot takes the object that an earlier snapshot shares |
| `snap_inflight_source` | violation | a copy misses a write in flight to its source |
| `recovery` | pass | a replica back in service reads like the primary, volume and snapshots; its chain is ordered and its placeholder replaced only after a snapshot; no placeholder or unfinished entry is left |
| `recovery_duplicate` | violation | a client write into the placeholder makes the insertion of a missing entry fail, which ends the process |
| `store_io` | pass | an acknowledged write is on every replica in service; an iocb is reused only after its last subtask; the throttle count is off only by the four causes known; every request is settled |
| `client_volume` | pass | iocbs are conserved, and reply buffers but for the ones lost in a cut payload; one answer per request; no reply of a timed-out request is met; every request is answered |

**Bounds.** `redo_zones`: zones of two items, five records, two external events (crash, stop,
`save_md`, a failed log write), and the disturbances `sync_save`, `startup_save_error` and `log_error`. Five records fill a
zone twice and wrap into the zone reused. Two external events put a crash into the recovery
from a crash. External events are explored only up to the first disturbance. The theorems
remove these bounds for safety, here and in `store_io` and `client_volume`. `flash_meta`: two keys compete for two objects, three
snapshot numbers, three items not yet compacted; this is enough for the rings to wrap and for
a chain that holds every object; a chain has at most two entries. `snap_store`: three objects (volume plus two snapshots),
two blocks, so that a copy has a half-way point, and four writes. `recovery`: two blocks, three
snap_seqs, three writes, one of them outstanding at a time, and two outages, so that a recovery may
follow a broken recovery; one kind of disturbance in a behaviour, since each suspends the
property it is about. Blocks are interchangeable. `store_io`: two client iocbs compete for
one replicator iocb on a connection of depth one, so that the throttle, the delay
thread and the lack of an iocb occur; a new connection counts 0 or, by `uninit_count`, 1; one recovery
read; one kind of disturbance in a behaviour; two requests; two connections, so that a resend meets its
original. `client_volume`: two iocbs, three requests (the second a READ), so that an iocb is
reused while its old timeout event is still queued; two volume versions; one loss of the connection.

**Fairness.** `RedoZones`: each thread that can step does, the timed wait of the compaction
thread expires, and a process that is starting or stopping goes on. Nothing is assumed of
clients, operators or failures. `SnapStore`: the device answers and the threads of
`cow_thread_pool` run. `StoreIO`: dispatcher, replicator, delay thread, disk and poller go on
while they have work, and a connected peer answers; nothing is assumed of connections or of
the client. `ClientVolume`: `vol_proc`, timeout thread and poller run, time passes, the conductor
gives a store the version it has chosen. Strong fairness stands for two limits that the
model has no clock for: a store that is asked again and again answers before the timeout at
last, and a request that waits for a connection again and again is overdue at last. `LogIsAbsorbed` and `WritesAnswered` except a failed compaction and a
failed copy, because the code does not retry them.

## Proofs

`RedoZonesProofs` proves, for zones of any size and any set of disturbances:

- `TypeCorrect`: `Spec => []TypeOK`. This needs that `write_entry` always has room
  (`RoomAndPhase`) and that every `replay` ends. The latter takes the least item with another
  phase, which exists because no phase in use is 0, the phase of an unwritten item.
- `Partitioned`: the inductive invariant `RecordsPartitioned`. `RestartRecoversLog` alone is
  not inductive: it says nothing of stale items beyond the end of a run, nor of where the log and
  the compaction tool stand. The invariant says there are `b` and `c` such that the metadata zone
  holds the first records, the current log zone the next `b` under phase `p`, the opposite zone
  the last `c` under phase `p + 1`, and all other items carry a phase below `p`; the log points
  behind the last record, and the tool holds the metadata zone, or that plus the current log
  zone. A compaction turns `(b, c)` into `(c, 0)`; a start and an orderly stop give `(0, 0)`; a
  record adds one to `b` or `c`.
- `Recovery`, `Memory`, `ZoneIntact`, `ZonesSeparate`, `CompactionExact`: the safety properties of the run,
  each a consequence of the invariant through `DiskRecovers`, which computes both replays.
- `Refinement`: `RedoZones` implements `DurableLog`.
- `PhasesAdvance`: no two saves carry the same phase, from a separate invariant
  (`PhaseOrder`) that holds after a disturbance as well.

`FixedSizeQueueProofs` proves that the ring is a bounded queue for every depth and index
position: count and space add up, `enqueue` appends, `dequeue` takes the first.

`StoreIOProofs` proves the safety properties of the write path for any number of iocbs, blocks,
requests and connections and any `io_depth`:

- `FreedLast`: `Spec => []IocbFreedLast`.
- `Throttle`: `Spec => []ThrottleAccounted`.
- `AckedStored`: `Spec => []AckedOnEveryReplica`.

They follow from one inductive invariant, `Inv` of `StoreIOInvariant` (theorem `InvHolds`). None of
them is inductive alone: that the count is accounted for, for instance, needs that a reply finds its iocb
waiting, and this needs that a request which was sent again has lost its first reply. The parts of `Inv`:

- the references of an iocb are those of its connection, of the subtasks in its mask and of the
  dispatcher while it answers (`IocbOK`);
- a remote subtask is, once, in at most one of the two queues, the replicator's iocbs, the error
  report and the completions (`OnePlace`);
- only the last connection is open, and no reply of a connection comes behind the event that
  it has closed (`ConnOK`, `ClosedLast`), so a resent request is not completed twice;
- a message on an open connection belongs to an iocb that waits for it (`WireOK`);
- requests that last have different blocks (`NumbersOK`);
- what has been reported as written has been written (`LocalStored`, `RemoteStored`, the latter up
  to `late_original` and `conductor_silent`), and `inflying_io` counts the requests without a
  reply and `drift` (`ThrottleOK`).

`ClientVolumeProofs` does the same for the client, for any number of iocbs, requests, versions and
lost connections:

- `OnePlace`: `Spec => []IocbInOnePlace`.
- `AnsweredOnce`: `Spec => []AnsweredAtMostOnce`.
- `NoStaleReply`: `Spec => []TimedOutReplyNeverSeen`.
- `BuffersKept`: `Spec => []ReplyBuffersKept`.

The parts of `Inv` of `ClientVolumeInvariant`:

- no queue holds an iocb twice, and an `EVT_IO_COMPLETE` is handled before the next `EVT_IO_REQ`
  of its iocb (`QueueInv`);
- an iocb is in exactly one of pool, event queue, `reopen_waiting` and flight (`PlaceInv`);
- a request under way has the `command_seq` of its iocb, is on the live connection and has no
  completion yet, and a completion finds its iocb in flight or about to be sent again (`FlightInv`);
  this is what rules out the reply to a request that timed out;
- a request is unanswered as long as it has an iocb (`RequestInv`);
- a reply buffer is free, posted, with a payload, with a completion, stuck on a closed
  connection, or lost with a data buffer in its place (`BufferInv`).

Both invariants were model-checked on the instances of the runs before they were proved. In the
proofs a step has a lemma of its own, and parts of the invariant that a step does not touch are
carried over by the frame lemmas of the invariant's module. Cardinalities are used through
`CardinalityFacts`, which the last module of each development proves from `FiniteSetTheorems`.

The only assumptions are `ConstantsAssumption` of `RedoZones`, `StoreIOAssumption` of `StoreIO`,
`ClientVolumeAssumption` of `ClientVolume` and the types of the arguments.

Only model-checked are the liveness properties (`TriggerCompletes`, `LogIsAbsorbed`, `WritesAnswered`,
`EveryRequestSettled`, `EveryRequestAnswered`), because they need fairness, and the properties of `FlashMeta`, `SnapStore` and `Recovery`.
The latter speak of chains built by `SelectSeq` and `InsertAt` and of tables replayed by folds over
the log items; that these keep the order and the owners of a chain of any length takes an
induction over the data, which the prover does not do.

## Disagreements between code and documents

Six runs end in a violation; `PROJECT.json` quotes the line each contradicts. In short: the
synchronous save after `COMPACT_ERROR` loses the records that follow it; a copy cut short by a
restart leaks its object; `delete_obj_snapshot` dereferences NULL for an object younger than the
snapshot; its case A3 cannot be reached; a copy does not wait for writes to its source;
a write into the placeholder of a recovery is taken for the entry that is to be recovered.

## Not modelled

Formatting and disk sharing, the I/O engines, configuration, logging, ZooKeeper registration,
SQLite and the legacy `S5bd`/`sld` trees have no protocol state of their own or are external.
The event queue is used by its contract: events are handled one by one in the order posted, and
no queue is full (the depths are configured above the number of I/Os). The
models of the I/O path are for TCP; RDMA completions follow the same handlers with one
transfer less. Also left out: the NVMe simple-copy path, reads at the dispatcher, heartbeats, local shards of a client,
closing a volume, the redo-log items of a recovery, the append-only file, and the
uses of freed memory listed as hazards whose outcome is not bounded by the code.

What remains to be done: `RECOVERYING` entries in `FlashMeta` with their log items and compaction, the
append-only file over an abstract volume, and proofs of `ObjectReferencedOnce` for `FlashMeta` on top of
the queue theorems.
