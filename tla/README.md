# nodetool: a TLA+ model

`nodetool` keeps a hash tree of the tables of a sharded database on every node, so
that two nodes can find out cheaply which rows they disagree on. Change messages keep the
rows' digests up to date, console commands build trees, read them and rebuild them from a
dump, and a comparison tool walks down the trees of two nodes. This directory holds its
TLA+ model, the TLC runs that check it and the TLAPS proofs about it. Paths such as
`hashtree.cpp:284` are relative to `src/`.

## 1. Inventory

| Component | State | Operations | Correct when |
|---|---|---|---|
| Row store (`hashtree.cpp`, LevelDB) | rows `table, segment, row key -> digest` of all tables in one database sorted by `SegmentComparator` | `hashtree_insert`, `hashtree_remove`, `hashtree_get_segment` | a segment read returns the table's rows of that segment, all of them and no others |
| Hash tree (`hashtree.cpp`) | nodes of three levels, stored in the same database under the table `_sys_internal_` | `hashtree_update`, `hashtree_get_digest` | between updates the stored tree is the tree of the rows of one moment |
| Filter list (`filtermsg.cpp`) | a mutex and a sorted array of `table, column -> function` that doubles when full | `filter_list_add`, `_rm`, `_get`, `_normalize_data` | a lookup finds the column's function; nothing is lost by growing and sorting |
| Filter synchronisation (`aae/filterlist.py`, `nodemon`) | `_data`, the columns it believes to be in the filter list; a looping call | `FilterList.update` every 10 s | the filters follow the metadata database |
| Message receiver (`inputmsg.cpp`) | none of its own; a hash context per message | `onMapMsgHandle` | a row's digest is that of its normalised values, the one a dump of the row gives |
| Console (`aae/console.py`) | per connection line buffer | `get_lv_hash`, `get_seg`, `update`, `rebuild`, `list_filter`, `debug` | commands run one at a time and answer ack or nack |
| Rebuild (`aae/console.py:59`, `aae/treebuilder.py`, `aae/datadump.py`) | a dump folder, a temporary tree | dump, parse, `copy_tree` | afterwards the rows are those of the database, messages in between included |
| Dump parser (`dmpfileparser.y`, `.l`) | the fields of the current line | one callback per record | every record is delivered once |
| Node comparison (`nodecmp`, `treebuilder.tree_cmp`) | a socket and its buffer | descent by level, segment difference; `readlines` | it prints exactly the rows that differ; a call returns its own reply |
| SHA-1 (`sha1/sha1.c`) | context: state, bit count, 64-byte buffer | `Init`, `Update`, `Final` | the digest depends on the concatenated input only; what it does to the input is harmless |
| Python bindings (`pywrapper.cpp`) | owners of the C++ objects | argument conversion | no state of their own |
| Metadata, configuration, debug switch, line reader | — | queries; `readline.cpp` is not linked | — |

**Threads.** Two threads share the store and the filter list. The *reactor's* thread runs
the console commands and the filter update, one after the other. The *receiver's* thread
(`inputmsg.cpp:74`) handles messages: it inserts and removes rows and looks columns up in
the filter list, and holds no Python lock while it does. LevelDB serialises single puts and
gives `hashtree_update` a snapshot; the filter list has its own mutex. The database survives
the process: `nodemon:21-23`, which deleted it at start, is commented out.

**What is hard.** An update against concurrent messages; puts whose status is dropped and
crashes between puts; a comparator that finds different keys equal; a function read through
a pointer after the unlock; a hash that overwrites the key it is given; a local variable of one
loop used in another; an exception that silently ends a periodic call; a stream cut anywhere. `PROJECT.json` lists each hazard at its line.

## 2. Modules

    Keyspace          keys, comparator order, node names, digests           (pure)
      KeyspaceProofs  rank of a key among others, sorted lists, leaf numbers
    Sha1Stream        the hash context, and what hashing leaves of its input (pure)
      HashStore       rows: insert, remove, get_segment
        SegmentRead   a segment read, made a dictionary and passed back to remove
          SegmentReadProofs
        Hashtree      hashtree_update, get_digest, crashes, failing puts
          HashtreeProofs   also holds the proofs about HashStore
        Rebuild       the rebuild command: dump, temporary tree, copy, against messages
          RebuildProofs
      TreeView        abstract: what hashtree_update promises
      NodeCmp         nodecmp's diff over two nodes (TreeView trees, HashStore segments)
        NodeCmpProofs
    FilterEntries     abstract: the entries of the filter list
      FilterList      the array, the mutex and the two threads; implements FilterEntries
        Receiver      onMapMsgHandle over FilterList and Sha1Stream
          ReceiverProofs   also holds the proofs about FilterList and Sha1Stream
      FilterSync      FilterList.update on top of FilterEntries
        FilterSyncProofs
    NodeClient        one connection: NodeClient of nodecmp against AaeConsole
      NodeClientProofs

    MCSegmentRead, MCHashtree, MCReceiver, MCRebuild, MCNodeCmp, MCNodeClient
                      key layouts, texts and values for TLC

### Keyspace

A run fixes the store keys that can occur and numbers them in the comparator's order
(`KeyAssumption` states that it is this order); `Tab` and `Seg` give a key's table and
segment. The text of a row key matters only where the comparator finds two of them equal
(`hashtree.cpp:50-53` compares over the shorter length): that relation is `Twins`. For the
tree's own nodes the text is `<table>_<level>_<index>`, so `NodeTwin` is computed from the
digits of the indexes. `Sha1` is a free constructor: no collisions. The segment number, 20
low bits of the key's SHA-1 bytes, is the constant `Seg`.

### Sha1Stream

The context of `sha1.c` as pure functions: `Update` buffers what does not fill a block,
completes the buffer, takes whole blocks straight from its argument and counts bits in two
words with the code's carry (`Counted`); `Final` pads byte by byte. The 80 rounds are a free
constructor: the state is the list of the blocks mixed into it. What is *not* free is where
the rounds work: `SHA1HANDSOFF` is not defined, so a block is expanded in place, and `Left`
is the caller's memory afterwards. `Sha1Of` is the definition of SHA-1's padding, written without
a buffer, to compare with.

### HashStore

`db[p]` is the value under key `p`. A put or delete supersedes the twins of its key, which
is what LevelDB does with keys its comparator finds equal. The stored value is the *head* of
a digest, its first 8 bytes (`sizeof(hval)` at line 125 is a pointer's size), and a segment
read returns an entry whose other 12 bytes are unspecified (`EntryDigests`). `SegmentKeys` is
the seek and the loop of `hashtree_get_segment`.

### SegmentRead

`TreeBuilder.copy_tree` reads a segment and passes its keys back to `hashtree_remove`. Here a
row key has a text, because `hashtree_insert` hashes the key before it copies it into the
store key (`hashtree.cpp:133, 146`): what is stored is `Text(p)`, the text as hashing leaves it,
which for a key of two
blocks or more (128 bytes) is not the row key (`Changed`).

| Action | Code |
|---|---|
| `ReadBegin` | `hashtree.cpp:343-364`: snapshot, seek, a block of `FirstAlloc` bytes |
| `ReadEntry` | one iteration: the block doubles when the entry would reach its end, the entry is written |
| `ReadBeyond` | an entry that one doubling does not make room for is written over what lies behind the block; the model stops there, since nothing is defined from then on |
| `ReadReturn` | the tag behind the last entry; `py_hashtree_get_segment` makes a dictionary and frees the block |
| `PassBack(k)` | `dst.remove(self._name, k)`, which hashes `k` afresh |
| `PassBackRaises(k)` | what hashing left of a long key may contain a zero byte, which `"s"` refuses |
| `Receive` | a message on the other thread, between any two of these |

`doomed`, a history variable, holds the rows of the segment when it was read, less those a
message has touched since. `PassedBackGone` says what becomes of each of them: one whose key hashing
leaves alone is gone once its key has been passed back; one whose key hashing changes is still
there whatever has been passed back, unless it went along with a row the comparator finds equal.
`BlockFits` says that entries and tag stay inside the block up to the first entry that alone is
longer than it, a case nothing in the code prevents.

### Hashtree and TreeView

| Action | Code |
|---|---|
| `UpdateBegin` | `hashtree.cpp:256-275`: allocate, take the snapshot, seek |
| `ScanRow(p)` | one iteration of the loop `276-299` |
| `ScanEnd` | `300-309`: the last leaf and the empty ones behind it |
| `WriteNode`, `WriteRoot` | one put of `_hashtree_put_lvx`, `207-216`, with the level-1 and level-0 digests of `312-328`; the put may fail unnoticed (`Faults`) |
| `Crash` | the process dies and is started again |
| `Receive` | a message on the other thread |

`image` is a history variable: `"whole"` when the stored nodes are those of one finished
update, `"torn"` after a crash or a failed put and while nodes are being written. After a
failed put the code answers ack all the same; that is recorded by `image` and is not an
error of the model.

`TreeView` states the promise of `hashtree.cpp:247`, "update() operates on a snapshot of
leveldb database, it does not block insert()": rows change at any time (`Write`), an update
picks one moment (`Begin`) and either publishes the tree of exactly that moment's rows or
leaves no particular tree. `Hashtree` implements it under the mapping `tree <- nodes` when
`image` is `"whole"` and `NoTree` otherwise, `cand <- snap` while an update runs. `Tree(f)`
lacks the nodes whose name another name extends, since those are superseded.

### FilterEntries, FilterList, FilterSync

`FilterEntries` is a bag of entries per column: add never replaces, remove clears the
function of any one entry, lookup finds any one. `FilterList` is the array: each lock,
growth, append, sort, clear, unlock, search and read is an action, on two threads. A lookup
keeps a pointer (`rst`: allocation and slot); the read after the unlock yields whatever the
slot holds then, any entry's function while `qsort` is moving entries, and anything once the
array has been freed. `qsort` may leave equal entries in any order and `bsearch` may return
any match. `FilterSync` processes the rows of the query one by one in any order, then the
dropped columns in any order; a column is reduced to the function of its type (`NULL`: not
normalised), several rows of different businesses may give one column several types, since
the query does not restrict them.

### Receiver

`onMapMsgHandle` name by name, in the map's order, over the variables of `FilterList`: a message
deletes its row (`Delete`) or is summed. `SkipSystem` passes over the publisher's own names,
`LookUp`, `Search` and `Sum` look a column up (three steps of `FilterList`), normalise its
value with whatever function the lookup yielded and feed it to the context; `Finish` takes the
digest. `ChangeList` is the reactor adding and removing filters meanwhile. Calling what freed
memory held ends the process (`Crash`).

`had[k]` remembers every function column `k` has had since the message came, and `raced` that an
add touched the array between a lookup's search and its read. `DigestAsDumped` compares the
result with `RecordDigest`, which is `_handle_record` of `treebuilder.py` for the same row: a
digest on the message path is one that a dump of the row would give, each column with a function
it had meanwhile, through the buffer, the direct blocks and the carry of the bit count. With an
unchanging list that makes the two paths equal, which is what a rebuild rests on. The insert at
the end is `HashStore!Message`, composed with the store's readers in `SegmentRead`, `Hashtree`,
`Rebuild` and `NodeCmp`.

### Rebuild

| Action | Code |
|---|---|
| `Change` | external: a row of the MySQL shard changes and the publisher sends it |
| `Receive` | `onMapMsgHandle`: the oldest message is applied; a failing put is dropped (`"put"`) |
| `Dump` | `console.py:59-76`, `datadump.py`: both folders emptied, the table selected at one moment |
| `ParseRecord(p)` | one line: the grammar's callback, `_handle_record`, insert into the temporary tree |
| `SyntaxError` | a bad line silently ends its file (`"syntax"`); `pywrapper.cpp:546` ignores `yyparse`'s result |
| `ParseEnd` | the last file is parsed |
| `CopyOpen`, `CopyRemove(p)` | `treebuilder.py:18-20`: read the store's segment, remove its keys one by one |
| `CopyLoad`, `CopyInsert(p)` | `treebuilder.py:21-23`: the temporary tree's segment, inserted row by row |
| `CopyRaises` | a key with a zero byte, which only hashing brings in, is refused by `"s"` (`pywrapper.cpp:69, 91`): the command ends |
| `CopyNext` | the next segment, or the end |
| `Abort` | an exception, or the end of the process, anywhere (`"exception"`) |

The temporary tree is a second instance of `HashStore`. Two history variables say precisely
what a rebuild gets wrong: `old`, how many messages under way are older than the dump, and
`missed`, the rows whose change *after* the dump was handled *before* their segment was copied
(the copy then undoes it), whose line of the dump was lost, or whose put failed. A later
message on such a row, handled after its segment, takes it out again.

What the copy passes to `remove` and `insert` is the text that the trees have stored, which is
hashed once more. `Again[p]` is the key of the store that the text stored with `p` names then: `p`
itself for a key shorter than two blocks; for a longer one (`Changed`) another key, in whatever segment
its hash says, under which the row is inserted (`Copies`), or, when it is to be removed, one that
mostly is not there. A key of another table that the segment read has run into names nothing
(`Named`).

So a rebuild gets wrong the rows in `missed` and the rows whose key hashing changes.
`CopiedRowsRight` says that it gets no other row wrong; it is stated of what the store will hold
once the queue is empty (`Delivered`), so it says something in every state, also of a copy cut
short. `ChangedRowsLeft` says what becomes of the rows with changed keys: only their own messages
insert or remove them, the rebuild never does. Keys longer than the block of a segment read
(`SegmentRead!ReadBeyond`) are left out here.
Messages sent while the process is down are assumed to be kept by the publisher.

### NodeCmp

`diff` as the sequence of commands it sends: `Update` twice, then for each level `Ask` (the
first node's answer, `r1`) and `Lv0Diff`, `Lv1Diff`, `Lv2Diff`, `SegDiff` (the second's, and
what follows from the two), `Ascend` at the end of a loop. Between any two commands messages
change rows on either node and other clients may update a tree. A node is its rows and the
rows its tree was last computed from; its stored nodes are `TreeView!Tree` of those, which
the run `hashtree` shows `hashtree_update` to implement when nothing fails. Reading the digest of a
superseded name yields that of any node whose name extends it, and reading a segment yields
the 12 unspecified bytes of each entry.

`GetSegment` is the dictionary that `nodecmp:56-57` makes of the lines: each is split at its first
space, so the rows of a segment whose keys start alike (`Start`) leave one item, that of whichever
line came last; what is behind the first space tells which row it was, so an item is a row and a
digest. What is printed of a row is its segment and start (`Item`). `DiffComplete` therefore excludes
the rows that share their item with another (`Merged`): of two such rows, one of which differs, both
nodes may list the other one last. TLC shows it when the exclusion is left out.

`Owner` assumes that digests of different rows differ. The first version of the model did not,
and TLC found `DiffComplete` violated: a leaf sums the digests of its rows without their keys
(`hashtree.cpp:296`), so a row on one node and another row of the same digest on the other
give equal leaves. The digest includes the key's columns, so this needs a coincidence
(columns are concatenated without separators: 1, 23 and 12, 3 have the same digest). No comment
or test of the code promises otherwise; it is listed as a hazard.

### NodeClient

One call of `nodecmp`'s `NodeClient` as `readlines` runs it: `First` fills an empty buffer, `Top`
drops the end of the line before (and fails on an empty buffer: `TopFails`), `More` reads on
while there is no end of line, `Line` yields one. The stream hands over any non-empty prefix of
what was sent; `Lose` cuts it after any byte, after which `recv` returns no bytes.
`AaeConsole` answers each command with lines and `ack`, or with `nack`.
`buf` outlives the call: `ReturnsReply` is about what the *next* call finds.

## 3. Runs

| Run | Shows | Bounds |
|---|---|---|
| `segment_read` | reads are complete always, exact while the table has a row in a later segment, inside the block until an entry is longer than it; passing the keys back removes the rows whose keys hashing leaves alone, and no others | 8 keys in 3 tables, among them one in segment 0 between the others like `_sys_internal_`, one pair of twins, two row keys of two blocks or more, one of them longer than any block can make room for, one row key that two tables have; 4 segments; a block of 2 bytes to hash, a first allocation of 5 |
| `hash_store_overrun` | **violation**: a read of a table's last occupied segment includes rows of the next table | same |
| `hashtree` | `ScanExact`: each snapshot row is fed once, in order, into its leaf; `ParentsHashChildren`; implements `TreeView` under failing puts and crashes; updates return | rows in segments 0 and 2 of 4 and a row of a second table behind them; 1 value; any number of updates, messages, faults |
| `hashtree_node_names` | **violation**: the children read back are not those the parent was computed from | same, no faults |
| `receiver` | digests are those of a dump; every message is handled; the array is sound and implements `FilterEntries` | 2 columns with a system name between them, empty and epoch values, blocks of 2 bytes, a bit count whose first word overflows within the second value; first capacity 1, 2 adds: the second doubles |
| `filter_list_race` | **violation**: a lookup returns another column's function | capacity 2, 2 adds: no doubling is needed |
| `filter_sync` | columns of constant type keep exactly their filter, and it is added once until a column is dropped | 2 steady columns, one that is dropped, retyped and gets conflicting rows; at most 2 entries per column and function |
| `filter_sync_retype` | **violation**: after a change of type the old function may be found | 2 columns |
| `filter_sync_stops` | **violation**: dropping columns ends the periodic update | 2 columns |
| `rebuild` | copied rows end at MySQL's value, rows with long keys are left as they are, other tables keep theirs, under syntax errors, failing puts and aborts; a rebuild ends | 2 rows of the table in segments 0 and 2 of 4, the second with a long key whose copy lands in segment 1 with a zero byte, a row of the next table in segment 2; present or absent (a change is an insert or a delete); 2 messages under way, any number in all; any number of rebuilds |
| `node_cmp` | `diff` prints what differed throughout, unless rows share an item, and opens no segment equal throughout | 2 nodes; 3 rows of the table, two of them in one segment with keys that start alike, one with 2 values, and a row of the next table behind; any initial content; 1 message; any number of other updates |
| `node_client` | a call returns its own reply and leaves nothing of it; a cut reply never passes for a whole one; items; calls return while connected | 2 digests of one byte, 2 keys of which one is the other and more behind a space, at most 2 digests in a reply; every cut of the stream; any number of calls |

*Why the bounds are enough.* The tree has fan-out 2, so 4 leaves, 2 inner nodes and a root:
an empty leaf before, between and behind occupied ones, and a level
whose names collide (indexes are printed in base 2 there, so node 1 meets 10 and 11, as 1 meets
10 and 11 in base 10). Every interleaving of messages with every step of the update is
explored. (Several rows in one leaf would take a fourth key; `ScanIsExact`, which covers them, is proved.)
For a read, a first allocation of 5 and entries of 2 to 5 bytes let an entry or the tag end before,
at and behind the end of the block. For the array, capacity 1 makes the first add fit exactly and
the second double. For a digest, blocks of 2 bytes split values anywhere, and the carry between
the words of the count falls inside a value. The constants of the code (1024, 64, base 10) only change how often a case
repeats; the proofs below cover all of them.

For a rebuild, a segment is either before, at or behind the copy, and a row's messages older
or newer than the dump; two messages under way give every order of two changes of one row, and
of one row's change with another's. The long key's row lies behind the segment
its copy lands in, so that the copy of a first rebuild is read, and refused for its zero byte, by the
second. In `diff`, each comparison involves two nodes and at
most one level, and any initial content of both nodes is allowed, so one change between any two
commands is enough to make the two answers of a step come from different moments; with other
clients' updates it also makes a tree older or newer than the segments. (`DiffIsComplete` is proved
for any number of messages.)

For a call of `NodeClient`, two lines and the closing one make a line begin at the start, in the
middle and at the end of what a `recv` returned, and a second call finds what the first left.

*Fairness.* `UpdateReturns` needs `WF_vars(UpdateStep)` and `RebuildEnds` needs
`WF_vars(RebuildStep)`. The steps of a running `hashtree_update` or `cmd_rebuild_tree` wait for no
lock held by another component and no message, and the reactor does nothing else until the
command returns, so a running call keeps stepping. `MessageHandled` needs weak fairness of the
handler's own steps and of the reactor's inside a filter change (code that runs to the
unlock without waiting), and strong fairness of taking the mutex (`LookUp`): the reactor takes the
same mutex for moments every ten seconds and does not keep the receiver from it for ever.
`CallReturns` needs weak fairness of `Answer` and of the client's steps: the console handles
what it receives and the client reads what arrives. Nothing is assumed about messages, crashes,
faults, the connection or the start of commands.

## 4. Proofs

| Theorem | Module | For all |
|---|---|---|
| `TypeCorrect == Spec => []TypeOK` | `HashtreeProofs` | numbers of keys, tables, fan-outs, bases, digests, faults |
| `ScanIsExact == Spec => []ScanExact` | `HashtreeProofs` | the same |
| `ParentsAreDigests == Spec => []ParentsHashChildren` | `HashtreeProofs` | the same |
| `UpdateImplementsView == Spec => ImplementsTreeView` | `HashtreeProofs` | the same |
| `StoreTypeCorrect == StoreSpec => []StoreTypeOK` | `HashtreeProofs` | the same |
| `SegmentIsComplete == StoreSpec => []SegmentComplete` | `HashtreeProofs` | the same, and twins |
| `SegmentIsExactBeforeLast == StoreSpec => []SegmentExactBeforeLast` | `HashtreeProofs` | the same, and twins |
| `BlockAlwaysFits == Spec => []BlockFits` | `SegmentReadProofs` | sizes of blocks and entries, texts of keys of any length |
| `PassingBackRemoves == Spec => []PassedBackGone` | `SegmentReadProofs` | the same |
| `StoreKept == Spec => StoreSpec` | `SegmentReadProofs` | the same |
| `TypeCorrect == Spec => []TypeOK` | `RebuildProofs` | keys, tables, segments, values, twins, queue bounds, faults |
| `OthersKept`: `Spec => []OtherTablesKept` | `RebuildProofs` | the same, no twins in other tables |
| `CopiedRight`: `Spec => []CopiedRowsRight` | `RebuildProofs` | the same, what hashing makes of each key, no twins in the table |
| `ChangedLeft`: `Spec => ChangedRowsLeft` | `RebuildProofs` | the same |
| `TypeCorrect == Spec => []TypeOK` | `NodeCmpProofs` | keys, segments, values, twins, names, numbers of messages |
| `DiffIsComplete == Spec => []DiffComplete` | `NodeCmpProofs` | the same, and how keys start |
| `EqualSegmentsAreSilent == Spec => []EqualSegmentsSilent` | `NodeCmpProofs` | the same |
| `ListTypeCorrect == ListSpec => []ListTypeOK` | `ReceiverProofs` | columns, functions, first capacities, numbers of adds |
| `ListStaysSound == ListSpec => []ListSound` | `ReceiverProofs` | the same |
| `ArrayIsBag == ListSpec => ImplementsEntries` | `ReceiverProofs` | the same |
| `UpdateFed`: `Update(Fed(T), data) = Fed(Join(T, data))` | `ReceiverProofs` | sizes of blocks and words, texts, pieces of less than 2^29 bytes |
| `FinalFed`: `Final(Fed(M)) = Sha1Of(M)` | `ReceiverProofs` | sizes of blocks and length fields, texts |
| `ListKept == Spec => ListSpec` | `ReceiverProofs` | columns, functions, capacities, values |
| `DigestIsThatOfDump == Spec => []DigestAsDumped` | `ReceiverProofs` | numbers of columns, lengths of values, sizes of blocks and words, changes of the list |
| `TypeCorrect == Spec => []TypeOK` | `FilterSyncProofs` | columns, finite sets of functions, changes, faults |
| `SteadyFiltered == Spec => []SteadyColumnsFiltered` | `FilterSyncProofs` | the same |
| `SteadyOnce == Spec => []SteadyAddedOnce` | `FilterSyncProofs` | the same |
| `CallsReturnReplies == Spec => []ReturnsReply` | `NodeClientProofs` | keys, digests, lengths of replies, cuts of the stream, losses, calls |
| `SegmentsAreItems == Spec => []SegmentItems` | `NodeClientProofs` | the same |

They use the named assumptions of the constants only: positive sizes, keys numbered in
comparator order (`KeyAssumption`), twins that are twins of each other in one segment
(`TwinAssumption`), `None` no digest (`ValueAssumption`, `DigestAssumption`), `T` one of the
tables (`TableAssumption`, `CompareAssumption`), `Zero`, which marks the absence of a tree in the
refinement mapping, no content of a store (`ZeroAssumption`), a digest of one row only
(`OwnerAssumption`, see NodeCmp above), sizes that are numbers (`EntryAssumption`; nothing
bounds the length of a key), a row key that names one row of its table (`RowKeyAssumption`), hashing
that leaves no row key as the text of another (`TextAssumption` of `SegmentRead`: text that has been
hashed is text only if it was left alone) and changes a key that it has put a zero byte into when it
hashes it again (`AgainAssumption`), a start for every key (`StartAssumption`), finitely many functions (`SyncAssumption`),
finitely many keys in a segment, keys and digests that are not empty and contain no line end, and no
digest that reads ack or nack (`ClientAssumption`; a digest is printed as 40 hexadecimal digits), a
length field shorter than a block and a word of whole blocks (`BlockAssumption`), finitely many
columns (`ReceiverAssumption`), and values of less than 2^29 bytes (`TextAssumption` of `Receiver`: of a longer
one `sha1.c:206` compares the reduced count with the unreduced length, and may carry once too often).
Three theorems of `RebuildProofs` have a hypothesis more: that the table (or the others) has no two
keys that the comparator finds equal. With such keys the statements are false, since each of
the two rows supersedes the other in the store while MySQL has both.

**The scan of an update.** `ScanExact` is not inductive. The invariant `IInv` adds that an update starts from fresh
locals (`IdleLocals`) and that `curr_seg_idx` is 0 or the segment of a visited row
(`SegReached`). Without the second, the branch of `hashtree.cpp:284` that is *not* taken
says only that the row's segment is not larger; with it and the order of the keys, the
segments are equal and the row belongs into the current leaf. The steps:

* `ListsMore`: appending the value of a key larger than all listed ones keeps a list exact;
* `RowsAhead`, `NoRowAhead`: the iterator skips no row of the table; the second needs that a
  nonempty set of keys has a least one (`LeastElement`, from the library's `WFMin`);
* `ClosedSeals`: sealing up to `end` is right when no row ahead lies before `end`;
* `ScanRowExact`, `NextIInv`: one step per action.

`IInv` was model-checked on the instance of the run `hashtree` before it was proved, and so were
the invariants below on those of their runs.

**The tree of an update.** `ParentsHashChildren` and the refinement speak of the nodes as the
store holds them, where a node whose name another name extends is superseded. `Written` follows
the puts: a node written so far is there unless a later one has taken its place (`Late`); since
the greater index is written later (`LongerIsLater`), a put can only supersede what comes
before it (`PutWritten`). After the last put all nodes are those of `TreeView!Tree`
(`RootCompletes`): `ScanExact` says that a leaf's digest lists the snapshot's rows in ascending
order, and there is one such list (`ListsRanked` in `KeyspaceProofs`, from the rank of a key
among others). `StepView` maps every step: the puts tear the tree, the last one publishes it or
gives it up, a crash gives it up, and everything else is a change of rows or a stutter.

**Segment reads.** Two facts hold of every content of the store, reachable or not: they
rest on the order of the keys alone. A key at or after the start of a segment and not behind
a key of the table is itself a key of the table (`BetweenInTable`); so the loop stays in the
segment up to its last row, and a later row of the table stops it before the next table.

`BlockFits` needs that what has been written lies inside the block (`Locals`): then one doubling
makes room for every entry that is not longer than the block, and an entry that gets out of it is.
An entry's size is that of its text as hashing leaves it, which is as long as the row key
(`LeftLength`). `PassedBackGone` speaks of the last phase only; `Doomed` carries it through the others:
a doomed row is still ahead of the iterator, or its text is in the block. The start rests on
`ReadComplete`, the end on row keys naming one row of a table and, for the rows that stay, on no row
key being what hashing leaves of another.
`StoreKept` composes: all the reader does to the store is what messages do.

**Rebuild.** The invariant follows one row that shares its place with no other and whose key hashing
leaves alone (`Alone`): the keys that the copy passes back name it just when they are read from it
(`AloneNamed`), so what is inserted for rows with changed keys, in whatever segment, does not touch
it. Before
its segment is copied (`Fresh`), what the dump selected for it is what the last message older
than the dump says, if one is under way, and is still MySQL's value if no newer one is. While
its segment is copied (`InSegment`), the store has the value already or a message that will put it
there is under way. From then on (`Copied`), and for other tables all the time (`Others`), the row
is `Settled`: right once no message for it is under way, since the last one sent is MySQL's value
(`SentLast`). `TmpRows` and `Todo` say what the temporary tree and the loops hold. The copy of
a segment rests on `ReadComplete`, for the store and for the temporary tree. `ChangedRowsLeft` needs no
invariant but the types: a key that the copy passes back names the row it was read from, if hashing leaves that row's key
alone, or one of `Copies` (`NamedIs`).

**Comparison.** `DiffComplete` follows a row still to be printed (`Owed`): it has differed since
`diff` began. Whatever moments the two trees were computed at, the row has its value in them
(`Synced`), so the digests of its leaf, its inner node and the root differ (`DigestsDiffer`, from
the ranks of keys, `OwnerAssumption` and SHA-1 without collisions). Between the two halves of a
comparison other clients may still update node 2's tree: `Telling` therefore says that *no*
content with node 2's value of the row has the digest that node 1 has answered. So the loops
have still to come to the row's segment (`Path`), and when it is read the row is printed. In a
segment in which nothing differs the digests are equal by the same token (`Silent`,
`LeavesAgree`), which is why `diff` does not descend into it. (At the levels above it may: a
sibling can differ.)

**The filter list.** `Room` (a positive capacity, an array within it, the argument of the running
add or remove) makes `ListSound` inductive. For `ArrayIsBag`, the abstract count of a column's
function is the number of array places that hold it. `AppendBag`, `SortBag` and `ClearBag` give
that number after an append, a permutation and a store in place; every other step leaves all
places alone.

**A row's digest.** A context *says* what has been fed to it: `Fed(T)` has the whole blocks of `T`
mixed in, counts its bits and holds the bytes behind the last whole block. `UpdateFed` compares
the two sides part by part: what completes the buffer lies across the seam of `T` and the data
(`PartSeam`), the direct blocks and the rest lie behind it (`PartBack`), and the blocks mixed in
before stay (`MixedSame`); `CountIs` is the carry. `Final`'s loop (`PaddedFed`) has a closed form,
`Fed` of the message, a one and as many zeros as there have been rounds, at most `z`; `NulsAre`
shows that `z` is the number that `Complete` chooses. A recursive function that has a solution is
that solution: two would differ first at some number behind one where they agree. The
invariant `Summed` then says of the handler that its context is `Fed` of the columns visited so
far, each normalised by a function the column had: `Found` says that a lookup's pointer stays good
between the search and the read unless an add comes between, `HadNow` that what it reads is
remembered, and `Mutex` that a search sees a sorted array. With no column left that text is the
one `RecordDigest` joins (`DigestOfColumns`).

**Filter synchronisation.** `SteadyColumnsFiltered` follows from seven named parts.
`Recorded` says what `_data` may be relied on for: a column it knows has an entry. It may
*forget* a column, since `filterlist.py:55` deletes the wrong key; then `Unmixed` says that the
add that follows adds the function the column has anyway, and `Filtered` that a row once
processed has left an entry. `Once` is the part that holds only until the first remove.

**A call of NodeClient.** The invariant counts: the call has taken `i` lines of the reply and
collected just what those say (`Held`); the buffer, then the wire, hold what comes next in the
reply, its end possibly lost (`At`). At the top of the loop the buffer may still start with the end
of the line before (`EndKept`); its first byte tells, since no line is empty. `LineRead`: what
`Line` yields is line `i + 1`. No line but the last is ack or nack (`AnswersGood`), so a call that
sees one has taken all of them, and nothing is left for the next (`AllRead`). A reply's bytes
are its lines concatenated (`FlattenSeq`, a recursive function); what is needed of it, that it is
a chain of partial concatenations, follows without induction: the least length at which two such
chains differ would be the successor of one at which they do not.

Only model-checked: the liveness properties `UpdateReturns`, `RebuildEnds`, `MessageHandled` and
`CallReturns`, since ENABLED is out of the prover's reach, and the properties of the findings. Every
invariant and every refinement of the passing runs is proved.

## 5. Findings

Each is a run that TLC must find violated; `PROJECT.json` quotes the contradicted line.

1. `hashtree.cpp:365`: a segment read runs into the next table.
2. `hashtree.cpp:53` with `:210`: node 10 of a level supersedes node 1, and reading node 1
   returns another node's digest.
3. `filtermsg.cpp:109`: the function is read after the unlock.
4. `aae/filterlist.py:42`: a change of type leaves the old function in the list.
5. `aae/filterlist.py:55`: `tmp_key` is not the dropped column. An exception on the second
   dropped column, or when no filterable column is left, ends the periodic update. (The same
   line deletes the wrong entry of `_data`: a column that is dropped and created again gets no
   filter. `filter_sync_retype.cfg` shows it with `Changes = {"drop"}`.)

## 6. Not modelled

* SHA-1's 80 rounds; collisions, except that `NodeCmp` names the one it assumes away.
* Text, beyond what `Sha1Stream`, `SegmentRead` and `NodeClient` need: row keys contain no line end
  (hashing may put one into a long key) and do not start with a space; table names are numbers. So the collision of *node* names of two
  tables (`t_2`'s level 1 and `t`'s level 2, `hashtree.cpp:210`) is listed as a hazard without a
  property; the collision within one table is finding 2.
* The values of a row are concatenated without separators before hashing
  (`inputmsg.cpp:58`), so different rows can have equal digests; both paths do the same, and no
  property compares two rows.
* Finalisation: for the store and the filter list, `hashtree_destroy` and `filter_list_destroy` run when
  the interpreter ends, while the receiver's thread may still be using them (`nodemon:35`); the order
  of that teardown is the interpreter's. The temporary tree of a rebuild is destroyed at the end of
  each `cmd_rebuild_tree`, through `py_hashtree_dealloc`, when nothing refers to it any more; only
  the reactor's thread has ever used it, so `Rebuild` leaves the step out.
* What a process does after it has written outside the block of a segment read: `ReadBeyond` is the
  last step of the reader in `SegmentRead`, and the other modules leave keys of that length out.
* An exception in the callback of the dump parser is left pending (`dmpfileparser.y:42`) and
  surfaces wherever the interpreter looks next. `Rebuild!Abort` covers its effect on the rows, not
  the place.
* The dump's tokens: which quotes and escapes the grammar strips. `Rebuild` models what the
  parser's caller sees, one callback per record and the silent stop.
* Memory that is leaked (the 20 MB of `lv1` and `lv2` on every update), type objects and reference
  counts of `pywrapper.cpp`, configuration and metadata queries, logging, the commands
  `list_filter` and `debug`, `tree_cmp` (the descent of `NodeCmp` over two local trees; nothing
  calls it), `readline.cpp` (not linked).

## 7. Plan

Done: every module of section 2, the runs of section 3 and the theorems of section 4; nothing of the
plan is left. What the model leaves out is listed in section 6.
