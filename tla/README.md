# dset: a TLA+ model

dset is a fork of ipset with one set type, `hash:domain`. A kernel part keeps
named sets of domain names, rules of iptables (`xt_dset`) and tc (`em_dset`)
match packets against them, and a user program with a library (`libdset`)
creates, changes, saves and restores the sets over netlink. This directory holds
TLA+ specifications of the parts that carry the logic, TLC configurations that
check them on small instances, and TLAPS proofs about the registry, the tables, the
session and the parser.
`PROJECT.json` has the index: components, runs, mutants, the map from each
definition to its source lines, hazards, findings and theorems.

## 1. Inventory

| part | state | operations | interacts with |
|---|---|---|---|
| set registry, `domain_set_core.c` | the array `domain_set_list` of a network namespace and its length `domain_set_max`, flags `is_destroyed`, `is_deleted`; per set `name`, `ref`, `ref_netlink` | create, destroy (one, all), rename, swap, flush, namespace start and exit | commands by name under the nfnl mutex, rules and packets by index |
| set types, `domain_set_core.c` | list of types, use count of the type's module | register, unregister, `load_settype` | create, which gives the mutex up while a module is loaded |
| rules and packets, `xt_dset.c`, `em_dset.c` | the index kept by a rule | check entry, destroy, match | `domain_set_nfnl_get_byindex`, `_put`, `domain_set_test` |
| dumps, `domain_set_core.c` | `cb->args`: kind, index, position in the set, table | start, callback, done | registry through `ref_netlink`, hash tables through `uref` |
| hash, `domain_set_hash_gen.h` | table of buckets (arrays with `used` bits, `pos`, `size`), `elements`, timer | add, del, test, flush, expire, gc, resize, head, list | `call_ad` retries an add after a resize; packets and listings in parallel |
| type hash:domain, `domain_set_hash_domain.c` | none of its own | `uadt` (commands), `kadt` (packets, suffix search) | hash |
| extensions, `domain_set.h` | timeout, counters, comment, skbinfo per element | init, update, match, free after a grace period | hash |
| restore mode and commands, `lib/dset.c` | `restore_line`, options, the parsed words | `dset_parse_stream`, `dset_parse_argv`, error exits | session |
| session, `lib/session.c` | message buffer, `saved_setname`, `cmd`, `envopts`, output buffer | build, aggregate, commit, callbacks for data, done and errors | netlink, cache, printing |
| cache and types, `lib/types.c` | list of known sets, checked types | add, del, rename, swap, type lookup | session |
| transport, `lib/mnl.c` | socket, sequence number | fill header, query | kernel |
| parsers, printing, tables, `lib/parse.c`, `print.c`, `data.c`, `errcode.c`, `args.c`, `list_sort.c` | the data blob of the current line | conversions, merge sort | session, commands |

What makes this system hard:

* Three kinds of locking meet in one set: the nfnl mutex for commands, the spin
  lock of the set for changes, RCU for packets and listings. The mutex is given
  up inside create; the spin lock is given up between the attempts of an add.
* A set is known under two identities. Commands use the name, rules the index.
  Swap exchanges places, names and references of two sets.
* A listing spans many callbacks, between which everything may change; it holds a
  set by one counter and the table of the set by another.
* Reuse of slots, holes, shrinking, growing and resizing move elements with
  extensions about, with allocations that may fail on each path.
* A packet walks a bucket without a lock while a writer reuses its slots, moves
  them to other arrays and publishes those.
* The restore mode buffers lines, so an error arrives many lines later; the socket
  may fail after the kernel has executed a request.
* All lines of a session share one data blob, and two ways of refusing a line leave
  it in different states.

What makes the parts correct: names and indices are unique, reference counts
count what they claim to count, nobody works on freed memory, the hash is a map
with timeouts whatever its layout does, listings are complete, restore files are
executed in order and errors name the right line, and every command and listing
comes to an end. Section 4 says which property states what.

## 2. Modules

| module | models | composed with |
|---|---|---|
| `DsetRegistry` | registry, rules, packets, dumps, module of the type | `MCRegistry` adds history variables; `DsetRegistryProofs` and `DsetHolderProofs` have the theorems |
| `DsetSet` | abstract: what a set promises, a map from domains to timeouts with calls and answers | implemented by `DsetHash` |
| `DsetHash` | one hash with buckets, slots, holes, timeouts, counters, expire, gc, resize, suffix search | `INSTANCE DsetSet` with a refinement mapping; `MCHash` gives hash values; `DsetHashProofs` |
| `DsetTables` | life of the tables of a hash: `ref`, `uref`, RCU, kfree; comments | `MCTables` records one kind of overlap; `DsetTablesProofs` |
| `DsetLookup` | the lookup of a packet in one bucket, access by access, against the writers of the set; the name of a packet | stands alone; `MCLookup` has the domains and packets; `DsetLookupProofs` |
| `DsetListing` | a listing of all sets from the buckets to the printed sections; the merge sort of the output | `MCListing` compares the merge sort with the sorted list; `DsetListingProofs` |
| `DsetSession` | restore mode, buffering, commit, cache, error lines, a failing socket, and the kernel's side of a batch | `MCSession` has the lines of restore files; `DsetSessionProofs` |
| `DsetParse` | one line after another through `dset_parse_argv`, in the interactive mode and in a restore: data blob, report, core options, files | `MCParse` has the lines; `DsetParseProofs` |

### DsetRegistry

One action per handler or per section of a handler between two points where
others may run. `mutex` is the nfnl mutex: a command that has it excludes other
commands, and not packets, dump callbacks or the module loader. `CreateStart`,
`CreateRetry`, `CreateFail` and `CreateLink` are the four parts of
`domain_set_create`, of which the second is `load_settype` with the mutex given up.
`DestroyAll`, `DestroyAllNext` and `DestroyAllEnd` are the destruction of all
sets, with `is_destroyed` set meanwhile. A packet is `PacketEnter` (reads the
pointer) and `PacketLeave`. A dump is `DumpStart`, `DumpCall`, `DumpScan`, `DumpMore`,
`DumpNextSet`, `DumpError`, `DumpLast` and `DumpDone`. `Ids` has the width of
`domain_set_id_t`, and the growth of the list wraps in that width (`Grown`).
kfree returns an address at once, so that a stale pointer shows as a user of an
object in state "free". Commands that fail change nothing and are not actions.

### DsetSet and DsetHash

Each action of `DsetHash` is one section under `set->lock`, or one lookup. `Add`
follows the branches of `mtype_add`, including the expiry of a full set, the reuse
of the first deleted or timed-out slot, forceadd, a larger array, and the demand
for a resize; `Resize` is one attempt of `mtype_resize`, after which the lock is
given up or the next size is tried (there is no memory for more than `MaxBits`, so that
too many colliding domains end in -ENOMEM: `MayRunOut`); `Del` and `Gc` shrink arrays. Used bits, `pos` and
`size` are kept apart, because the code keeps them apart. Time is abstract: a
timeout is "perm", "live" or "over" (`Lapse`). The refinement mapping takes the
used slots that are not over. The packet counter is the one extension with a
value of its own; `wild` records the write to slot -1.
A packet is tested with its last label first, then with one label more
(`Suffixes`, `hash_domain_kadt`); only the first match counts.

### DsetTables

A table is "unused", "live" or "freed". Each atomic operation of a listing and
of the start of a resize is a step. RCU is what it promises: `synchronize_rcu` and
`kfree_rcu` wait for the read sections that were open at their start. An element is
only its comment pointer, which a resize copies.

### DsetLookup

`DsetHash` takes a lookup as one step; here it is one step per memory access:
`ReadBucket`, `TestUsed`, `CompareHalf` (a name is compared in two halves, because
`strcmp` is not atomic) and `MatchExtensions`. The writer, which has `set->lock`, is
broken up where a lookup can see it: `CopyHalf` (in any order), `SetTimeout`,
`SetUsed`, the cleared bit of `Del` and of each slot of `ExpireSlot`, and the moment an
array is published. RCU is the variable `old`: a replaced array stays with the
lookup that holds it. `Arrive` puts the labels of the packet together under the
length limit of `hash_domain_kadt` and records which indexes of the buffer are
written. A packet has the byte in front of each label; `LabelLength` is its conversion to
the `int` `label_length` through a `char`, whose sign depends on the machine and the
flags of the compiler (the constant `SignedChar`). A negative length passes the
check (`TooLong`) and is a huge count for `strncpy` (`Overrun`): `Written` then has the rest
of the buffer and the index `MaxLen`, which stands for everything behind it. What such a
write does to other memory is undefined; the model ends the lookup there. `member`, `due`, `sometime` and `raced` are history: until when the tested domain
is in the set, whether it was at some time, and whether the slot under examination
was rewritten. The module has one bucket; other buckets show only in that a resize
may begin at any time. Memory accesses are in program order. `mtype_del` compares the
holes with `AHASH_INIT_SIZE` and not with the size of the array, so it can leave an array
of size 0 when that constant is above one (gc makes the last slot a hole, then the
others are deleted); `Sizes` has it, and everything proved holds for it.

### DsetListing

`mtype_list` fills a message bucket by bucket and slot by slot under RCU alone. Each
read is a step: the array of the bucket (`ReadBucket`), the used bit of a slot (`TestSlot`), and the
copy of the element (`CopySlot`). Between them the writers work, and on the bucket that is
being read they are modelled slot by slot too: `mtype_add` takes the first hole or the slot
behind the last, or publishes a larger array (`Add`); `mtype_del` clears the bit in place, moves
`pos` back, gives an empty array up or publishes a shorter one (`Del`); `mtype_flush` gives up
one bucket after the other. An array that was replaced stays with the lister as it was
(`bucket.current`), and after a `Resize` so does the table. The copy is not atomic: if the slot is
written between the test of its bit and the end of the copy, `CopySlot` may
print `Garbled`, which is no element whatever its text happens to be.
When a bucket is read, its array has the elements of the bucket in any order with up to
`MaxHoles` holes, because nothing before depended on where they are. Elements are kept only of
the set that is being listed and are chosen when its listing begins; before that and after it
nothing reads them. For the same reason a swap of two sets that are not being listed is not a step:
it leaves the names with the indices and exchanges contents that are chosen later. `MaxElems`
bounds how many elements a set has; it is not `maxelem`, which the reuse of a slot does not
respect. Sets have no timeouts here (an expired element is a hole for `mtype_list`) and no
forceadd.

A message ends before a bucket that does not fit (`MsgFull`; `Trim` takes back what it
has of the bucket) or with the set (`SetListed`), and is handed to `callback_list`
(`CallbackHeader`, `CallbackMore`, `CallbackBroken`). The message with the header of a set
has less room (`HeadMax`) than the ones that follow (`MsgMax`). A bucket that does not fit into an
otherwise empty message (`MsgTooSmall`) ends the dump with an error code, which
`callback_done` does not look at. The other programs also create, destroy and rename the sets
the listing does not hold. `present` is a history variable: for each set the listing
met, the elements that were in it all the time and at some time. The output is a
sequence of sections with their elements and whether they are closed; wording and
layout are left out. `ListSort` is the merge sort of `list_sort.c` over the places of
`part[]`. The steps print `Ascending`, because checking liveness evaluates
every step many times; `Ascending` is the rearrangement of the list that is in
order. That both are the same is the assumption `ListSortSorts` of `MCListing`,
which TLC evaluates on all lists of up to five elements.

### DsetSession

The file is read line by line; `pc` says how far the current line has come (type
lookup, flush of the buffer, build, send). `CommitBatch(k)` is a batch of which
the kernel serves k elements. `Serve` is what a command does in the kernel,
`CacheAfter` what its ACK does to the cache. Any command can be refused. `CommitLost`
and `SendLost` are a `dset_mnl_query` that fails: the kernel has executed none, some or
all of the request and the program ends with "Internal protocol error". Once in a
behaviour another program destroys or empties a set.

### DsetParse

`DsetSession` takes the parsed words of a line for granted; `DsetParse` is about what
one line leaves to the next. `data` has for each option of the blob the number of the
line that set it, or `Garbled` when the other member of the union was written
(`dset_data_set` for `setname2` and the options of create). `Refuse` is `dset_err`, which
empties the blob; `CustomError` is `custom_error`, which in the interactive mode
prints and goes on. The steps `Read`, `OpenFile`, `Args`, `TypeGet`, `CallParser` and `Run`
follow `dset_parse_argv`. A word that is wrong is a `flaw` of the line. The kernel may
accept or refuse any request. `filename` and `input` model what `list` and `save`
do to the streams of the session.

## 3. Plan

Done so far: the modules above; the proofs of section 5, which cover all safety
properties of all modules. The order was registry, hash with its abstract map, tables,
session, listing, then lookup, parsing, too large buckets, the merge sort and the
socket; then the proofs in the order of section 5.

Next, in this order:

1. The counter conditions of a rule in `domain_set_match_extensions`.

## 4. Runs

All passing runs explore their whole state space. States are distinct states.

| run | bounds | states | checks |
|---|---|---|---|
| `registry` | 3 sets, 3 names, 2 rules, 1 packet, 1 dump, 2 threads, 4 indices, list grows from 1 by 1 | 117 thousand (symmetry) | `TypeOK`, `NamesUnique`, `RefsCountRules`, `ModulePinned`, `CommandSetAlive`, `FreedOnlyAfterSwap`, `NetlinkRefsCountDumps`, `DumpedSetStays`, `IndexKeepsName`, `DumpAllComplete` |
| `tables` | 3 tables, 1 packet, 2 listings, 1 comment | 57 thousand (symmetry) | `TypeOK`, `AliveWithoutOverlap`, `OldTablesFreed`, `CurrentCommentsAlive` |
| `hash_resize` | 4 domains, three of which collide until the table has doubled twice, arrays of 2, up to 4 buckets, `maxelem` 3, timeouts | 43 thousand | `StoredOnce`, `ImplementsSet`, `AddsAnswered` |
| `hash_expire` | 3 domains, arrays of 1 to 2, up to 2 buckets, timeouts, counters up to 1, every allocation may fail | 27 thousand (symmetry) | `TypeOK`, `ElementsExact`, `ImplementsSet`, `CountersKept` |
| `session` | 2 sets, 2 elements, files of 4 lines out of 19, 2 elements per message, a failing socket | 1.5 million | `TypeOK`, `LinesInOrder`, `RefusedLineReported`, `CacheTrue`, `LostLinesAreOneBatch` |
| `listing` | 2 indices, 2 names, 2 elements in the first set and none in the second, tables of 1 to 4 buckets, arrays with up to 1 hole, 1 element in a message with header and 2 in any other, plain or sorted | 0.5 million | `TypeOK`, `ListingExact`, `OutputWellFormed`, `BrokenOnlyByRename`, `ListingEnds` |
| `lookup` | 3 domains of two halves, 5 packets, a signed char, arrays of 1 to 2 slots, timeouts of 0 and 1, 3 clock values, 2 operations begun during one test | 3.8 million | `TypeOK`, `NameInBuffer`, `NoFalseMiss`, `FalseMatchOnlyByReuse` |
| `interactive` | 3 lines out of 24, interactive or restore, with and without `-file` | 0.7 million | `TypeOK`, `OwnWords`, `NothingGarbledSent`, `FaultlessLineParsed`, `RestoreCutShort` |

Why the bounds are enough: two threads are needed for a create that lost the
mutex to another command, and three sets with four indices let the list grow until
the width of the index stops it. One dump cannot tell the counter
`ref_netlink` from a flag, and two of them do not fit into a run with three sets; the
same configuration with two sets, one rule and two dumps passes as well (347
thousand states). Three tables allow two resizes, so that a listing can be two tables behind.
Arrays of one to two slots have all the cases of the code (a first bucket, a
larger array, the maximal size, a hole at the end and one inside), and in
`hash_resize` a third domain in a full bucket makes one add double the table twice, and
arrays of 2 keep a hole that lets the set grow beyond `maxelem` without a failing
allocation. A file of four lines has a buffer
that becomes full, a line for another set after it, and a line after that. A
bucket with two elements does not fit into the first message of a set and is listed as a whole
by the next one, unless it is the first bucket; two elements and a hole let an element leave
one slot and come back in another while the lister is in between, and tables that double twice
let a resize happen before, in and after the listing of a set. The second set
has no elements because it is there for the second header and section; what is
listed of a set depends on that set alone. In `lookup` one domain
consists of halves of the two others, so that a half-written name can look like
it, and two operations during one test give a slot up and reuse it; the same
configuration with arrays of 2 slots from the start, where one of size 0 comes up,
passes as well (3.4 million states). Three lines are a line that is
refused, one that inherits from it, and one that inherits from both.

Symmetry is used for interchangeable model values in runs that check invariants
and action properties only. `session`, `listing` and `interactive` do not check for
deadlock: the program ends there. The other runs do.

Four runs show that a statement in the repository is not what the code does:

| run | statement | what happens |
|---|---|---|
| `swap_then_destroy` | "must be referenced so it can't be destroyed (or changed) under our foot", `domain_set_core.c:647` | a packet has read its set; a swap moves the set to an index without rules, with the count of that index; destroy frees it at once. `FreedOnlyAfterSwap` shows that a swap is the only way |
| `tables_overlap` | "There can't be another parallel resizing, but dumping is possible", `domain_set_hash_gen.h:474` | a listing that ends between the `ref` and the `uref` of a starting resize destroys the table in use. `AliveWithoutOverlap` shows that this is the only way |
| `hash_forceadd` | "may succeed and evict a random entry", `dset.8:308` | a full set with a bucket without a reusable slot: the index is still -1 when the slot is written |
| `hash_counters` | "counters are initialized to zero when the elements are (re-)added", `dset.8:257` | a reused slot keeps the counter of the element before |

### Fairness

`hash_resize` assumes weak fairness of the command in progress: `call_ad` is a loop
in the kernel that goes on unless it waits for `set->lock`, which is held for
short sections only. Nothing is assumed of the garbage collector, the clock or new
commands. `listing` assumes weak fairness of the listing: the kernel fills the
next message when the program has read the last one, and the program reads until
the end (`dset_mnl_query`). Nothing is assumed of the other programs, which may go
on for ever.

## 5. Proofs

The theorems hold for every value of the constants that satisfies the assumptions:
any number of sets, rules, packets, dumps, threads and tables, restore files of any
length and of any lines, buffers of any size. Each property a theorem
states is also checked by a run. The modules of the theorems extend those of the runs, so the
theorems are about the very specifications TLC checks.

`DsetRegistryProofs`:

* `TypeCorrect`: `Spec => []TypeOK`. In particular `domain_set_max` stays below the
  invalid index although the new length is computed modulo the width. `TypeOK` is
  not inductive: a dump adds one to its index, so `TypeInv` adds that a dump which
  is listing has not reached its limit.
* `NamesStayUnique`: `Spec => []NamesUnique`, from the invariant `LinkInv`. Uniqueness
  needs to know that the thread in the middle of a command is the one that has the
  mutex (`MutexInv`), and that the set a thread is creating or freeing is its own,
  is in the state that belongs to the step, and is not in the list (`CmdInv`).
* `CommandsWorkOnLiveSets`: `Spec => []CommandSetAlive`, from `LinkInv`.
* `RefsAlwaysCountRules`: `Spec => []RefsCountRules`, from `RefInv`, which adds that a
  set outside the list has no references and that rules lie inside the list. Swap is
  the interesting case: it exchanges two sets and two counts, and the count of
  every index stays.

`DsetHolderProofs`, about those who hold a set:

* `ModuleStaysPinned`: `Spec => []ModulePinned`, by counting the sets that have their
  type through every way a create or a destroy can end.
* `RulesKeepTheirNames`: `Spec => IndexKeepsName`, an action property; it rests on
  `RefInv`, because rename looks at the count of references only.
* `DumpRefsAlwaysCounted`, `DumpsKeepTheirSets`: `Spec => []NetlinkRefsCountDumps` and
  `[]DumpedSetStays`, from `DumpInv`: what each part of a dump knows about its index and
  limit (`DumpLocal`), and that no dump keeps a set while all are being destroyed
  (`DestroyedInv`), which is why a dump that finds `is_destroyed` may stop without
  giving anything back.
* `PacketsProtectedButForSwap`: `MCSpec => []FreedOnlyAfterSwap`, from `PacketInv`: a
  packet is in a rule, and the set it read is at the index of the rule unless the
  history says that swap moved it.
* `DumpsReportAllOnce`: `MCSpec => DumpAllComplete`, an action property, from `ReportInv`:
  names that stay in the list have been reported once if their index is behind the
  dump and not at all otherwise, wherever swaps and renames put them.

`DsetTablesProofs`, with the inductive invariant `TablesInv`:

* `TablesTypeCorrect`, `NoTableLeaks`: `uref` of a table counts the listings and the
  resize that have it (`UrefInv`), and a replaced table is live exactly as long as
  somebody has it (`OldInv`).
* `MessagesReadLiveComments`: from `CommentInv`, with the grace period of a comment.
* `TablesAliveButForOverlap`: `MCSpec => []AliveWithoutOverlap`; without the overlap
  everybody who has a table is counted or is waited for (`LiveInv`, `GraceInv`), and a
  listing that has read `ref` and not yet dropped `uref` is one of them (`CheckInv`).

`DsetHashProofs`, with the inductive invariant `HashInv`. It looks at a table as the set of
its used slots (`Everything`): the lemmas about one bucket say how this set changes
when an array is made larger, shorter, cleared or written, those about a table what a
resize, `mtype_expire` and a flush make of it, and the steps are proved from them.

* `HashTypeCorrect`: `Spec => []TypeOK`. Sizes of arrays stay multiples of
  `AHASH_INIT_SIZE` up to the maximum, and used bits below `pos`.
* `ElementsStayExact`, `StoredOnceAlways`: `Spec => []ElementsExact` and `[]StoredOnce`.
  In a good table (`GoodTable`) each used slot holds a domain that hashes to its bucket
  and that no other used slot of the bucket holds; so domains and used slots correspond
  (`PlacesOnce`), and `elements` is the number of either (`PlacesCount`). `HashInv`
  excludes elements with a timeout in sets without timeouts, because
  `mtype_expire` does not run there.
* `HashImplementsSet`: `Spec => ImplementsSet`, the refinement. Every initial state maps to
  one of `DsetSet`; every step maps to one of its steps or to none (`RefinesNext`, one
  lemma per action). A resize, a shorter array and gc map to nothing.
* `HashCountersKept`: `Spec => CountersKept`, an action property.

`DsetLookupProofs`, with the inductive invariant `LookupInv`. Its parts are predicates of
the values they speak of, so that one lemma serves before and after a step: the array
agrees with the history (`Agree`: a slot nobody is writing holds a domain of its own
with the deadline of the history, and what is in the set is found as long as it
should be), what a writer in the middle of its operation knows about its slot
(`WriterAt`), and three of the lookup (`LookAt`, `Justified`, `Ahead`). A step of a
writer either edits the array in place or replaces it (`InPlace`, `Replaced`); `LookKept`
says once that both leave the lookup as it was, and each writer is proved to be one of them.

* `LookupTypeCorrect`: `Spec => []TypeOK`.
* `LookupNoFalseMiss`: `Spec => NoFalseMiss`, from `Ahead`: the tested domain, if it has been
  in the set all the time, is in a slot of the array the lookup holds which the lookup
  has not passed, with a timeout no earlier than the earliest deadline so far. A
  published array has the slots of the old one in other places (`Moved`), which is why the
  lookup must keep the old one.
* `LookupNoFalseMatch`: `Spec => FalseMatchOnlyByReuse`, from `Justified`: the halves that
  compared equal are still there unless the slot was written, and a slot in use with
  the tested domain whose time is not over shows that it was in the set or being added.
* `LookupNameInBuffer`: `Spec => []NameInBuffer`, for labels with any byte in front of
  them and for both signs of `char`: only a packet without a label and, where `char` is
  signed, one with a byte above 127 gets outside of the buffer (`LengthsAre`, `WrittenIs`). `Total`
  counts characters as pairs of a label and a place in it, so the sum over the labels
  needs no induction but that a set of numbers has a least member (`LettersMore`).

`DsetListingProofs`, with the inductive invariant `ListingInv`, whose parts are again
predicates of the values they speak of. While the listing runs (`RunInv`):
the kernel holds a set exactly while it is within it, and the table it holds has all
that is always in the set and nothing that never was (`DumpInv`); the program has a
section for every set met, but for one whose header is on its way (`NameInv`); every
section but the last is closed, and elements are either printed or kept to be sorted
(`OutInv`); the sets before the last one are listed completely (`BehindInv`). The heart is in
three parts. `Progress`: what the program has of the last set, followed by what is in the
message, has each element that is always in the set at most once, and has it exactly if its
bucket is behind the lister. `ArrayInv`: the array being read has no element in two slots,
only elements of its bucket that were in the set at some time, and all those that are
always in it; as long as it is in the table, it has exactly the elements of the bucket.
`SlotInv`: an element that is always in the set does not leave its slot, whatever is added and
deleted around it, so it is in the message exactly if its slot is behind the lister, and when
the lister stands on its slot it is what was found there. Of elements that come and go nothing of
the kind holds: one that is deleted and added again may be printed twice. A
resize and a new array keep all three because the lister keeps the old ones.

* `ListingTypeCorrect`: `Spec => []TypeOK`; in particular no message is longer than its page.
* `ListingIsExact`: `Spec => []ListingExact`. At the end of the dump `Progress` holds
  for the last set without a bucket to come; sorting keeps what is there (`Ascending` of
  a list is a rearrangement of it, `AscendingFacts`, which also proves that there is one).
* `ListingWellFormed`: `Spec => []OutputWellFormed`, from `OutInv`.
* `ListingBrokenOnlyByRename`: `Spec => []BrokenOnlyByRename`. A header is on its way
  exactly when the program lacks a section (`NameInv`), so the message contradicts
  `saved_setname` only if the new set has the name of the one before it.

`DsetParseProofs`, with `ParseInv`. Each step of `dset_parse_argv` ends in one of a few
outcomes (the line goes on, is refused, is shrugged off, is sent), and each part of the
invariant is proved per outcome:

* `ParseTypeCorrect`, `RequestsCarryOwnWords`, `NoGarbledRequest`, `FaultlessLinesPass`,
  `RestoreEndsForAReason`. The heart is `BlobInv`: whatever is in the blob was written
  by the current line or by one of the lines that `custom_error` refused directly before
  it, and `UnionInv`, which says when the two members of the union can meet.

`DsetSessionProofs`:

* `SessionTypeCorrect`: `Spec => []TypeOK`, from `SessionInv`: a line joins the buffer
  only if `may_aggregate_ad` held (`LineInv`), and what is buffered are adds or dels of
  the set that `saved_setname` names (`MsgInv`). No message outgrows the buffer.
* `RestoreKeepsTheOrder`, `RefusalsNameTheLine`, `AtMostOneBatchIsLost`:
  `Spec => []LinesInOrder`, `[]RefusedLineReported`, `[]LostLinesAreOneBatch`. `RunInv`
  says that what was executed followed by what is buffered is what the lines up to the
  current one ask for, in order; a prefix of such a sequence is what the lines before
  some line ask for (`OrderedPrefix`), and that line is the one whose number `call_ad`
  sends back. `EndInv` records this at the end of the program. The properties speak
  of line numbers and not of a filtered sequence, which would need induction.
* `CacheStaysTrue`: `Spec => []CacheTrue`, from `CacheInv`: without `-exist` every create
  is exclusive, so a new name is not in the cache yet, and a renamed one is not there
  under its new name.

Assumptions: `RegistryAssumption` (at least one index at the start, an increment below
the width, finite sets, distinct "none" values), `TablesAssumption` (finitely many
listings), `ParseAssumption`, `HashAssumption` (the sizes of arrays are multiples of the
first one; finitely many domains; and that powers of two are positive, arithmetic the
provers do not know), `LookupAssumption` (a domain is the pair of its halves, the byte in front
of a label is not zero, which ends the name, and the maximal size is a multiple of the first
one), `ListingAssumption` (elements are finitely many numbers, a message without header has room
for one, the same arithmetic of
powers of two, and the values that stand for NULL are no set and no message), and
`SessionAssumption` (a line with a command has the arguments that `dset_parse_argv`
demands of it, others are lines of kind "bad"; an absent set is not a set of elements).
TLC evaluates them in every run.

Only model-checked are: liveness (`AddsAnswered`, `ListingEnds`), because fairness and
ENABLED are beyond the prover; what recursive definitions compute for every input
(`Suffixes`, and that `ListSort` is `Ascending`), because induction over data is; and
the four properties that the code violates, which the runs of section 4 refute.

## 6. Not modelled

Which characters make a number or a name, the wording and layout of the output,
attribute policies, tables of messages, the socket option interface, help and version,
the `full` variant of input and output (no program of the repository uses it), the
build and the shell tests (most of them are about set types of ipset that are not
here). skbinfo and the byte counter behave like what is modelled and are left out.
`ext_size` is reported only. Counts lost while a resize copies a slot, and the
replacement of the list of sets under a dump that gives its reference back, are not
steps of their own.

Observations made on the way which no run states:

* Slot reuse comes before the check of `maxelem` (`domain_set_hash_gen.h:626`), so a set
  can hold more than `maxelem` elements, although `dset.8:302` calls it the maximal number;
  `DsetSet` allows it, and `hash_resize` has such states.
* `ext_size` drifts: a bucket that was enlarged several times is counted with several
  headers and freed with one (`domain_set_hash_gen.h:640`), and a resize sets it without
  the comments whose removal is subtracted later.
* While a set is resized, a listing of the old table reads comment pointers which
  the new table owns and frees (`domain_set_hash_gen.h:525`); `CurrentCommentsAlive` is
  about the current table for this reason.
* A packet whose lookup has found a slot in use can match a domain that is not in the
  set, when an add gives that slot to another domain meanwhile
  (`FalseMatchOnlyByReuse` shows that this is the only way). A lookup that holds a
  replaced array can miss a domain whose timeout was renewed in the new one;
  `NoFalseMiss` therefore counts the earliest deadline.
* A packet without any label writes the end of the name to index -1
  (`domain_set_hash_domain.c:91`, allowed by `NameInBuffer`).
* Where `char` is signed, a length byte above 127 is a negative length: the check at
  `domain_set_hash_domain.c:81` lets it pass, and the count of the `strncpy` at line 85 is far
  larger than the buffer. `NameInBuffer` names this case as one of the two exceptions, and
  does not hold without it.
* A listing that crosses changes of its set is no snapshot: an element that is deleted and
  added again may be printed twice, and one that is overwritten in the middle of its copy may be
  printed as a mixture of two (`ListingExact` says that this never happens to elements that stay,
  and not in a set that does not change).
* `-exist` on a line in the middle of a batch comes too late for the batch, whose
  header is built, and stays in force for the rest of the file.
* `create -exist` can enter a name twice into the cache (`types.c:70`).
* A parse error or an unknown set drops the buffered lines before it; `quit` in a
  restore file drops them with status 0 (`LostLinesAreOneBatch` bounds the loss).
* A `test` line that finds its element, or a `create` with an ignored option, ends a
  restore with status 0 and the rest of the file is not read
  (`RestoreCutShort`; `dset.8:339` has 0 for correct functioning).
* `list`, `save` and `-` are accepted in a restore file although the manual excludes
  list and the interactive mode (`dset.8:145`). With `restore -file` a `list` or
  `save` line closes the file that is being read and opens it for writing; the loop
  then reads from the closed stream.
* In the interactive mode a line refused by `custom_error` leaves its words in the
  blob: `destroy` without a name then destroys the set of that line instead of all, a timeout
  goes out with the next add or create, and a correct option is refused as
  "already specified" (`OwnWords` and `FaultlessLineParsed` bound this to the lines that
  follow directly).
* The name given to `-file` is freed with the words of its line and used on later
  lines; the output mode and the core options stay in force likewise.
* The error code of a dump in `NLMSG_DONE` is not looked at (`session.c:1349`): a
  listing cut short by a bucket larger than a message looks complete. `ListingExact`
  shows that only the last section can lack elements then.
* When a set is renamed or destroyed behind a listing and a set that is still to be
  listed takes its name, the listing is given up as "extra DATA received"
  (`BrokenOnlyByRename` shows that this is the only cause).
