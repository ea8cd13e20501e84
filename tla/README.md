# forensic-vfs: a TLA+ development

`forensic-vfs` is the read-only layer under a forensic toolkit: byte sources that
decode and window one another, openers that recognise what a source is, a
resolver that peels layer after layer until it finds a filesystem, and locators
that record the descent so that it can be repeated. This directory models the
part of it that decides something, checks the models with TLC and proves the
central properties with TLAPS. Line numbers refer to
`src/crates/resolver/src/lib.rs` (*resolver*) and `src/crates/core/src/`.

## The system

| component | state | operations | talks to |
|---|---|---|---|
| **layer resolver** (resolver lib.rs 36-505) | none between calls; during a call the recursion: source, locator, depth, position in six opener lists, the Maybe encryption schemes kept for last | `open`, `open_with_credentials`, `resolve_to_source`, `open_tree` | every opener (`probe`, `open`), `VolumeSystem::open_volume`, `EncryptionLayer::open`, `ImageSource::read_at`, `Locator::push` |
| **opener registry** (registry.rs 148-323) | six `Vec`s in registration order | `register_*` (builder), slice accessors | filled by the embedding tool, read by the resolver |
| **sniff window** (registry.rs 63-145, resolver 422-432) | head and tail buffers borrowed for one probe pass | `read_sniff_buffers`, `at`, `tail_at` | `read_at` of the source; every `probe` |
| **byte sources** (source.rs) | immutable stream; extents | `len`, `read_at`, `read_exact_at`, `extents`, `view` | each other, by wrapping |
| **workers on a shared pool** (adapters.rs 98-250) | a `SourceCursor` per worker, all over one pool | `Read::read` of each, retried or given up | the pool, beside threads that call `read_at` themselves |
| **cursor pool** (adapters.rs 176-250) | one mutex and one seek position per reader | `new`, `single`, `read_at` through `checkout` | any number of threads; the wrapped `Read + Seek` readers |
| **windows and cursors** (adapters.rs 14-174) | `SubRange`: base, len; `SourceCursor`: base, len, pos; `FileSource`: file, len cached at open | `new`, `read_at`, `read`, `seek` | the parent source or the file |
| **filesystem walk** (resolver 557-601) | work stack, visited set, output | `walk` | `FileSystem::root`, `read_dir`, `meta` |
| **snapshot epochs** (resolver 511-553) | none | `snapshot_view`, `epoch_from_create_time` | `Locator::push` |
| **locator** (locator.rs) | a base layer and the layers over it | `base`, `push`, accessors | resolver, codec |
| **locator codec** (uri.rs) | none | `to_uri`, `from_uri`, `Display` | locator |
| **encryption contract** (encryption.rs), **volume contract** (volume.rs), **archive contract** (archive.rs), **filesystem contract** (fs.rs) | the implementor's | traits that the readers implement | resolver |
| **field readers** (read.rs), **errors** (error.rs) | none | bounds-checked little and big endian reads; error construction | the readers |

A call of the resolver is sequential: it reads the sniff buffers of a source,
asks the openers of one list after the other, and calls itself on every stream an
opener hands back. Concurrency enters below it: a `DynSource` is an
`Arc<dyn ImageSource>` that any number of workers read at once, and the one source
that is not naturally positioned, `SeekPoolSource`, shares readers with a seek
position behind mutexes. Nothing is persisted and no messages are sent, so there
is no crash recovery and no network. What is hard here:

- evidence is untrusted data: containers may contain themselves, an opener may
  fail at any level, several openers may claim one source, a directory may contain
  itself;
- a locator built during a search with back-tracking has to replay to the source
  that was finally found;
- a failure deep below must come out as a failure, never as "not recognised", with
  the one deliberate exception of a wrong guess of a signature-less encryption
  scheme;
- threads interleave inside `checkout` and readers misbehave under a lock;
- offsets and lengths come from headers, so windows are cut at every boundary.

What makes each component correct:

- *resolver*: bounded recursion; exhaustive search in the documented order; `Ok(None)`
  only for a clean unknown; locators that replay; termination.
- *cursor pool*: it cannot be told from an atomic positioned read; a cursor has one
  user and always comes back; while none is poisoned, no more threads wait than the pool is short of
  when every thread counts, the idle ones too; reads return.
- *workers on a shared pool*: each gets the bytes of its own window, all of them and in order,
  whatever fails for the others; and comes to its end.
- *windows and cursors*: a read never leaves the window and agrees with the parent.
- *sniff window*: a probe sees the bytes that are really at the offset it asks for.
- *walk*: each node within the cap once, loops or not, or an error.
- *codec*: a locator survives encoding and decoding, and text that is no locator is
  refused.
- *epochs and field readers*: tags order like the times they are made from, and a field is the
  number that stands there or 0, never a number made of a part of a field.

## How the project is laid out

| module | what it is | code |
|---|---|---|
| `Openers` | the registry, what each opener answers about each source, locator layers | registry.rs, the opener traits, locator.rs |
| `Resolver` | the resolver as a stack of activation records, one action per step of the recursion, and its properties | resolver lib.rs 128-505 |
| `Resolution` | what the resolver promises, without a search | resolver lib.rs 236-505: the order of its loops, without the loops |
| `MCResolver` | small evidences; four configurations | |
| `ResolverProofs` | types, bomb guard and locators; exhaustiveness of the search | |
| `ResolutionProofs` | the resolver implements `Resolution`: the order of the search | |
| `ByteStream`, `ByteStreamProofs` | a stream whose byte at offset *n* is *n*, and the answers of a read; lemmas about runs of bytes | source.rs |
| `PositionedRead` | the contract of `read_at`: one atomic step per read | source.rs |
| `SeekPool`, `MCSeekPool`, `SeekPoolProofs` | the cursor pool under any number of threads, implementing `PositionedRead`; the proofs are those of `Workers` too | adapters.rs 176-250 |
| `Workers`, `MCWorkers` | the composition: cursors of several workers over one pool | adapters.rs 98-250 |
| `SourceStack`, `MCSourceStack`, `SourceStackProofs` | windows over a file, the `Read + Seek` view, `read_exact_at`, the sniff buffers | adapters.rs 14-174, source.rs, resolver 422-432, registry.rs 63-145 |
| `Walk`, `MCWalk` | the traversal of a mounted filesystem | resolver 557-601 |
| `WalkProofs` | types, paths, errors and filesystems of few directories; trees, and names that differ | |
| `LocatorUri`, `MCLocatorUri`, `LocatorUriProofs` | the text of a locator, its parser, and texts with slips in them | uri.rs |
| `FieldReaders` | the bounds-checked integer readers | read.rs |
| `Snapshots`, `MCSnapshots`, `SnapshotsProofs` | views of snapshots, their epoch tags and locators, over `LocatorUri` and `FieldReaders`; the proofs are those of the readers too | resolver 511-553 |

A definition whose name extends another's and whose comment calls it a *slip*
(`EnterSameDepth` next to `Enter`) is a plausible bug of that definition. Nothing uses
it. Put in the place of the other one it makes a property fail; that shows what the
property is worth.

### Resolver

`call` holds the arguments (entry point, root source, evidence), `stack` the activation
records and `ret` what the innermost record returns. Byte sources are immutable, so the
answers of all openers (probe verdict, whether `open` succeeds, the children handed
back, which children cannot be had) are fixed before the call: an evidence is a
function, and it may contain itself. A record carries the locals of
`open_with_credentials` or `resolve_to_source`: source, locator, depth,
`credential_attempt`, and a cursor (pass, opener, child) in place of the code's nested
`for` loops. `DepthCap` and `Sniff` are the head of the function; `Decline`, `Mount`,
`OpenLayer` are the body of a loop over openers; `Descend`, `ChildFails`, `LayerSpent`
that of a loop over children; `NextPass` and `Exhausted` the end of a loop; `Return`
gives a result to the caller, which goes on with the next child on `Ok(None)` and returns
everything else as it is. The three public entry points differ in the passes they go
through.

In the code a layer of a locator carries `scheme()`, `format()` or `kind()` of its opener, here the opener
itself: openers are taken to have tokens of their own. An archive layer carries only the member, so to replay one
means that some archive opener that claims the source hands back that member (`Reopens`); where two
archive openers claim one source, a locator does not say which of them it is about, in the code as in the model.
The `continue` at resolver 490-492, for a recorded index beyond the list, is unreachable and left out.

### Cursor pool

Each thread has a program counter in `read_at`; `lock`, `poisoned` and `pos` are the
mutexes and the seek positions. A `try_lock` of one cursor is one step, so other threads
move between two probes. A poisoned mutex takes two steps (`TryLock`, `Reject`): the
code holds the guard inside the `Err` until it drops it. A reader may deliver less
than it could, fail, or panic while it is seeked or read; a panic unwinds, drops the guard
and poisons the mutex. A pool without cursors is in the model too (`NoCursor`): its reads answer
no bytes.

### Workers

`Workers` extends `SeekPool`: `Read` of a worker is `Call` of the pool with the window's part of the
buffer, `Take` is the return of `Read::read`, with the position moved by what was delivered. `cur` is the
position of the cursor in its window, `copied` what its user has. After an error the user reads again from where
the cursor is or gives up (`fate`), a panic ends the thread. `ReadDirect` is a thread that uses
the pool without a cursor. A worker reads its window from front to back; seeks are in the source stack.

### Walk

`stack`, `visited` and `out` are the code's; `dir` and `at` are the directory
being listed and the position in its entry stream. The filesystem is data: listings that
fail, streams that yield an error, nodes without metadata, loops and second parents.

### Source stack

`Narrow` stacks a `SubRange`, `Open` makes a `SourceCursor`, `Read` and `Seek` are its two
traits, `ReadExactAt`, `SniffHead` and `SniffTail` are the other users. `Change` is another
program that writes or truncates the file; `faults` says whether it does, and whether
`pread` answers less than it could. u64 and i64 are cut to a few bits (`MaxU`, `MaxI`) so that the
ends of both ranges occur, with the code's saturation. `copied` is what the user of
the cursor has, `from` where it began: after a seek that is the place its caller
means (`Meant`, from what the caller has read so far and what it asked for), not the place
the cursor comes to, so a seek that lands elsewhere is a copy that is wrong.
`ReadAt` is the unix branch of `FileSource::read_at`; that of Windows (`seek_read`) and
the error of other platforms (adapters.rs 98-112) are left out.

### Locator codec

`ToUri` and `FromUri` are functions on sequences of characters, words and numerals;
`Slip` damages one place of a text and `Reopen` parses it and cites the result. A
vocabulary word (a format, a scheme, a tag) is one symbol, a number is one numeral with zeros and a `+` in front of
it or not, as `parse::<u64>` accepts them. There are 16 characters, and an escape is two digits of radix four,
where the code has 256 bytes and two hexadecimal digits; the `+` that `from_str_radix` takes for the first digit is kept.
Left out are upper case in escapes and `from_utf8` on the text of an escape. The token tables, the
hexadecimal digits of a guid (uri.rs 90-204) and `path_to_bytes` and `bytes_to_path` (71-88) are the identity: they are not checked, and the last two are lossy
off unix on names that are no UTF-8. Widths are kept:
`U16`, `U32`, `U64`, with the narrowing `as u16` and `as u32` of the code.

### Snapshots and field readers

A listing `views` is built up by `TakeView` (`snapshot_view` of one more snapshot), and `Cite` puts the locator of
one of them through the codec, where it is damaged and reopened like any other. A byte is a digit of `Radix`; an epoch tag has
`TagLen` of them, the last `TimeLen` of which are the time. `ReadField` is all six readers, by byte order and
width, with `checked_add` against `MaxOffset`, which only keeps the addition from
overflowing: a field past `MaxOffset` is past the data as well, and 0 either way.

## The runs

| run | result | what it shows |
|---|---|---|
| `resolver` | holds | The recursion is bounded (`DepthBounded`); every locator on the way and in the answer replays to its source (`RouteFaithful`); nothing that was passed over could have ended the search (`NothingPassedOver`); `Ok(None)` means that nothing within the cap was mountable, damaged, unreadable or locked (`NoneIsClean`); the answer is the lexicographically first site (`ResolvesFirst`, a refinement of `Resolution`); the call returns (`Termination`) |
| `archive_terminal` | violated | `InnermostSource`, see findings |
| `packaging_bomb` | violated | `BombIsNone`, see findings |
| `failed_attempt` | violated | `AttemptFallsThrough`, see findings |
| `workers` | holds | A cursor of the pool has one user and comes back on every path (`CursorsAccounted`); while none is poisoned the threads that wait are at most those the pool is short of (`FewWait`); the pool is an atomic positioned read (`ReadsAsPositioned`); reads in progress all return (`Drains`). A worker's copy has no byte of another offset, no gap and no repetition (`CopiesFaithful`), is all there is of its window when the cursor says it is at the end (`CopiesWhole`), and every worker comes to an end once the readers fail no more (`AllFinish`) |
| `poisoned_cursors` | violated | `BlocksOnlyWhenBusy`, see findings |
| `walk` | holds | Paths lead to their nodes; no entry is returned twice where names differ (`ListedOnce`); everything is returned if the directories are few (`Complete`) or form a tree (`TreeComplete`, up to the cap); `Ok` hides no error (`Loud`); the walk ends |
| `walk_two_parents` | violated | `EveryNodeWithinCap`, see findings |
| `source_stack` | holds | Windows nest, also at the end of u64; reads never leave a window and give the bytes of their offset; a copy through the cursor has no gap and no repetition in the face of short and failed reads, seeks and a changing file, and reaches the end over a calm one; `read_exact_at` gives all or an error; the head of the sniff window is what is in the source, and over a calm file so is the tail |
| `truncated_file` | violated | `TailTrue`, see findings |
| `locator_uri` | holds | Every locator, written, made for a snapshot or accepted from a damaged text, is read back unchanged (`RoundTrip`); its numbers fit their fields (`TypeOK`); the older form of a text means the same (`LegacyAlias`); epoch tags sort as the times do (`EpochsOrdered`) and give them back (`EpochReversible`); a reader pointed anywhere into a tag returns the field that stands there or 0 (`FieldsExact`) |
| `misread_number` | violated | `NumbersKept`, see findings |

### Bounds, and why they are enough

- `resolver`: three sources, eight openers (two encryption schemes and two archive
  openers, so that the order inside a list matters), `MaxDepth` 2. The deepest recursion is a root, two
  layers and the level past the cap: an off-by-one shows there as it would with 8. The root and
  one more source take every profile: each opener, `Yes` and `Maybe`, `open` failing, each
  child failing, empty archives, two openers on one source in every pairing of passes that the order
  decides. The third source is a terminal or a container of the first, which makes cycles
  through one, two and three sources. 22263 evidences, about 541 000 states. `failed_attempt` has one or two schemes that say Maybe and whose construction
  or decrypt fails, and nothing else that could fail.
- `workers`: two workers and a third thread, two cursors, so that a thread can miss a cursor freed behind
  it and two can race for one. The declared length is 3 and the readers have 2 bytes, so that a read
  is cut by the one, by the other, or begins past the end. One window runs past both ends and takes several reads, with
  a failure between them; the other overlaps it. Readers start at any position. Buffers of one byte: a longer one only
  makes a worker's reads fewer, and the third thread reads with longer ones. About 269 000 states.
  `poisoned_cursors` takes
  two threads and two cursors, the least in which one is free and another blocks.
- `walk`: three directories and a file, cap 1 (two levels of listing): every
  directory graph with listings of up to two entries, the root's own loops included, then the faulty ones: 9700
  filesystems. `walk_two_parents` needs a fifth node and cap 2.
- `source_stack`: 4-bit u64, 3-bit i64, files of 0 to 5 bytes, two windows,
  buffers of 1 and 4 bytes, bases and lengths 0, 1, 3 and the largest integer. Two windows are the
  least with a window inside a window; a third adds one more of the same clamp, and the proofs hold for any number.
  About 172 000 states.
- `locator_uri`: a root of every kind alone, and a root with one further layer of every kind over it;
  names that are empty or made of the separators and of `%`; numbers at 0 and at the ends of
  their widths; one slip of one character. A second layer is separated as the first is. Bytes of a tag are binary, its time has three of
  five, fields have one, two or three: offsets 0 to 7 put a field inside the tag, across its end, behind it and past `MaxOffset`, and two
  views (`MaxViews`) are what an order is about. `TimeLen` and `U64` agree. About 103 000 states.
  `CHECK_DEADLOCK FALSE` there because a refused text is the end of a session.

### Fairness

The resolver and the walk are sequential programs: weak fairness of their step says that the
program keeps running. In the pool each thread is fair on its own (`WF_vars(Proceed(t))`): the operating system
runs it when it can run. A thread blocked on a mutex can run only while the mutex is free,
and `std::sync::Mutex` promises no order, so a thread may be overtaken again and again; it is
therefore not claimed that each read returns, but that all reads in progress do once no new ones are
made (`Drains`). No fairness is assumed of callers that read the pool
directly. A worker that is reading its window is a program that keeps running, so `Read`, `ReadNothing` and `Take` are fair in `WFairSpec`, as
`Proceed` is; `AllFinish` asks that from some time on no reader fails or panics and no thread reads directly, since each of these may
keep a worker retrying or waiting for ever. The readers are assumed to return from a call, in some
way.

## What is proved

The theorems hold for all values of the constants: any registry, evidence, filesystem, number of
threads or cursors, cap, vocabulary, radix or width, and for texts, names and listings of any length.

- **Resolver** (`ResolverProofs`). `TypeCorrect`, `BombGuard` (`DepthBounded`), `LocatorsReplay`
  (`RouteFaithful`). `RouteFaithful` alone is not inductive: when a caller
  descends, the layer it pushes names opener and index, so the record must be in the middle of an opener it
  claimed and opened (`Opened`), and in the last resort pass the opener must come from a Maybe scheme
  recorded earlier (`AttemptsOK`). The invariant is `IInv`: the call is well formed, every record is
  (`FrameOK`), depths count up along the stack, every caller is at a child, and what is returned replays.
- **Search** (`ResolverProofs`). `Exhaustive` (`NothingPassedOver`), `CleanUnknown` (`NoneIsClean`).
  `SInv` adds to `IInv` that what lies before the cursor of each record is spent (`Passed`), with all Maybe schemes
  seen recorded (`AttemptsComplete`, or the last resort would skip one), that every record works on the child its caller is at
  (`Linked`, or a `None` would say nothing about that child), and that a `None` on its way up is clean (`NoneOK`). `Barren` is
  stated without recursion, over paths; `BarrenStep` is the lemma that a source leads nowhere when it is no
  end and its children lead nowhere.
- **Order of the search** (`ResolutionProofs`). `AnswersFirst` (`ResolvesFirst`): every step of the recursive search is a step or a stutter of
  `Resolution`, which answers in one step. The invariant `RInv` is `SInv` with: the Maybe schemes are recorded in registration order
  (`Ordered`), the locator of a record is its caller's with the layer of the child the caller is at (`Traced`), what is being returned is the first of the sites below
  the record that returns it (`FoundOK`), and what was returned at last is what was promised (`DoneOK`). `Resolution` computes the sites level by level with a recursive function; the levels are
  shown to exist by a least counterexample. `BarrenIsEmpty` says that a source that leads nowhere has no sites, `NothingBefore` that no site lies before the
  cursor of a record, `FirstUnder` and `FirstChild` that the first site below a child is, with the child's step in front, the first of the record.
- **Cursor pool** (`SeekPoolProofs`). `TypeCorrect`, `CursorsSafe` (`CursorsAccounted`), `Scales` (`FewWait`), `Implements` (`ReadsAsPositioned`, for a pool
  with a cursor). `IInv` says what a thread knows at each point and that its buffer
  is the front of its window with the reader right behind it. `FewWait` needs `Crowded`: for every *k*, the threads that
  have got to cursor *k* or beyond and those needed to hold the cursors before *k* are no more than there are.
- **Workers** (`SeekPoolProofs`). `PoolKept` says that a step of the composition is a step or a stutter of the pool, so all
  that is proved of the pool holds in it. `WorkersTypeCorrect`, `CopiesAreFaithful` (`CopiesFaithful`), `CopiesAreWhole` (`CopiesWhole`), and `EmptyPool`. The invariant `WInv` relates a worker's
  cursor to its request in the pool and to the answer it has not taken yet; that the answer is the right bytes is what
  `Implements` of the pool says, used step by step, so nothing is proved here about mutexes. Over a pool without cursors, which the constructor accepts, `CopiesWhole` is false: `CopiesAreWhole`
  states it for a pool with one and says for the other that every copy is empty, which is `EmptyPool`; its invariant `Starved` is that every answer
  and every copy is empty.
- **Source stack** (`SourceStackProofs`): all nine properties of the run `source_stack`, for windows of any number, any bases, lengths, seeks and widths
  of integers. Reads go down the stack of windows by a recursive function, which is first shown to exist (by a least counterexample, as no induction over data is
  at hand); then a read inside the innermost window asks each window for a part of it (`WindowsNest`), so the file is asked for the
  sum of the bases. The invariant `IInv` has, beside the properties, `Typed`, `CursorNests` (the cursor lies in
  the innermost window), `CalmKept` (a file left alone has its cached length), `Fresh`, and `SniffOK`, what the sniff buffers hold:
  `HeadTrue` and `CalmTailTrue` speak of any offset an opener may ask for and follow from it.
- **Walk** (`WalkProofs`). `TypeCorrect`, `PathsLead` (`PathsFaithful`), `LoudErrors` (`Loud`), `FullWalk` (`Complete`).
  The heart of the last is that depth never exceeds the number of directories visited, so that the cap cuts nothing in a
  filesystem of few directories, and that every directory returned is visited or still on the stack (`Seen`).
- **Walk, by paths** (`WalkProofs`). `TreeWalk` (`TreeComplete`): in a tree all paths to a directory are equally long (the shortest two that differ
  would give it two parents), so a directory the cap cuts is beyond it on every path (`Deep`), and every other one named by a listed directory is `Seen` (`TreeOK`).
  `OneListing`: if no directory uses a name twice, no entry is returned twice (`ListedOnce`). The invariant `OnceOK` says that each path
  returned goes through a listed directory to an entry the walk is past. `Distinct` names are asked for because a listing that names two entries alike returns
  two equal paths; the run has the same condition built into its filesystems.

- **Codec** (`LocatorUriProofs`). `SessionTypes` (`TypeOK`), `ReadsBack` (`RoundTrip`), `OlderTexts` (`LegacyAlias`), for any number of layers and path components
  and names of any length and content. The bytes of a name are encoded one by one, and an encoded name has none of the characters that
  structure a text (`DecodeEncode`); texts joined by a character that none of them has are split again into the same texts
  (`SplitJoined`), and the parts of any text joined again are the text (`JoinedSplit`). From these each part of the grammar is read back by a lemma of its own
  (`ParseFileIdIs`, `ParseStreamIs`, `ParseNodeAddrIs`), a layer by its tag and its body (`LayerReadBack`), and a locator by its layers
  (`FromToUri`). `FromUriType` says that the parser accepts nothing but locators, whatever the text, from which `TypeOK` is inductive;
  `RoundTrip` follows from `TypeOK`. For `LegacyAlias` the text is cut at its bars: the older form changes each part on its own
  (`OldJoined`), and only a first word `file` of a layer, which is read alike as `os` (`OldLayer`). Statements about texts of every length are proved by appending one
  symbol at a time to a least text that fails them.
- **Epoch tags and field reads** (`SnapshotsProofs`). `HistoryOrder` (`EpochsOrdered`), `TimeFromTag` (`EpochReversible`), `ReadsExact` (`FieldsExact`), for every radix, every set
  of field widths and every tag length. What is needed of numbers and bytes: a number written is read back (`ReadBack`), bytes read are written
  back (`WrittenBack`), and big-endian bytes order as the numbers do (`BytesInOrder`). The tag of a view is the one of its
  create time (`TagInv`), and does not change when it is cited. `ViewsReadBack` joins the codec to it: `CitedInv` adds to `TypeOK` that the
  locator of every view is a locator, so that `TypeOK`, `RoundTrip` and `LegacyAlias` hold in the composition.

Assumptions: those named in the modules; TLC evaluates them on every run. Of the theorems in `PROJECT.json` only `Implements` assumes `PoolSize > 0`: a pool of no
cursors answers every read with no bytes, which is no positioned read. `WellFormed` says what the signatures of the openers say. `WordsAssumption` says that the words of a vocabulary are no characters and that
numerals differ from characters and from each other: it is what "a word is one symbol" means. `WrittenAssumption` says that the program writes locators, as
the type of `Locator` does, `LocatorUriAssumption` that the integer types are nested, and `SnapshotsAssumption` that a create time fits its field of the tag.

Only model-checked: liveness (`Termination`, `Drains`, `AllFinish`, `Terminates`), which the prover cannot do. Every other property of a passing run is a
theorem. The properties of the runs that are violated are of course no theorems.

## Findings

Each is shown by a run that is expected to be violated; the quotations are in `PROJECT.json`.

1. `resolve_to_source` returns an archive without members as the raw terminal, though a packaging opener claims it (`archive_terminal`).
2. A container that only decodes to containers is answered with `Ok(Some(..))` of the source at the cap, where the documentation says `Ok(None)`
   (`packaging_bomb`); `open` answers the same source with `Ok(None)`.
3. A poisoned cursor is free but never taken by the scan, and a thread blocks on the first cursor although another one is free (`poisoned_cursors`).
4. A directory with two parents, met first at the cap, is not listed again on the shorter path: nodes within the cap are missing from an
   answer of `Ok` (`walk_two_parents`).
5. After a short read of the tail the sniff window keeps the old total length, and from-end probes look at other offsets than they
   ask for (`truncated_file`).
6. A Maybe encryption scheme whose layer cannot be constructed ends the call with an error (resolver 493), before the schemes after it are tried.
   ADR 0010 (line 63, lines 83-86) has both a failed construction and a failed decrypt fall through, to the next scheme and at last to `Ok(None)`, and the
   `# Errors` section at resolver 124-126 knows failed opens only after a `Yes` (`failed_attempt`). The comment at resolver 478-480 and error.rs 91-92 side with the
   code, so the repository contradicts itself. `NothingPassedOver`, `NoneIsClean` and `ResolvesFirst`, and the theorems `Exhaustive`, `CleanUnknown` and
   `AnswersFirst`, state what the code does. Under the ADR's reading the
   first two would ask for less, and the third would not hold.
7. Numbers that do not fit their field are cut to its width instead of being refused (`misread_number`).

A disagreement on ambiguity has no run of its own, since any call with two claimants shows it. error.rs 110-113 has `VfsError::Ambiguous` for "More than one prober
returned `Yes` and `auto_pick` was off", ADR 0007 (87-88) asks for "ambiguity reporting (not silent first-wins)", ADR 0011 (104-108) for `resolve_to_source` to report
several unrelated dumps of one archive, and the design history (line 52) calls the hard error accepted. The resolver takes the first opener and the first member that lead
somewhere, which is what its own documentation says of members (resolver 155-157) and what its loops do; the error is constructed in a test only, and there is no `auto_pick`.
`Resolution` promises the first, as the code does: `ResolvesFirst` and `AnswersFirst` are about the order of the search and no evidence for either document.

Smaller observations, without a run of their own: `SeekPoolSource::new` accepts an empty vector although a comment in `read_at` calls the pool
non-empty by construction, and such a pool answers reads before the end with no bytes (theorem `EmptyPool`: a worker takes that for the end of its window and has
nothing of it);
`read_exact_at` (source.rs 160-167) reports a range error after one short answer of a source that has more, which is why `RangeErrorsTrue` asks
for a calm file; a `FileSource` whose file has grown answers a read that begins before its cached length with bytes past it.

Also without a run: texts that are not canonical are accepted for a canonical locator (a `+` before a number, `%+f` for an escape, zeros in front),
which `RoundTrip` shows to be harmless; the error of a bad text carries its first 16 bytes only; `SubRange::source_id` (adapters.rs 54-57) is
that of its parent, so two windows of one source share an identity.

## What is not modelled, and why

- *Errors* (error.rs): construction, byte excerpts and wording. That an operation fails is in every model, what its message says is not.
- *Display of a locator* (uri.rs 473-516): a lossy text for people, which nothing reads back.
- *Extents, view, source_id* of `ImageSource` and the types behind them: no state, and nothing in this repository reads them.
- *Registration* (registry.rs 148-323): the builder only pushes to a `Vec` before any call; its order is the order of the constants of `Openers`.
- *Ambiguity reporting*: no code does it (see above).
- *Platforms other than unix*: `FileSource::read_at` and the bytes of a path.
- *Credentials*, and the descriptions, findings and types of volumes, archives and nodes: carried, never decided upon, by the code here.
- `FileSystem` beyond `root`, `read_dir` and `meta`; the openers, decoders and layers themselves: implemented elsewhere, present here as the answers they give.

## Plan

Done: every component that changes state or decides something is modelled and checked, and every safety property that a passing run checks is proved, the
refinements of `Resolution` and `PositionedRead` among them.

1. What holds in place of the seven violated properties, under the condition that makes each of them true: a pool without poisoned cursors, numbers that fit their
   fields, a file that is left alone, schemes whose layers can be constructed.
2. Seeks in `Workers`, which the source stack has for one user, and the proofs for them.
3. Upper case in escapes and the UTF-8 check, if the alphabet of the codec is to grow.
4. Extents over windows, when a reader of them appears in the repository.
