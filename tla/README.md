# A verification project for uLisp on the PicoCalc

This directory holds TLA+ models of the program in `src/` — the uLisp
interpreter for the Raspberry Pi Pico, with the screen and keyboard of the
ClockworkPi PicoCalc —, the TLC configurations that check them on small
instances, and TLAPS proofs about them for every size. `PROJECT.json` maps each
definition to the lines it models, and lists the hazards the properties are for.

Line numbers are of the split sources (`src/ulisp_*.cpp`, `src/ui/*.cpp`,
`src/*server.c`). `ulisp-picocalc.ino` is the same program before the split; it
is not modelled a second time.

## 1. The system

The interpreter is a single thread. What runs beside it is the user (a keyboard
with a queue of its own), the power supply, the SD card, and the network stack's
callbacks. Inside the thread two things interleave with everything else: the
garbage collector, which may run at every entry of `eval`, and `longjmp`, by
which an error leaves any number of C activations at once.

| Component | State | Hard behaviour | Correct when | Modules |
|---|---|---|---|---|
| Workspace and collector (`ulisp_memory`) | `Workspace`, `Freelist`, `Freespace`, mark bits, roots | roots are globals and arguments only; tags share words with pointers; circular data | nothing in reach is freed, all else is; the free list is exact; one symbol per name; it ends | `Heap`, `AbstractHeap` |
| Image compaction (same file) | the same | a text cell cannot be told from a pair; two scans meet | same data at other places, no gaps | `Compact` |
| Evaluator (`ulisp_eval`, `ulisp_runtime_env`, `ulisp_builtins_*`, `ulisp_error`) | `GlobalEnv`, `GCStack`, `RETURNFLAG`, `TC`, C locals | a collection at any `eval`; errors through half-done activations; tail calls | no local outlives its cell; protections pair up; forms give their value | `Evaluator` |
| Startup and REPL (`ulisp_entry`, `ulisp_error`) | `Flags`, `handler`, `BreakLevel` | forms inside forms, errors and escapes anywhere | handlers nest, flags come back, breaks can be left | `Session` |
| REPL window (`ui/repl_window`, `gserial`, `testescape`) | ring of rows, view, edit line, dirty flag | keys at any time; scrolling while output comes; the line that is read can be edited | rows are the last ones written; lines reach the reader whole; the screen is current; escape stops a program | `ReplWindow` |
| Image persistence (`ulisp_persistence`) | `ULISP.IMG`, workspace, globals | power cut between words, full card, `GCStack` replaced under its callers | a whole image restores all; the prompt has an empty stack | `Image` |
| Text windows (`ui/window`, `ui/window_builtins`) | slots, cells, focus, screen | overlap, slots used again | a window shows the end of its text, the screen nothing of one that is gone | `Windows` |
| HTTP server (`ulisp_http`) | connection, request buffer | polled; errors in a header; a peer that stops | whole requests; every connection ends | `HttpServer`, `HttpText` |
| DNS server (`dnsserver.c`) | none | lengths that are the sender's word | fits its buffer, answers the question | `DnsServer` |
| DHCP server and access point (`dhcpserver.c`, `ulisp_builtins_system`) | leases, 16-bit expiry | lost, late, repeated messages; a clock that wraps | who believes in an address has its lease | `AccessPoint` |
| WiFi station (`ulisp_builtins_system`) | scan results, the driver's state | callbacks between any two steps | results in the order heard; an answer is how it is | `WifiScan`, `Station` |
| Machine code (`defcode`) | `MyCode` | blocks move; two passes; errors in the second | a function runs its own code | `CodeBlocks` |
| Streams (`ulisp_streams`, `with-…` forms) | `GlobalString`, SD files, ports | one global for all forms of a kind | what is written goes where the form opened | `Streams`, `Devices` |
| Tracing and backtraces | `TraceFn`, `TraceDepth`, the ring `Backtrace` | counts on both sides of a call an error ends | a message has its call's name and depth | `Tracing` |
| Reader, printer, editor, format (`ulisp_reader`, `ulisp_print`, `ulisp_pretty`) | `LastChar`, `GFun` | a character given back; open lists | what is printed reads as it was | `Reader`, `Printer`, `Tokens`, `Literals`, `Editor`, `Format` |
| Numbers (`ulisp_builtins_numbers`) | none | overflow tests made in ints | integers are exact or become floats | `Arithmetic` |
| Strings, arrays, lists (`ulisp_runtime_data`, `ulisp_builtins_core`, `_strings`) | cells | shared lists; mapping and sort change lists they were lent | text is text, arrays are tables, lists hold | `Strings`, `Arrays`, `Lists`, `Sort` |
| Types, tables, library, names (`ulisp_tables`, `ulisp_runtime_symbols`) | tables, place in the library | `require` inside a load | equal is alike; calls are checked; what is required is defined | `Objects`, `Library` |
| Pins, time, display, keys (`ulisp_arduino`, `ulisp_platform`, `ulisp_gfx`, `ulisp_picocalc`) | the chip's | widths; clocks that wrap | as asked | `Pins`, `Graphics` |

How they interact: the reader takes characters from `gserial`, which turns keys
into a line (REPL window); `repl` evaluates what was read; the evaluator
allocates in the workspace and lets the collector run; printing appends to the
window, or to a text window's cells through a stream; `save-image` marks,
compacts and writes the file; an error anywhere jumps to the innermost handler
or to `loop`. They share `GCStack`, the word `Flags` and `LastPrint`, where most
of the hazards lie. An image never runs by itself in this build: `setup` tests a
constant that is not the one that asks for it.

## 2. The modules

A component has one module. Theorems about `M` are in `MProofs`, which EXTENDS
`M`; `SessionProofs` and `ServicesProofs` are about all that `MCSession` and
`MCServices` compose. Runs need an `MC…` module only where they define something:
structures, programs, or a composition. `MCAccessPoint.cfg` is of `AccessPoint`
itself, which has its symmetry.

Three MC modules compose modules that share no state: a variable `part` or
`service`, chosen by `Init`, says which one a behaviour is of, so that the state
space is the union of theirs and not the product. `MCSession` EXTENDS `Session`
(its own `Init`, `Next` are the part "forms") and INSTANCEs `CodeBlocks`,
`Streams`, `Tracing`; `MCServices` has the network, the devices, the display,
`Objects` and `Library`; `MCData` has numbers, strings, arrays, lists, the
reader, the editor and `format`.

### Memory: `Heap`, `AbstractHeap`, `Compact`

A cell has a `car`, a `cdr` and a `kind`; the kind is what the C code knows of a
cell from its tag or from how it got there (a block of characters has no tag).
One action per constructor and per write of the evaluator. `StartGC` is the call
of `gc`; `MarkObject` is one turn of the outer loop of `markobject` with the
recursion as a `stack`, `MarkChain` one turn of the loop over the blocks of a
text, `SweepCell` one turn of `sweep`. A number, a character or a short name is
an `atom`. `intern` looks through the whole workspace, garbage included, so a
symbol that nothing refers to may come back to life; that is right only because
garbage between two collections is intact (`NoDanglingPointer`).

`AbstractHeap` is a store of `Objects`: one is made, one that is in reach is
rewritten, roots are taken, and a collection is one step. `Heap` implements it
by `allocated` = the cells that exist outside a sweep and the reachable ones in
one; the abstract collection is the start of the sweep, all other steps of a
collection stutter.

`Compact` starts from any workspace of a set `Heaps`. `now` is a ghost: where
each live cell of `start` is by now. `Corrected` and `Recovered` are the two
passes of `movepointer`. Text blocks hold values of `Text`, which may be numbers
that read as addresses.

### Evaluation: `Evaluator`, `Session`, `Tracing`, `CodeBlocks`

A state of `Evaluator` has the run-time heap, the global variables, `GCStack`,
and `cstack`, the C activations that wait for the `eval` they have called, each
with its locals as a record. `at = "eval"` is an entry of `eval`, where
`Freespace` may be low and a collection runs; `"ret"` the return to the
innermost activation; `"error"` the jump to a handler. The program text is not
in the heap. The question is whether the locals of waiting activations survive,
since only `GCStack`, the globals and the form and environment of the innermost
`eval` are marked. Programs are lines of forms (abstract syntax) with the value
each should print.

`Session` has what stays outside the heap: the flags, the handler and the break
level, with the C locals in which `ignore-errors`, `unwind-protect`, `defvar`,
`princ` and a break keep the old values. Any form may call any other; an error
or an escape may come at any moment. `Tracing` has the table of traced names and
the ring of the backtrace; `CodeBlocks` has `MyCode` and `defcode` a turn of its
loops at a time, a word of code being the function it belongs to and its place.

### Input and output: `ReplWindow`, `Windows`, `Streams`, `Devices`, `Pins`, `Graphics`

In `ReplWindow`, `rows` is the ring, `paper` the ghost of all rows ever written,
`owed` the ghost of what the reader has still to get. `out` is what the running
code is about to append; `BackBufferAppend` appends one character. `gserial` is
the loop: a key or none, then the next character of a committed line, its end,
or a wait. What reader and program make of the characters is open. Abstracted:
colours, the wrapping of the edit line, characters from USB.

`Windows` has one action per builtin. `screen` is what was painted last at each
place and of which window (a ghost number tells apart the windows a slot has
held); `text` is a ghost of what was written since the last clear or resize.

`Streams` has the forms that open a stream and what a transfer reaches;
`Devices` what a stream number is, the port its form has set up, and the bytes
of an I2C form that is restarted either way; `Pins` modes, values, tones and
waiting against a clock that wraps; `Graphics` coordinates and colours on their
way through 16-bit words, the saved screen as a file, and the queue of keys.
`ULISP_HOWMANYI2C` and `ULISP_HOWMANYSPI` are defined in `ulisp_streams.cpp` and
nowhere else: there a stream of the second port is `Wire1` or `SPI1`, while
`with-i2c` and `with-spi` always set up `Wire` and `SPI`, and `restart-i2c` has a
pointer to no port for one of the second. `Devices` says so: the second port is
never set up, takes and gives nothing, and a restart there may go to any port or
none.
`ReachesItsPort` is therefore of the first, and `SecondPortApart` says that what
is meant for the second never comes to the first: what the form began there stays
empty.

### Persistence: `Image`

Cells are pairs. Collector and compaction are one step each with the outcome
that `Heap` and `Compact` establish. `file` is what the file holds word for
word; `CardFull` and `PowerCut` may come between any two. Loading reads past the
end as -1, as `SDRead32` makes of four reads that fail. `pc = "lost"` is a
fault: memory written past the workspace, a root that is no address, or a
caller's list that is gone from `GCStack`.

### Network: `HttpServer`, `HttpText`, `DnsServer`, `AccessPoint`, `WifiScan`, `Station`

`HttpServer` is the server as built with `ULISP_HTTP_ARDUINO_TRANSPORT`; this
build does not define it, and `http-accept` then returns nil. A request is a
sequence of tokens; parsing writes zeros into the buffer, as the code does.
`AccessPoint` has both sides of DHCP, the stations being external: a message may
be lost, late or repeated, a station may reboot or release, the server may be
restarted. The millisecond clock has `Clock` values, a lease keeps its upper
half, as the code's 16 bits. `Station` asks about one call at a time while
the link changes: `wifi-connect` turns tracing on, and only then looks at its
arguments, so that one that is no string or too long leaves it on
(`fn_wificonnect`, its second way out).

### Data: `Arithmetic`, `Strings`, `Arrays`, `Lists`, `Sort`, `Objects`, `Library`, `Tokens`, `Literals`, `Printer`, `Reader`, `Editor`, `Format`

Operators over words of few bits, cells of a few characters, trees of a few
leaves, each checked against a definition of what it should be: arithmetic on
the integers, sequences of characters, tables, permutations in order.
`Reader` reads what `Printer` printed; `Tokens` and `Literals` have the
characters of names and numbers that `Reader` takes as one.

In `Arrays`, `dimlist` says whose the list of lengths is. `makearray` keeps the
list it was given, and for a bit array negates the first length in it; the
program may have that list still, and `MakeAgain` is `make-array` of it once
more. `Reader` reads bit arrays and gives back the character after them, whatever
it was, as the code does; `readmain` refuses the next line for it, also when it was
the end of the line. `Editor` reads past `LastChar`, so that a bracket that ended a name is
left behind for the reader's next call. `Literals` has NaN and infinity, printed as
names, and an exponent by a logarithm that may err to either side at a power of
ten.

`lisplibrary` is not defined in this build: the library is the empty text and
`load-from-library` is not compiled. `Library` has the empty one among its
libraries and the filled ones that the definition would select. `apropos` copies
names into a buffer of 33 characters and what it looks for into one of 17, and
refuses what has no room (`TooLong`) after it has told of those before.

## 3. The runs

| Run | Module | Shows | Bounds |
|---|---|---|---|
| `heap` | `Heap` | `NoDanglingPointer`, `SymbolUnique`, `FreeListExact`, `CollectsExactly` | 3 cells, every operation, a collection at any time |
| `heap_steps` | `Heap` | `CollectionEnds`, `RefinesMemory` | 3 cells, rings included |
| `compact` | `MCCompact` | `Faithful`, `Dense`, `CompactionEnds` | 7 cells; structures of up to 4 cells at every place |
| `evaluator` | `MCEvaluator` | `NothingInUseFreed`, `StackBalanced`, `PrintsRight` | 10 sessions, 96 cells, up to 3 collections anywhere |
| `tail_call` | `MCEvaluator` | the disagreement of section 5 | 1 session, 1 collection |
| `repl` | `ReplWindow` | `TranscriptRight`, `DeliversUndisturbed`, `ScreenCurrent`, `EscapeStops` | 3 rows of 3, 2 of them shown, lines of 2, four keys of 11 kinds, one print |
| `image` | `Image` | `PromptClean`, `LostByTornFile`, `LoadRestores` | 8 cells, 2 globals, 1 cell of garbage, one code block |
| `windows` | `MCWindows` | `ShowsEnd`, `NoGhosts`, `FocusOpen` | 2 slots, up to 2×2 in 3×2, 3 characters, 2 windows |
| `access_point` | `AccessPoint` | `LeasesHold` | 2 stations, 2 addresses, a clock of 8, 2 messages in flight |
| `services` | `MCServices` | `HandsOutWholeRequests`, `ConnectionsEnd`, `NetworkAnswers`, `DevicesServe`, `NamesTell` | requests of 7 tokens for a buffer of 6; DNS messages of 8 bytes; 2 networks; clocks of 16; a screen of 2×2; 4 objects; libraries of 0 to 3 definitions |
| `session` | `MCSession` | `HandlersNest`, `BreakCanLeave`, `FlagsReturn`, `CodeIntact`, `CompactionEnds`, `StreamsDeliver`, `TracesTell` | 4 nested forms, 3 breaks; 3 functions in 6 halfwords; 3 forms of 2 kinds of streams; 3 nested calls, a table of 2 and a ring of 3 |
| `data` | `MCData` | `NumbersAreExact`, `StringsAreText`, `ListsHold`, `ReadsWhatWasPrinted`, `ReadingEnds` | ints of 4 bits, strings of 5, arrays of 6, lists of 5 cells, texts of 3 characters read, names of 3, floats of up to 5 digits |

A property named for several (`TranscriptRight`, `HandlersNest`, `LeasesHold`,
`ListsHold`, …) is the conjunction of named parts, each with its comment; the
type invariant of a module is one of them.

Why these bounds are enough for the cases that matter:

- *Heap.* Three cells hold a root (`tee` takes one), an object and what it points
  to: pointers from live to live, from garbage to live, to itself, in rings of
  two. *Compact.* With seven cells and four live ones, 0 to 3 cells move, in both
  directions of every pointer; a full workspace and text that reads as the
  address of the topmost cell are among them. The proofs cover every size.
- *Evaluator.* The cells are more than any session needs. Three collections let
  one fall before, in and after an activation and its callee; each form and each
  handler is in some session, at least once with fresh objects held by a local.
- *ReplWindow.* A ring of three rows overwrites its oldest after three newlines,
  which a commit, an error and a prompt make; four keys allow a line, an edit
  behind it, a scroll and an escape. The proofs cover every size and all keys.
- *Image.* Eight cells hold two globals, the protections of a call and the
  garbage that makes compaction move them.
- *Windows.* Two windows overlap or one slot is used twice; two by two
  characters wrap and scroll.
- *AccessPoint.* Two stations are offered one address; a clock of eight wraps
  while a lease of two units runs, and a message sent before may arrive after.
  The proof covers any number of stations and every such clock.
- *Session.* Four calls are a handler, a form inside it that saves its state, one
  that fails, and one around them. The proof covers any depth.
- *Services, data.* Each size is one past an edge of its code: a buffer one
  shorter than a message, a word that overflows, a cell and one character, a
  result more than fits.

Bounds are the constants named `Max…` and are guards of the actions that count;
they cut behaviours short and make none. `MCData`, `MCServices`, `MCSession` and
`AccessPoint` set `CHECK_DEADLOCK FALSE`, since a call that has answered, a
connection that is over or a bound that is met is their end; the others check
for deadlock.

### Fairness

No more than that C code runs on and the polling program polls:

- the loops of a collection, of a compaction and of the compaction of code take
  their next turn (`FairSpec` of `Heap`, `Compact`, `CodeBlocks`): nothing
  interrupts them;
- the reader takes its next item and `format` its next character (`Reader`,
  `Format`);
- a running program gets to `testescape` and appends what it prints
  (`ReplWindow`): every `eval` of a program calls it;
- the program calls `http-accept`, reading goes on, time passes (weak), and of
  infinitely many chances to respond it takes one that succeeds (strong)
  (`HttpServer`).

The user, the power, the card, the peers and the mutator owe nothing.

### Mutants

For every property of a passing run `PROJECT.json` names an operator that
changes a mapped definition as a plausible slip would (operators with an
underscore: `Cleared_Not`, `Edited_Later`, …, commented as slips), under which
TLC finds the property violated.

## 4. The proofs

| Module | Theorems | From |
|---|---|---|
| `HeapProofs` | `TypeCorrect`, `LiveSafe`, `NothingDangles`, `FreeListCorrect`, `CollectionExact`, `SymbolsUnique`, `Refinement` | at least one cell |
| `CompactProofs` | `CompactionFaithful`, `ImageDense` | `PlainText` for the first |
| `WindowsProofs` | `TypeCorrect`, `ScreenTrue`, `FocusSafe` | at least one slot, row and column |
| `AccessPointProofs` | `LeasesCorrect` | `ClockAssumption` |
| `SessionProofs` | `HandlersStayNested`, `FlagsExplained`, `BreaksCanLeave`, `PartsKeepSession`, `StreamsCorrect`, `CodeStaysIntact`, `TracesAreTold` | `MaxBreak < Levels` for `BreaksCanLeave`; the bounds of the streams and the size of code space are naturals, the names that hold functions some finite number; `TraceAssumption`: a table and a ring of at least one place, depths below the values of a counter |
| `ServicesProofs` | `NetworkIsAnswered`, `RequestsAreWhole` | `SizeAssumption`, `DnsAssumption`, `ScanAssumption`, `StationAssumption` |
| `ReplWindowProofs` | `TranscriptCorrect`, `LinesDelivered`, `ScreenTrue` | at least one row shown, one column, room for a line |

They hold for every value of the constants that these assumptions admit, and
depend on nothing else. Each module proves `Spec => []IInv` (`Invariance`) from
one lemma per action, or one for a group that disturbs the same conjuncts, and
its theorems from `IInv`. All assumptions are evaluated by TLC on the instances
of the runs.

**Heap.** That no live cell is free is not inductive: whether a sweep frees a
live cell depends on what the marking before it marked. `IInv` adds
`WellKinded`, `RootsExist` (every word of a cell that exists points, as its kind
says, to something that exists); `Marking`, the tricolour invariant: what a
marked cell points to is marked or waits on the stack or in `chain`, and so do
the roots, and nothing out of reach is marked or waits; `Sweeping`: the cells
behind the sweep that stay are live, the marks are ahead of it. The constructors
share `AllocStep`, the writes `StoreStep`. The facts about reachability
(`LiveLeast`, `LiveClosed`, `LiveUnchanged`) come from its definition as a least
closed set and need no induction. `SymbolsUnique` needs more than reachability:
`intern` makes a cell only when none in the whole workspace has the name, and no
other step makes a symbol or renames one. `Refinement` maps each step: `MakeMaps`
and `ReuseMaps` for the constructors, `WriteMaps` for the writes, `SweepMaps`
for the start of the sweep, and stutters for the rest.

**Compact.** `IInv` is `TypeOK`, `Faithful`, `Apart` (no two cells at one place),
`Dense` and `Scanned` (what moved is below `obj`, what is below `firstfree`
stays). The heart is `CorrectedCell`: the two passes of `movepointer` forward
the pointers of each cell and leave its text alone. `PlainText` — no block holds
a value that reads as the address of a cell that something may move to — is
needed: with an address in `Text`, TLC shows `Faithful` violated. On the board
such an address is in RAM (0x20 and small bytes), so ordinary text does not meet
it.

**Windows.** The conjunction of the three properties is inductive. A step keeps
it in one of three ways (`ClearStep`, `DirtyStep`, `PaintStep`): it clears the
old place, leaves the window dirty, or paints.

**AccessPoint.** `LeasesHold` speaks of stations that are bound; `IInv` carries
it back to the moment of the ACK. `AckedHeld`: from when an ACK is in the net for
a request still waiting, the server has that station down for the address, with
at least the time left that the station counts; `BoundHeld` is the same when it
is bound; `Counting` that such a station has an address and time. The 16-bit
comparison is handled by `Remaining`, the ticks until the server takes a lease
for expired: a tick takes one from it, the lemmas on `%` show that it does not
wrap while a station still counts, because a lease and a unit fit in half the
clock (`ClockAssumption`, true of the code's constants: a day in 2^32 ms).

**Session.** `HandlersSaved`: of each call under way, what it saved is the
handler that was innermost when it began, so that any way out — a normal end, or
an error that ends many — puts back the one that is innermost then. `MuffleSaved`
is the same of the flag. `PrintingIsLast`: nothing is called from inside `princ`,
and the flags it puts back are as good as those it found. `BreaksCanLeave` has
the hypothesis `MaxBreak < Levels`: the level is 8 bits in C, and a session that
nests 256 breaks does set it to 0 (section 5). The module extends `MCSession`,
whose specification `PartsKeepSession` shows to imply that of `Session`.

**Streams.** `StreamsCorrect` is proved of `MCSession` too. To what `StreamsDeliver`
says of the last transfer the invariant adds what makes the next one right:
`AloneReaches`, a form that nothing has met is connected to what it opened;
`NewestAlone`, an older form whose place a newer one has taken is no longer
alone, so that what the newer one closes at its end was not the older one's any
more; `Explained`, while no error has passed, whatever is connected belongs to a
form under way, and so nothing is when there is none. TLC found these to hold
with the bounds of the `session` run before they were proved.

**CodeBlocks.** That each function has its code is kept by a slide only if the
block slides onto nothing that is still wanted. So `IInv` says of the functions
that count (`Live`) that their blocks lie `Apart`, that none lies across `origin`
while blocks are compacted (`NoneAcross`: the lowest block above `origin` slides
down to it and what it writes over is not of a live block), and `CountedRoom`:
`origin` and the halfwords of what is still above it are no more than the first
pass counted, so that the new function has its room at the end. The room is the
number of halfwords in a set and not a sum over the functions: sums are defined
by recursion, cardinalities have their theorems. A failed redefinition leaves a
block that may lie over others; `SpoiltTogether` says that a later compaction
then spoils either the function itself or, at worst, all of them, which is what
`CodeIntact` excepts.

**Tracing.** A name enters and leaves the ring at `TraceTop`, so `NamesTheCalls`
counts the calls that were told from the outermost inwards (`Rank`): a call keeps
its rank while others come and go within it, and no index moves but the newest
one's. `ToldNow` is what makes a return drop the name of the call that returns:
a closure waits only if it was told, and unless the flag was changed inside a call,
what was told is what the flag says. `SomeHeld`: there is no more missing in the
ring than there are calls. `DepthsCount` is inductive by slot, since a return goes
to the slot that its call found. `NamedEntering` and `NamedLeaving` are the two
lemmas about the ring, of which the first has the case of a full one.

**DNS.** `AnswersTheQuestion` speaks of the end of a name that the scan has to
find. A name is a set of places of its length bytes (`IsName`), and `OnTheName`
says that the scan is always at one of them: it goes from a label to the next,
and so can stop at the zero only. Whatever a name looks like, the comparison of
the length that is made before the answer is written gives `AnswerFits`.

**Scan results.** A listing goes through the array from its end, a mapping from
its start, while the callback adds results and other calls clear them. `Listed`
and `StillThere` say that what has been read is still in the array at its place,
as long as nothing has disturbed it; results are added behind all others, so a
count that was read stays a count of the same ones.

**Station.** `Learned`: what a call has found out by its questions to the driver
so far is still so, if the link has been steady. Each further question then
leaves one answer less, and what is left at the end is what the error says.
`TracingEnds`: tracing is on while the driver is asked to connect and off once it
has answered; after a `wifi-connect` it is on exactly if the arguments were refused.

**HTTP.** `BufferIsPrefix`: the buffer is as long as the part of the stream that
has come. It is `Clean` (as it was sent, with no end of a header in it) or `Cut`
(taken apart by an error, and then begun so that the parser refuses it). A token
that comes to a clean buffer can complete a header only at its very end, since
an end that lay before would have been one already; nothing that comes can make
a cut buffer acceptable.

**ReplWindow.** `RingByAge` states the ring by age, from the current row
backwards: row *d* before the current one is the *d*-th last of `paper`. Stated
forwards from the first row, as `RingHolds` is, a step that overwrites the
oldest row would move every index. `OwedIsLine`: what the reader is owed is the
rest of the committed line and its newline, unless a key has edited it since.
`DrawnSound`: what was drawn differs from what is there only when the dirty flag
is set, and a committed line has something ahead of it that will set it. This is
the reason why `ReplEditReset` may empty the line without marking the window: an
argument that is nowhere in the code.

Only model-checked, and why:

- liveness (`CollectionEnds`, `CompactionEnds`, `EscapeStops`, `ConnectionsEnd`,
  `ReadingEnds`): fairness and ENABLED are out of the prover's reach;
- what recursive definitions compute (`ShowsEnd`, `LoadRestores`,
  `LostByTornFile`, `PrintsRight`, the properties of `MCData`, `LibraryTells` and
  `ObjectsTell` in `NamesTell`): that takes induction over data, over the cells of
  a list or the characters of a text;
- `NothingInUseFreed`, `StackBalanced`: `Evaluator` declares RECURSIVE operators,
  as `Reader`, `Printer`, `Editor` and `Format` do, and nothing can be proved in
  their modules;
- `PromptClean` rests on what the roots reach in any heap, defined there by
  recursion as well;
- `DevicesServe` is of small words (addresses, colours, notes) whose arithmetic
  is by quotients, remainders and powers, tested for every value of the words.

## 5. Where the code does something else than it says

`tail_call` is a run that TLC finishes with a counterexample: a call in tail
position of an `if` that is not the last form of its function drops that
function's frame (`ulisp_runtime_env.cpp:55`), and a collection in the callee
frees its arguments.

More of the kind, not among the runs. To see one, add the property to the
configuration (with the change of constants that is named) and run TLC.

| In | Property | What it shows |
|---|---|---|
| `MCEvaluator`, `PrintsRight`, `Programs <- UnwindValue` | | the value of `unwind-protect` is lost when its cleanup forms collect |
| the same, `UnwindForms`, `ReturnValue` | | `return` in the first form of `unwind-protect` skips cleanup forms; in an argument it does not leave the loop with its value |
| the same, `DolistTurns` | | a `return` outside every loop stops the next `dolist` after its first form |
| the same, `PushItem`; `SetfPlace` with `NothingInUseFreed` | | `push` does not protect its item while the place is evaluated, nor `setf` its place |
| the same, `DoSteps` | | `do` steps its variables together; its documentation says one after the other |
| `MCCompact`, an address in `Text` | `Faithful` | text that reads as an address is changed by compaction |
| `ReplWindow`, `Keys = {"enter", ";", "("}` | `InputShown` | after a comment a hidden prompt leaves the old edit line on the screen |
| `ReplWindow` | `DeliversLines` | keys typed while a line is being read are edited into it |
| `Image` | `ImageSurvives` | a power cut in a save leaves no image: the file was truncated first |
| `Image` | `SaveReported` | on a full card the number of cells is returned for a file cut short |
| `Image`, `Nestings = {FALSE, TRUE}` | `BalancedStack`, `LostByTornFile` | a save or load that is an argument of another call |
| `MCWindows` | `StaleStreamInert` | a stream of a closed window writes to the next window in its slot |
| `MCWindows` | `NoLostWindow` | an error in the colours leaves a window the program was not given |
| `MCWindows`, `MaxText = 2` | `Whole` | nothing paints a window again after another has gone from over it |
| `AccessPoint` | `NoTwoLesseesEver` | a restart forgets the leases, the stations do not |
| `MCSession` | `ReadableAtPrompt`, `EscapeAtTop` | an error in `princ` or `defvar` that `ignore-errors` catches leaves the flag |
| `MCSession` | `ErrorDropsLine` | `ulisperror` throws away the serial port's input, not the edit line's |
| `MCSession`, `Levels = 3`, `MaxTyped = 2` | `BreakCanLeave` | the level wraps to 0 and the breaks cannot be left one by one |
| `MCSession`, `Lengths = {0, 1}` | `CompactionEnds` | a function without instructions makes `defcode` loop for ever |
| `MCSession` | `RunsItsCode` | after a redefinition that failed, a function runs something else |
| `MCSession` | `OutputReturned`, `WritesLiveStrings`, `PinsRelease` | strings made inside `with-output-to-string` take its output, also when they are collected; an error leaves the pin of `with-spi` low |
| `MCSession` | `NamesNoOthers` | once more calls have ended than the ring holds, a backtrace names calls that are over |
| `MCServices` | `ConnectGivesAnAddress`, `NoIpMeansNone` | the link changes between the driver's answer and the reading of it |
| `MCServices` | `BackslashesAreKept` | `lispstring` drops a backslash of a request line |
| `MCServices` | `SleepsAsAsked`, `MillisIsNatural`, `InsideScale` | waiting more than the clock holds; `millis` after 25 days; a negative note |
| `MCServices` | `AllWrittenArrives`, `NothingForTheConsole` | an I2C form restarted to write ends without sending; output for a device that does not answer is printed |
| `MCServices` | `ClipsAtTheEdge` | a rectangle begun left of the screen is not drawn at all |
| `MCServices` | `SecondPortWorks` | a stream of the second I2C or SPI port is written at a port that no form has set up |
| `MCServices` | `TracedWhileConnecting` | `wifi-connect` leaves tracing on after arguments it refused |
| `MCServices` | `AproposTells` | one long name in the globals makes `apropos` stop with an error before it has told of all |
| `MCServices` | `EveryLoadEnds` | `require` while the library is loaded moves the place where loading reads on |
| `HttpServer` | `WritesOneResponse` | a response repeated after an error writes a second status line |
| `MCData` | `ModIsModulo`, `RoundKeepsIntegers` | `mod` of a multiple of a divisor of the other sign gives the divisor; `round` of an int goes through a float that cannot hold it |
| `MCData` | `IndexIsNatural` | comparing two empty strings gives index -4 |
| `MCData` | `NeverCrashes`, `StringsEnd` | `(. a)` writes a tail to no cell; `read-from-string` of an open list does not end |
| `MCData` | `ApplyKeepsList`, `MappingReturns` | a mapping function called by `apply` empties the program's list; `mapcan` does not come back from a function that returns a list again |
| `MCData` | `LargeIsFloat`, `CaseIsFolded`, `FloatsStayFloats` | a number too long for a word is read as what is left of it; short names fold their case, long ones do not; 0.0 is printed as an integer, NaN and infinity as names |
| `MCData` | `ListIsKept` | a list of lengths that made a bit array makes no second one, and an array made of it before takes itself for one of bits |
| `MCData` | `LinesAreRead`, `NothingIsLeftOver` | after a bit array at its end, or a name typed in the editor, the next line is refused for the character given back |
| `MCData` | `PadsToWidth` | the width of a string counts the quotes that are not printed |

Seen while reading and not stated as a property: names longer than the reader's
buffer (33 characters) are split in two; `float` does not check its argument;
`#| … ||#` does not close; `~&` looks at the last character of whichever stream
was written last; the documentation of a variable whose value is nil is read at address 0; `equal` and
`length` do not end on circular lists; `gc` prints cells as bytes; `save-image`
inside other calls corrects the global roots and its own argument only; an
escape pressed at the prompt stays in the flag and stops the next form; a view
that was scrolled back moves when the ring drops a row; `pprint` takes a number
equal to `quote`'s name for a quote.

## 6. Not modelled

- The transcendental functions and the values of floats beyond printing and
  reading them; random numbers.
- Of `format`: objects wider than 255 characters, whose width is kept in a byte,
  and widths of more than 16 bits; an argument that is a dotted list; a `}` in the
  text behind a directive that `~^` has muted, which the code takes for the end of
  the iteration (the texts of the run have none).
- What machine code does, what the libraries for WiFi, the display, the buses
  and the card do: they are external and left open.
- The tables' 240 entries, prototypes and documentation texts: data.
- Persistence on other boards (LittleFS, DataFlash, EEPROM), the forms that are
  compiled when the WiFi streams are enabled: not this build.
- `ulisp_terminal.cpp`, `ProcessKey`, `iptostring`: nothing calls them.
- `ulisp-picocalc.ino`: the same program before it was split.

## 7. Plan

To be proved next: `DevicesServe` for words of any width; `BalancedStack` of
`Image`, as far as it goes without induction over the reach of the roots. To be modelled next: openings that fail, and `incf` and
`decf` with a collection in their arguments.
