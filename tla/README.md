# A verification of linux-kernel-internals

The repository teaches the Linux kernel from traces: it boots a kernel inside a
browser tab (kxbox), drives the tracer in it, reads what comes out (kxray),
compares it with recordings (kxdiff) and draws it. Its other half reads: traces, lock
reports, type information, kernel sources, recordings and the lessons' own ledgers. This
directory holds TLA+ models of both halves, the TLC runs that check them, and TLAPS proofs
about every part that has processes, threads, callbacks or a device. `PROJECT.json` says
which lines of the source each definition stands for.

## Inventory

State, operations and interactions, as the source has them.

| part | source | state | operations | what is hard about it |
|---|---|---|---|---|
| channel | `kxbox/web/channel.js` | three header words and the bytes of a SharedArrayBuffer; the caller's pieces; the page's tail | `Caller.call`, `Answerer.answer`, `flush` | two threads that really run in parallel, a buffer smaller than the answer, wait and notify |
| guest | `guest.js`, class `Guest` of `host.js` | the promise chain, the command in flight, the text received for it | `run`, `send`, `arrived`, the deadline, `parseReply` | an answer arrives a byte at a time in a stream that also has the echo and the kernel's console in it; late answers; commands that never end |
| host | class `Host` of `host.js` | none of its own; two scratch files in the guest | `handle`, `sh`, `read`, `write`, `insmod` | a write is several commands, any of which fails, expires or runs late |
| bridge object | `kxbox.js` | none | `install`: the four calls, for Python | - |
| worker and page | `worker.js`, `page.js`, `checks.js` | cells in flight, the boot promise | `run`, `receive`, `start`, `runChecks` | answers out of order, Python not up yet, or never |
| measuring harness | `harness.js`, `both-ways.py`, `first-tape.py` | results carried over page loads in sessionStorage | `main`, `bothWays`, `keep`, `carried`, `clear` | a loop spread over reloads, any of which may fail, and a person who opens the page again |
| tracing routines | `kxbox/bridge.py` (`V86.tape`), `kxray/tracefs.py` (`capture`) | the kernel's tracing control files | about a dozen writes in a fixed order, in a `try`/`finally` | any of them fails; the kernel refuses some in the wrong order; the state outlives the call |
| traced programs | `kxbox/rootfs/*.c` | - | open the window, one system call, close it | nothing else may land in the window |
| session, corpus, bothways | `kxbox/{session,corpus,profiles,bothways}.py` | which backend answers; one environment variable | `boot`, `trace`, `compare`, `run` | silently comparing a recording with itself |
| recorder | `kxray/replay/record.py` | a pseudo terminal, the events read | `record`, `_drain`, `_prompt` | reads end anywhere, prompts come late, commands do not end |
| recorded session | `kxray/replay/{session,cast,notes,terminal}.py` | - | `steps_of`, `render`, `for_steps` | one long stream cut back into commands; a terminal that wraps; notes for another recording |
| trace readers | `kxray/trace/*.py`, `kxray/models/*.py` | a stack of open calls per processor | `parse`, `walk` | buffers that wrapped, interleaved processors and tasks |
| tape comparison | `kxdiff/*.py` | - | policy and five levels | what a level cannot see |
| capture comparison, corpus index | `kxray/corpus/*.py` | the legend of names given so far | `normalise`, `same`, `read` | values named in the order they are met; every line accounted for |
| other readers | `lockdep.py`, `kallsyms.py`, `kxray/proc`, `kxray/source`, `tools/kconfig.py` | the block being read | `parse`, `splats`, `lookup`, `verify` | a block ends where the next line says it does |
| type information | `kxray/btf/*.py` | the string table and types so far | `Builder.*`, `parse`, `layout`, `holes` | packed words, bit fields, unions |
| blueprints | `tools/bpc.py`, `tools/bpcgen.py` | the document and its seals | `check`, `generate`, `reseal` | several blocks rewritten in one file, sources that move on |
| ledgers | `tools/{refcheck,claimledger,coverage}.py` | `refs.toml`, `claims.toml`, the coverage ledger | `check`, `confirm` | a kernel that changes under a citation |
| what is built | `tools/{nbbuild,lintnb,sitebuild,vendor,baseline}.py` | the files written | `save`, `lint`, `stage`, `download`, `compare` | a build stopped half way, a file edited since |
| graders | `lessons/*/grader.py`, `kxwidgets/gate.py`, the last cells of `lessons/*/build.py` | none: every answer is computed from the reader's evidence | `grade`, `check` | answers that are right in another form, evidence that is missing |
| drawing, widgets, build scripts | `kxwidgets`, `kxshapes`, `kxdraw`, `kxmanim`, `kxbox/kernel` | - | rendering | wording and layout |

How they interact when a reader runs a cell: Python in the worker calls the
bridge object, which blocks in `Caller.call`; the page receives the request,
`Host.handle` turns it into commands, `Guest` sends each over the serial line and
reads the answer out of the stream, and `Answerer` hands it back through the shared
buffer. `V86.tape` is a dozen such calls. The harness runs two such programs on every
page load. The recorder, the readers and the authoring tools are separate programs that
share only files with this: readers read the corpus, blueprints are generated from it,
lessons cite it and claim from it, and the checks run over what is committed.

What makes each part correct: a call returns, once, with the whole of its own
answer (channel); a status is never wrong, output is never another command's,
every command settles (guest); a file is never written by halves (host); what is
measured is measured once, on a fresh guest (harness); the
machine is put back and a trace holds its window and nothing else (tracing); a
step of a session is one command (recorder, session); a frame is a call under its caller
(trace readers); what is found is under its own heading and every line is accounted for
(readers); what is found alike is alike (comparison); what passes a check is what would be
built or supported now (blueprints, ledgers, builds); a check passes when its answer is
true (graders).

## Modules

Programs with processes, threads, callbacks or a device are state machines of their own:

| module | models | state and actions |
|---|---|---|
| `Rpc` | what the channel promises: ask, answer, take | abstract specification |
| `Channel` | `channel.js` | `callerPc`/`pagePc` name the next instruction of each thread; every shared load, store, `Atomics.wait` and `Atomics.notify` is an action |
| `ShellCalls` | what the guest promises: commands settled in the order asked | abstract specification |
| `Guest` | `guest.js` and class `Guest` | the queue, the command in flight, the stream as tokens; `Expire` is the timer; the shell, the terminal's echo and the kernel's console are external actions |
| `Host` | class `Host` over a guest like `ShellCalls` | per requester the commands left of its request; the shell's input, the two scratch files and the target |
| `Harness` | `harness.js` over `page.js` and `worker.js`, with `both-ways.py` and `first-tape.py` | `pc` is where `main` awaits; `asked`/`answers` are the promises by cell number; `inbox`/`outbox` are messages between the threads, of which the worker takes any it is in the middle of; `carried` is sessionStorage |
| `Tracing` | `V86.tape` and `Tracefs.capture` | a routine is the list of its operations, cut at `try` and `finally`; `Step` does the next one, `Raise` fails at it |
| `Recorder` | `record.py` and `steps_of` | the shell, the bytes in the terminal, the recorder's loop; `StepsOf` is the cut, a recursive function over the marks |
| `FunctionGraph` | `parse` of `function_graph.py` and the tape it builds | one step is a line the tracer prints and the reader reads; `tape` is what the reader knows, `calls` and `told` what really happened |

The theorems about `Channel`, `Guest`, `Host`, `Harness`, `Tracing`, `Recorder` and
`FunctionGraph` are in `ChannelProofs`, `GuestProofs`, `HostProofs`, `HarnessProofs`,
`TracingProofs`, `RecorderProofs` and `FunctionGraphProofs`, each of which extends its module;
those about the desks `Comparing`, `Publishing` and `Citing` are in `DeskProofs`, which extends
the three.

The others are programs that read, compute and write. Their operators are the functions
of the source, and what is done with them over time is a desk of `Workbench`:

| desk | operators | what happens at it |
|---|---|---|
| `Reading` | `Lines`, `Lockdep`, `ProcFiles`, `TraceText`, `Kconfig`, `SourceFiles`, `Recordings` | a text grows piece by piece under one of twenty readers, which is then asked about it |
| `Comparing` | `Diff`, `Normalize` | two tapes, or two captures, grow and are compared |
| `Typing` | `Btf` | a blob grows type by type and is written, read from the blob or from a kernel image that carries it, laid out |
| `Walkthrough` | `Replay` | a shell session is typed on a terminal of some width, recorded in pieces, and cut into steps |
| `Sealing` | `Blueprint` | a blueprint is drafted, edited by hand anywhere, generated, resealed, while its kernel and corpus move on |
| `Citing` | `Ledgers` | citations and claims are written and confirmed while the kernel tree changes versions |
| `Publishing` | `Release` | a lesson is built by a builder that may be stopped between two files, the emulator's files are downloaded from a server that may lie or be cut off, the site is built and its build stopped anywhere between the config and the last page, the baseline recorded |
| `Studying` | `Grading` | evidence is captured or taken from a fixture and a sheet of answers is handed in |

`Workbench` extends all eight desks and chooses one at the start. They share no state, as
the programs share none, so their product would only repeat what each does alone; one run
explores them all. Every property of a desk holds trivially at the others and is
checked at each state of its own.

`MC...` modules only define constants. Operators called `X_Something` above a definition `X`
are mutants: `X` with one plausible bug, kept to show that a property notices it.

What is abstracted. A byte of a reply is the pair of the reply and its position. A
stream is a sequence of tokens (marker, digit, text, newline), since all that
`parseReply` and `steps_of` tell apart is lines, markers and digits. A line of a text is a
record: which pattern of the source it matches and what the pattern captures, so a regular
expression is modelled by what it tells apart and the loop around it by what it does. A
finding is a place, a rule and what it is about. A digest is what it is a digest of.
A binary word is 8 bits wide where the source has 32. File contents are
sequences of the pieces appended. A ring buffer is the set of windows it has records
of. What the kernel, the shell and the terminal do is taken from what the source and
its comments rely on.

## Runs

| run | bounds | shows |
|---|---|---|
| `channel` | 2 requests, buffer of 2, replies of 1 to 5 bytes, mailbox of 2 | replies of one piece, of exactly one and two buffers, and of three pieces; all properties hold provided nobody overtakes the notify |
| `channel_overtaken` | the same, any scheduling | **violated**: a late notify makes a call return the bytes of the call before |
| `guest` | 2 calls, 1 console message, 4 kinds of command | late answers, hung commands, swallowed commands, a torn marker and a torn status; one command after another is enough for every confusion of two ids |
| `host` | worker writes, page runs commands, an empty text and one of two pieces, at most 3 commands unread by the shell | a write abandoned at any command whose rest still runs, and the next write behind it |
| `harness` | 3 recipes, so that one is neither first nor last; 2 builds; the page opened 3 times; other code asking Python for a program or for nothing | reloads, failures and reopenings in any order, cells in flight together |
| `tracing` | 3 traces, both backends, any fault inside a `try` | a trace that failed between two that did not |
| `tracing_setup` | a fault in the setup of `tape` | **violated**: the tracer stays selected |
| `recorder` | 2 commands, up to a piece of output each, reads cut anywhere, inside a character too, with and without mark C, a shell that may hang or leave | a session's steps are the commands, and the recording ends |
| `recorder_split` | 1 command | **violated**: a prompt cut in two is not seen |
| `trace` | 5 lines, 2 processors, 3 tasks, 2 functions, 1 lost call, 1 line of another kind | nesting to depth 3 beside a second processor, a call begun before the trace and one that does not end in it, a task moved from one processor to the other |
| `trace_switch` | 4 lines | **violated**: a call is hung under another task's |
| `workbench` | see below | each of the eight desks |

The bounds of `workbench`, in `MCWorkbench`: texts of three to five pieces, the pieces of each
reader being the headings, bodies and oddities its loop tells apart, so that every two of them
meet in both orders; tapes of up to four frames and captures of up to two lines in all; blobs of
up to four types, among them a bit field, a union, an anonymous struct and a negative constant;
sessions of two commands, one of which wraps, on terminals of 4 and 100 columns, read in
pieces of 1 and 3; two edits to a blueprint with three states of the kernel and two of the
corpus; two citations and one claim, one source file with three texts and one with two; lessons of three cells;
three pieces of evidence at a grader, done over forty times. Two of anything that can be
confused with one another, and one more where a fold keeps state, is what the programs'
loops distinguish: none of them looks further back than the block it is in.

Deadlock is checked where the system has no end (channel, host); the others stop when
their bound on calls, traces, visits, lines or commands is reached.

What the properties compare. None of those of the desks repeats the operators it is about:
`NothingMisplaced` finds the heading above a line by looking up from it; `EveryLineAccounted`
adds up; `WrittenIsRead` and `HolesAreUncovered` compare the reader with the writer and with
sets of bytes; `LevelsAreAChain` and `SameUpToNames` relate two comparisons; `StepsAreWhatWasTyped`
compares with the commands as typed; `GeneratedIsCurrent`, `PassedIsBuilt`, `SupportedClaims`
relate a verdict to what would be made now; `DriftIsNeverTakenSilently` is an action
property; `ReadersPass` states what is true of the evidence from the calls and locks
themselves, not from what a parser made of them.

### What the violated runs say

* `channel.js:68`: `Atomics.wait` is not in a loop that looks at the state again. The
  page stores DONE and then notifies; a worker that reads DONE in between can be
  back asleep, for its next turn, when the notify arrives. It takes a whole turn of
  the worker in the gap between two instructions of the page, so it is rare. Waiting
  while the state is WAITING would close it.
* `bridge.py:206-216`: the writes that set the tracer up are before the `try`. A function
  name that the kernel refuses leaves `function_graph` selected, and the next tape
  restores that.
* `record.py:192`: the prompt is looked for in one chunk, and a read can end inside it.
* `function_graph.py:87`: open frames are kept per processor, and a `TaskSwitch` closes none
  of them. `FramesAreCalls` holds as long as a processor keeps its task; `WalkInOrder`
  whatever it does.

### Disagreements met without a run

Each run is a question, and these are smaller ones; the models have the code's behaviour.

* `tracefs.py:75` promises to put the machine back the way it was; `tracing_on`, the graph function
  and the depth are set to fixed values (L100-103). `Tracing!PutBackTheWayItWas` states the
  promise and fails with no fault injected (`FaultsIn = {}`, `Backends = {"native"}`).
* `record.py:109` says the next command is not sent until the last one finished; giving up at
  the deadline (L181) looks the same to `record` as seeing the prompt. `Recorder!LastOneFinished`
  has the condition that no wait ended early (`orderly`) and fails without it.
* `record.py:191` decodes each read alone and replaces what does not decode, so a read that ends inside a
  character of several bytes puts replacement characters into the cast that the terminal never printed.
  The text keeps its place and its marks; `StepsAreCommands` compares the steps with the commands up to these
  characters (`RestoredStep`).
* `lessons/C09/grader.py:98` cuts the answer to "who" at a slash but not the report's task, so a
  truthful `kworker/1:2` fails. `ReadersPass` leaves such tasks out.
* `lessons/S05/grader.py:41` asks whether the addresses were real numbers and `check_hidden`
  (L120) compares the answer with whether they were hidden, so a truthful reader fails and a mistaken one
  passes. `RightS05.hidden` is the answer to the question as asked, and `ReadersPass` states this check the wrong
  way round: of the two answers it passes the wrong one.
* `sitebuild.py:340-352` writes the config and the stylesheet, which are committed, and then stages the pages, which
  are not; `--check` (L331-349) looks at the first two. A fresh checkout, or a build stopped in between, passes with
  pages missing. `SiteIsStaged` claims the pages only of a build that ran to its end (`site.of`), and fails without
  that condition.
* `bpc.py:240` compares a blueprint's name with its file's in lower case, while the navigation links to the name
  (`sitebuild.py:99`) and `stage` copies the file under its own (L287): a name that differs in case passes both checks and
  its entry has no page. `SiteIsStaged` leaves out blueprints whose name is not their file's, and fails without that;
  the run has one.
* `kconfig.py:303`: a `menu` or `comment` after a symbol does not end it, and a line of a choice's
  help that begins with "if" opens a condition. `maintainers.py:344`: a paragraph that follows without a blank
  line gives its tags to the one above. The texts of the run have neither.
* `policy.py:145`: after a dropped entry point, frames of another processor that follow are
  dropped with it when they are deeper.
* `baseline.py:116` does not look at totals or at keys a reading no longer has.
* `claimledger.py:252`: a published lesson may have no `unobservable` claim, which L19 and L20
  describe differently.
* `refcheck.py:590` tells entries by `id` and does not notice two of one id in a file.
* `vendor.py:109` keeps a file that is there, whatever is in it, unless forced: the check
  reports it and the next download does not mend it.

### Fairness

`Channel`: both threads run, and the page answers each call it has taken, which the
guest's deadline is there for. `Guest` and `Host`: the page's event loop runs its
callbacks and timers (`Send`, `Expire`, `Resolve`); nothing is assumed of the
guest, which may wedge. `Harness`: the page's and the worker's event loops run, and
Python's download settles one way or the other; nothing is assumed of the person or of
other code. `Recorder`: what there is to read is read, and
deadlines pass; nothing is assumed of the shell, which may hang or leave. `Tracing`, `FunctionGraph` and `Workbench` have no liveness
property: the programs of the last two run to their end or not at all.

### Assumptions of the passing runs

* `channel`: `~Overtakes` (see above). The proofs make the same assumption by name.
* `host`: one writer. Two requesters whose writes interleave would mix their pieces in
  the shared staging file; in the shipped page the checks are over before the first cell
  runs and the worker blocks on each of its calls. The history variable `faults` names
  the two failures a write cannot hide: a copy that failed after its redirect had
  truncated the file (`guest.js:125`) leaves the start of one text in it, and a
  `base64` that failed and exited 0 (`guest.js:111-113`) has the write answered with
  success. `TargetWhole` and `WriteLands` say what holds while neither has happened,
  and `TargetWhole` that even then the file is the start of one text. A file of tracefs
  is not truncated by a redirect; the model has ordinary files, the worse case.
* `harness`: `OneBuildEach` does not speak of a tab whose page was opened again before a
  comparison was finished (`abandoned`): such a tab does carry one build's results into
  another's. `EachRecipeOnItsOwnGuest` speaks of recipes; the checks do run on the guest
  before them. A cell without code is never answered, and `EveryVisitEnds` says so.
* `tracing`: operations fail inside the `try`, not in the clean-up.
* `recorder`: `SentOnlyAfterFinished` and `StepsAreCommands` speak of recordings no wait of which ended early
  (`orderly`): at its deadline, 30 seconds for the first prompt (`record.py:138`) and four hours for a command,
  or because the shell was gone (L187-190). A wait that ends at its deadline when the shell has long been back
  at its prompt, as after a mark cut in two, is not early. `RecordingEnds` has no condition. Steps are compared
  with the replaced characters put back.
* `trace`: `FramesAreCalls` speaks of processors that kept their task.

Type invariants are stated in the modules with processes (`TypeOK`, and `Shape` and `Typed`
in the proofs about `Harness` and `FunctionGraph`) and are conjuncts of the inductive
invariants below, so they are proved rather than run.

## Proofs

A run explores one small instance; the theorems hold for every value of the constants, so
for any number of requests, commands, recipes, traces and lines, and texts, statuses and replies
of any length. Each module of proofs has the same plan: an inductive invariant, one lemma per action
that says the action keeps it, and theorems that take the properties from it.

| module | theorems | the property of a run |
|---|---|---|
| `ChannelProofs` | `TypeCorrect`, `Inductive`, `ArrivesWhole`, `NeverTorn`, `Refinement` | `AnswerArrivesWhole`, `NoTornRead`, `ImplementsRpc` |
| `GuestProofs` | `GuestInv`, `NeverAFalseVerdict`, `OnlyItsOutput`, `ExactOnAQuietLine`, `ImplementsCalls` | `NoFalseVerdict`, `OwnOutputOnly`, `ExactWhenQuiet`, `ImplementsShellCalls` |
| `HostProofs` | `HostTyped`, `AnsweredOnce`, `NeverPartOfAText`, `SuccessIsLanded` | `AnswersOnce`, `TargetWhole`, `WriteLands` |
| `HarnessProofs` | `HarnessInv`, `EveryRecipeAlone`, `ReportedOnOneBuild`, `EachCellItsAnswer`, `TraceOffTheKernel` | `EachRecipeOnItsOwnGuest`, `OneBuildEach`, `AnswersToTheirCells`, `BannerIsLive` |
| `TracingProofs` | `TracingInv`, `NoWriteRefused`, `NothingOfAnEarlierTrace`, `TracerChangedOnlyWhenOff`, `PutBack`, `SwitchedOff` | `NoOptionRefused`, `OnlyItsWindow`, `TracerChangesOnlyWhenOff`, `TracerPutBack`, `NothingLeftOn` |
| `RecorderProofs` | `RecorderInv`, `SentInTurn`, `TheLastOneFinished`, `CutInv`, `OneStepEach` | `SentOnlyAfterFinished`, `StepsAreCommands` |
| `FunctionGraphProofs` | `FrameInv`, `FramesStandForCalls`, `WalksInOrder` | `FramesAreCalls`, `WalkInOrder` |
| `DeskProofs` | `LevelsAreChained`, `WhatPassesIsBuilt`, `DriftIsRead`, `FaultlessIsSupported` | `LevelsAreAChain`, `PassedIsBuilt`, `DriftIsNeverTakenSilently`, `SupportedClaims` |

**Channel.** `AnswerArrivesWhole` is not inductive: it speaks of a call that is over, and what
makes it true is where the bytes were on the way. `IInv` is `TypeOK` and three parts.
`PhaseInv` says which program counters of the two threads go together: while the worker is
not waiting, the page is idle or about to notify, and while it waits exactly one of its
message, the page's hand or the page's flush carries the turn. `TurnInv` ties the turn to
the call: no reply has been made before the first answer, and `More` is asked only when
bytes remain. `ByteInv` says that the bytes delivered, those staged in the buffer and the
page's tail are together the encoded reply, so that the last piece completes it. The
refinement of `Rpc` follows from the same invariant.

**Guest.** A late answer is the hard case: what a command prints after its deadline arrives in
front of, or inside, what the next one prints. `GInv` therefore speaks of the *line*, what has
arrived and what is still on its way as one sequence. `QueueInv` and `ShellInv` say that the page and the shell
take the calls in the order they were made, the shell however late. `LineInv` says that the
line holds only what those commands can have printed, call after call and part after part; that
output follows a first marker; and that behind a last marker comes the first digit of that call's own
status, unless the kernel's console broke in, and that a zero stands alone. The lemmas `Splice...`
show that the console may break in between any two tokens without disturbing this. `VerdictRead`
and `OutputRead` then say what `parseReply` makes of any such line. `ExactWhenQuiet` needs more: not what
precedes what, but the whole of the line. `QuietInv` says that while the console keeps quiet the
answer to the call in flight stands at the end of the line, token by token, as much as the shell has
printed of it (`AnswerInv`), and that what has arrived of a call still in flight is no reply yet
(`ReadInv`). `ExactRead` and `ReadWhole` are what `parseReply` makes of that. `ImplementsCalls` maps the
queue, the call in flight and the outcomes to `ShellCalls`: every step is one of its steps or stutters.

**Host.** `TIInv` says that a requester has at most one command on the guest's chain or in flight, that it is
the next one of the script of its request, and that an answered request has none. That holds
for any number of writers. For the files `FIInv` adds, of the one writer, what the scratch files
hold before the k-th command of its script (`Progress`), and what can be left in the shell's input of a
write that was given up (`InputInv`): of those, only a `clear` can be followed by another write,
so a late `copy` copies a whole text.

**Harness.** `Shape` has the types. `PlaceInv`: a cell is on its way to the worker, in its hands, answered or settled, and
never two of these. `AnswerInv`: what is in the outbox or settled is an answer to its own cell. `GuestInv`: a visit asks
for at most one comparison, of the recipe that is next, and the guest has run the checks and
nothing else while it is pending. `CarriedInv` and `ResultInv`: what sessionStorage carries and what is reported are the
comparisons of the first recipes in order, on one build each unless a comparison was abandoned.

**Tracing.** A routine is a list of operations, and the invariant says what holds with n of them left
(`SetupAt`, `BodyAt`, `FinallyAt`): tracing is off at every place where the tracer is changed, the
buffer has been emptied before the window opens, the options that only `function_graph` has
are written while it is selected. `TracingInv` and three properties hold wherever an
operation fails. `PutBack` and `SwitchedOff` need `PutBackAt` too, what the clean-up has put back with n
operations left, and assume `CoveredFaults`: no operation of the clean-up fails and, on the guest, none of
the setup, which is before the `try`. `tracing_setup` shows what happens otherwise.

**Recorder.** A prompt, mark B, is the last thing the terminal has printed, and while it is, the shell
has read everything typed (`PromptInv`); the commands run in the order they are sent (`TurnInv`). So when
the recorder sees it, all of the last command has been read. The theorems
say what holds as long as no wait ended early (`orderly`); the types hold whatever happened.
What the session is cut into follows from `CInv`, which speaks of all the terminal printed, read or not
(`Whole`): at every place of it the steps are those of the first n commands (`StepsInv`), a mark D ends a step
whose line was typed behind its prompt (`Sane`), and the last place is where the shell is (`EndInv`):
nothing begun, a prompt just drawn, or a line, its mark C and the output so far. What was read is a
beginning of that, but for replaced characters: with these put back (`Read`) it is cut alike (`Agree`), and so is
the recording as it is (`CutsRestored`). `Cuts` and `Shown` are recursive functions; that there are such
functions, and that two texts that begin alike are cut alike, is proved from a least counterexample
(`WFMin`), which needs no operator to instantiate.

**FunctionGraph.** `FInv` says, while the text lasts and of a processor that kept its task: the reader's
stack is the task's stack of calls without the `Lost` ones made before the trace began, each frame at
its call's depth (`StackInv`); what is open is nested and on its own processor (`OpenInv`); a task that
is in a printed call is the one running there (`CallInv`); and a frame has returned exactly when it is open no longer (`ReturnInv`).
The processors' interleaving enters only through `OpenInv`: a line of one processor leaves the frames
of the others alone. `WalkInOrder` holds even of a processor that changed its task, so it has an invariant of its
own: `NestInv` says that a frame's parent is an earlier one of its processor, and that what that processor opened
between a frame and a frame under the same or an outer parent is inside the first (`Nested`). `Right`
says what the walk below a frame is, all of what is under it, in order, and nothing that comes after. It is
proved from the last frame up: the walk of a frame joins the walks of its children (`Joined`), which are later frames.
That the recursive `Walk` and the sorted list of children exist is again a least counterexample.

**Comparing.** The tapes of the desk are sequences of frames (`TapesOfFrames`), and that is all its steps have
to say; the rest is about what `diff` computes of two such tapes. Each level has a loop of its own, so a lemma for
each says when it finds nothing: at `exact` when all that is looked at agrees frame by frame (`ExactIs`), at `sequence`
when depths, names and the names of the frames that are not complete do (`SequenceIs`), at `counters` and `set` when
the names do, with and without how often (`CountersAre`, `SetIs`). The chain is between those four conditions, and
cutting a list leaves something of it (`CutIs`). Under them are three facts about operators: a finite set of places
can be put in order; what `Policy.keep` leaves are frames of the tape (`KeepIs`); the sum of the times is a
whole number (`OwnIs`). The last two are folds, functions chosen by an equation: that a solution exists is
`FoldExists`, and what any solution gives is `AllSubsets`, an induction over finite sets by their size.

**Publishing.** What was built, fetched or recorded before does not matter to `PassedIsBuilt`, and that is the
argument: whatever is on disk (`PublishingTypes` says only of what form it is), a check that finds nothing
has compared it with what a build would make now. Each part has a lemma that says so of every such state.
`LessonHolds`: two files that agree with the builder's cells cell by cell are the two files it would write. `LintHolds`:
a notebook without findings has the cells the lint asks for, in order. `EmulatorHolds`: a directory that verifies
has the files of the pin and no member is taken for one fetched alone. `SiteHolds`: a site that passes has the
navigation of the sources, and if its last build ran to its end (`KnownSite`: the site is then what that build made) the
pages of it are those its navigation names, but for blueprints not named for their files. `BaselineHolds`: a comparison without findings leaves a survey that adds up and writes the same
baseline, unless a reader keeps no account any more. The actions then only have to keep the form
(`PublishingStep`), also where a build or a download is cut off.

**Citing.** The file of citations is rewritten line by line, so what is true of an entry depends on where
the next one begins. `CitingTypes` says that the file is always whole entries, one behind the other, each beginning
with its id (`Files`, the least set of such), and that no two have the same id. Reading, rewriting and
confirming are folds over the lines. `FileReread` says what reading a file makes of an entry
appended to it, `FileRewritten` and `FileConfirmed` that rewriting the entry of one id changes that entry, its
own line, context and confirmation, and no other. `DriftIsRead` follows step by step. `FaultlessIsSupported` is
about one state: what the list of problems would contain were a claim not supported.

`Workbench` takes the steps of its desks as they are and they share no variable, so
`ComparingSpec`, `PublishingSpec` and `CitingSpec` are what the run explores at those desks.

Assumptions on the constants, which TLC evaluates in the runs, and why the code justifies them:

* `ChannelAssumption`, `ReplyAssumption`: sizes are positive, a reply is neither of the two
  values that stand for no answer and a garbled one.
* `GuestAssumption`: a status printed by `$?` is a number without leading zeros.
* `HostAssumption`, `NoneAssumption`: only a requester writes, a text has finitely many pieces. `OneWriter` is
  the hypothesis of two theorems and is argued above.
* `RecipesAssumption`: the recipes of the teaching profile are named differently
  (`kxbox/__main__.py:38` refuses one listed twice), there is one at least, and none is called
  like the checks.
* `TracingAssumption`, `RecorderAssumption`, `SizesAssumption`: types. `EnoughTasks`: no task runs on two
  processors at once.
* `FramesAssumption`: the time a frame ran itself is a whole number of thousandths of a microsecond, as the kernel prints it.
* `CellsAssumption`: calls are known only of a cell that parses. `PinAssumption`: no file of the emulator is both
  in the tarball and fetched on its own, as in `vendor.toml`. `SiteAssumption`: the blueprints and the lessons
  are finite sequences; nothing is assumed of their names.
  `SurveysAssumption`: the corpus is read in the order of its paths, an account has its three counts.
* `EntriesAssumption`: an entry begins with its only id and has a line and a confirmation to be written over,
  as every entry of the repository does. `ClaimsAssumption`, `SourcesAssumption`: types.
* `WidthAssumption`, `PiecesAssumption` and `TextsAssumption` belong to desks and no proof uses them; the last two
  say that the texts of a run are made of lines the readers' patterns tell apart.

Model-checked only, and why:

* Liveness (`EveryCallReturns`, `EveryCallSettles`, `EveryRequestAnswered`, `RecordingEnds`,
  `EveryVisitEnds`): it needs ENABLED.
* `WrittenIsRead` and `HolesAreUncovered`: `Btf` follows types with RECURSIVE operators, to any depth, and what
  they compute is an induction over the types. `Workbench` reaches `Btf`, so the proofs extend single desks.
* `SameUpToNames` is about what the rules of `Normalize` compute, one rewriting after another, and
  `NothingMisplaced`, `StepsAreWhatWasTyped` and `GeneratedIsCurrent` about what a reader, a cutter and a
  generator with a loop apiece make of a whole text: inductions over data, of many functions.
  `EveryLineAccounted` adds up what eleven such loops count.
* `ReadersPass`: eleven graders, each with its own reading of the evidence.

## Plan

1. Done: the core (`Channel` with `Rpc`, `Guest` with `ShellCalls`, `Host`, `Tracing`, `Recorder`), the
   harness, the function_graph reader, and the desks.
2. Done: for each of the seven state machines the inductive invariant, its type invariant in it, and the
   properties that follow from it.
3. Done: the desks `Comparing` (the levels), `Publishing` and `Citing`, whose properties relate what several
   steps left behind, some of which were cut off.
4. Left: the other desks, which TLC checks. `EveryLineAccounted` would come first: each reader's loop is a fold,
   and `DeskProofs` has what a proof about a fold needs.

## Not modelled

Rendering (`kxwidgets` but for the gate, `kxshapes`, `kxdraw`, `kxmanim`, the pages of the
site and the reports the readers print): the output is text and pictures whose correctness is
their wording and layout. The text of lessons and blueprints. Build scripts of the kernel and the
root file system, and the boot script: no state of their own. `kxbox.js`: it is `Channel`'s `Call`. Fetching over the network, but for
its outcomes. `colab.py`, `vocabulary.py`, `layout.py` and the command lines of the tools: paths,
options and exit codes. v86, Pyodide, bash and the browser are external; what the models
assume of them is in actions marked external in `PROJECT.json`.
