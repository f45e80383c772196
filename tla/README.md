# TLA+ models of program-markers

program-markers instruments C and C++ programs with *markers* - calls at the
start of basic blocks (DCE markers), or guarded by a range check on an
expression (VR markers) - and asks a compiler which of them it can eliminate.
A clang tool (C++) inserts the macros of the markers into the source. A Python
library runs the tool and keeps what it returns as an `InstrumentedProgram`, on
which callers then disable, track, refine, preprocess and compile.

This directory holds TLA+ models of that code, TLC configurations that check
them on small instances, and proofs, checked by TLAPS, for instances of every
size. Paths below are relative to the root of the repository; `py/` stands for
`python_src/program_markers/`.

    tlc -workers 2 -config MCInstrumentedProgram.cfg MCInstrumentedProgram.tla
    tlapm InstrumentedProgramProofs.tla

## 1. Inventory

| Component | Source | State it keeps | Operations | Modelled by |
|---|---|---|---|---|
| Instrumented programs | `py/iprogram.py` | `markers`, `directive_emitters`, `marker_strategy`, `code`, all frozen | 13 that return a new program or an answer | `InstrumentedProgram`, `SiteLifecycle` |
| Markers, emitters | `py/markers.py` | frozen values | emit directives, parse tracked output | `Markers` |
| Runtime tracking code | `py/markers.py` 380-520 (emitted C) | globals of the instrumented process | record a value, print at exit | `TrackingCode`, `TrackedRanges`; its types: `ValueRanges` |
| Renaming | `py/iprogram.py` `rename_markers` | a counter, a replacement table | one loop over programs, one over replacements | `MarkerRenaming`, `RenamingHistory` |
| Instrumenting | `py/instrumenter.py` | locals of `instrument_program` | up to two runs of the tool, renumbering | `Instrumenter` |
| Clang tool: marker edits | `src/DCEInstrumenter.cpp`, `src/ValueRangeInstrumenter.cpp`, `src/ASTEdits.cpp` | marker counter, edits per file, replacements | collect edits, declare markers, apply edits backwards | `MarkerEdits`, `StatementTrees`; its output: `Instrumenter` |
| Clang tool: matchers, selectors | `src/Matchers.cpp`, `src/RangeSelectors.cpp` | none | predicates on the syntax tree, source ranges | ranges: `StatementTrees` |
| Clang tool: main, options | `src/tool/ProgramMarkers.cpp`, `src/CommandLine.cpp` | option values | parse, call the above | no |
| Detection strategies | `py/markers.py` 560 on | none | emit a statement, find it in assembly | `Detection` |
| Program files, JSON | `py/iprogram.py` 134-184, `to_json_dict*` | three files | write, read | `ProgramFiles` |
| Build, packaging, tests | `CMakeLists.txt`, `setup.py.in`, `test/`, `python_src/test/` | - | - | no |

`PROJECT.json` repeats this list with the reason for each gap, and maps every
definition to the lines it stands for.

**How they interact.** Everything is a synchronous call. `instrument_program`
starts the clang tool as a process, once or twice, reads the rewritten source
and the list of marker names from its output, and builds an
`InstrumentedProgram` in which every marker is enabled. Each later operation
takes the program and returns another one; a compiler or the compiled program
itself is run in between, and what it prints is parsed back into markers.
`rename_markers` works on a list of programs. The only shared state is what
these values repeat of each other: the id of a marker in the text of the code,
in `markers`, in the keys of `directive_emitters` and in the handles the caller
keeps; the detection strategy in the program and in every `EnableEmitter`.

**What is hard.** The library itself is synchronous: it has no thread, no callback
and no retry. What it makes is used by others at the same time: the instrumented
program forks and starts threads that run the emitted C code, and the files of a
program are read by compilers, reducers and other processes while it is saved. The difficulties are:

* *Long sequences of legal calls* on values that repeat each other. An operation
  that updates one copy and not the other goes unnoticed until a query two calls
  later, and then as a wrong answer - a live marker reported as eliminated -
  not as an error.
* *Stale handles.* A refinement changes a marker's bounds and so its identity (a
  frozen dataclass); the caller's collection still holds the old one.
* *Text replaced step by step*, where one replacement can produce what a later one
  looks for: in `rename_markers`, in `instrument_program` and in the clang tool.
* *Arbitrary environments*: a program that forks prints its tracked range once per
  process, unless it is killed; the compiler may or may not eliminate what it is entitled to.
* *Interleavings*: emitted C code that tests and sets globals; three files that are written and read
  one after the other.
* *Partial failure*: a save that fails, or whose process dies, between any two of its steps.
* *Numbers*: two id spaces merged into one, a counter that starts at a length, ids as parts of integers of
  limited width, bounds as C constants whose type depends on their size.

`PROJECT.json` lists every hazard at its line, with the properties that cover it or
the reason why none does.

**What makes each component correct.**

* Instrumented programs: the copies agree; retirement is final; verdicts never call
  reachable code dead; refined ranges cover the run; answers name usable markers.
* Renaming: ids unique across programs; each site has its marker's new name.
* Instrumenting: every marker of the result stands at exactly one place; ids are
  0 to n-1.
* Edits: the text after all edits is the one nested insertion would give; the markers in it
  are those the tool declares.
* Tracking: a refined range is the span of the values met by the processes that exit; no value changes on its way
  into the guard, and the guard fires outside of the range only.
* Strategies: the search finds exactly the markers the compiler kept, for every id that is used.
* Files: what is read has a marker for every macro, whenever and wherever a save stopped; a compiler that found whole
  directives has one for every macro it meets; reading what was written, and left alone, gives back the program.

## 2. Modules

### Markers

A marker is a record of its id and its bounds; names, macros and C types are
determined by kind and id and are left out. `Fires(m, v)` is the guard that
`marker_statement_prefix` puts in front of the marker's statement. An emitter is a
record of its kind, with its strategy if it is an `EnableEmitter`.
`TrackedLine` is the line a process prints when it exits and `ParseTrackedOutput`
what `VRMarker.parse_tracked_output_for_refinement` makes of all of them.

### InstrumentedProgram

The variables are the fields of the program the caller goes on with. Since
the dataclass is frozen, an operation replaces the fields or raises, and after a
raise the caller still has what it had: `Replace` is `dataclasses.replace`
with the assertions of `__post_init__`, `Raise` is everything else. `answer`
is what the last call returned.

The code is abstracted to its *sites*, one per id. A site outside
`DOMAIN code` still holds the macro, and what it means is decided by the emitter in
force; one inside has been expanded by preprocessing and holds the emitter and the
marker of that moment.

| Action | Method |
|---|---|
| `disable_markers`, `make_markers_unreachable`, `make_markers_aborted`, `disable_remaining_markers` | the same |
| `replace_markers`, `with_marker_strategy` | the same |
| `generate_tracking_program`, `generate_tracking_program_for_refinement` | the same |
| `preprocess_disabled_and_unreachable_markers` | the same: temporary `NoEmitter`s, preprocessor, new emitters, in one step |
| `track_reachable_markers(run)` | the same, the compilation, the run and the parsing in one step |
| `refine_markers_with_runtime_information(run)` | the same, `process_tracked_output_for_refinement` and the inner `replace_markers` included |
| `Compile` | `find_eliminated_markers` and, within it, `find_non_eliminated_markers`, with what the compiler eliminates chosen freely within its rights |

Arguments are any collections of markers one can construct for the program's ids:
current ones, stale ones, two versions of one marker.

Assumed of the environment, and external in the map: preprocessing
expands exactly the macros that have a directive; a compiler keeps the call of each
site that some defined run fires (`MayEliminate`), and may or may not
keep others; a run that reaches a site that aborts, or one that was declared
unreachable, has no defined outcome, so no answer is computed from one (`Completes`).

### SiteLifecycle

The abstract specification of a site: live, then retired once, in one way, for good; its
range can change until its expansion is part of the code, and from then on nothing can.
`InstrumentedProgram` implements it under the mapping at the end of that module:
the status of a site is the kind of emitter in force there, its range is the
range of the marker in force, and it is committed when its macro is gone. The
mapping reads emitters, markers and code, so an operation that changes one of them
without the others is not a step of `SiteLifecycle`.

### MarkerRenaming

`rename_markers` with the loop over programs (`collect_markers`, `finish_program`)
and the loop over replacements (`replace_next`) as steps. Code is a function
from sites to macros, and a replacement rewrites *every* site with the old
macro, those an earlier replacement produced included: this is what `str.replace`
does, and where it can go wrong. Inputs are lists of programs with unique ids
(`__post_init__`) in any order, with any gaps, and with a macro at several sites.

### Instrumenter

`instrument_program` in its three modes. A run of the clang tool inserts `k`
macros at different free places and prints their names between two comment lines, or
prints nothing if there are none; where and how many is a free choice. In mode
`DCE_AND_VR` the two runs number their markers separately; `renumber` shifts the DCE
ids and removes the temporary directives, and `replace_next` replaces
the *first occurrence* of each old macro. When the first DCE id shifts onto a later
DCE id, that macro stands at two places for a while, the new one possibly first.

### MarkerEdits

The clang tool on one file, in two phases. While clang matches, `run_edit` is one turn of the loop in
`RuleActionEditCollector::run`: it appends a replacement, and an edit that places a marker takes the
file's next number. `next_match` is the next call of `run`. Then `applyReplacements` declares the markers
(`print_markers`) and takes the vector from its end (`add_replacement`).

A replacement inserts one of five texts at an offset of the *original* file. What matters, and what the
module keeps, is which replacements meet at one offset and in which order their texts come out:
`inserted` is a sequence of replacements for every offset. `Replacements::add` refuses an insertion
where there is another text, unless their order makes no difference; the code then computes the
offset *shifted* by everything inserted so far and merges there, which puts the text behind what is
already at the offset. This is clang's, and modelled by that effect. The edits of the rules
(`handleIfStmt`, `handleDoWhile`, ...) are operators of the same names on a match, which holds the offsets the
range selectors give.

The files are a constant. `SourcesAssumption` says what a file is: matches that are well placed in the statement
they were found in, a statement's matches never after those of the statements inside it. That
is how clang walks a tree.

### StatementTrees

Statements as trees, for TLC: the text of a tree, the matches that clang reports in it for the rules
of the DCE instrumenter (`DCEMatches`) and for the value-range rule (`VRMatches`), in clang's order (all children
of a statement, then the children of the first of them), and the reference: `WithDCE` and `WithVR` define the instrumented text
from the inside out. Offsets count tokens as if there were no white space between them, so that
texts meet as often as they can.

An `if` that is followed by an `else` has no `if` without `else` at the end of its first branch (`OpenIf`): such text
is a different tree.

### TrackingCode and TrackedRanges

`TrackingCode` is the C code of `TrackingForRefinementEmitter`. Each of its statements that reads or writes a global is an
action: `call` tests `<name>_ENCOUNTERED`, `first_lb`, `first_ub` and `first_encountered` are the branch of the first value,
`test_lb`, `set_lb`, `test_ub` and `set_ub` the other one, `print` is the destructor. Threads of a process share its globals, `fork`
copies them, and the child has the thread that forked only; `exit` is the return from `main`, `kill` anything that ends a process without its
destructors (a signal, `abort`, `_exit`, `exec`). `refine` is the Python side, when no process holds the pipe
open any more: the least of the lower and the greatest of the upper bounds. If that leaves them in the wrong order, `VRMarker.__post_init__` raises
and no marker is made; several threads can get there, one cannot. `run_raises` is a call of the library that fails: a timeout, if the caller has set one (the default
is `None`), kills the process that was started, or the run is taken for a failure; in either case `output.run` raises, `process_tracked_output_for_refinement`
is not reached, and what other processes have printed is not refined (`py/iprogram.py` 473-476).

Threads interleave statement by statement. In C, the race they run into is undefined behaviour; what the model allows them is the
mildest of what a compiler may make of it, and enough to lose a value (below, Limits). The emitted code has no lock, so it is up to the program
to prevent this. `takes_turns`, which is chosen in `Init` and stays, says whether it does: such a program calls the function, forks and exits only while no other thread
of the process is in a call (`InTurn`). A program without threads is one of them. Both kinds are in every run and theorem about `Spec`.

`TrackedRanges` is what that promises: a process remembers the *set* of values it met, prints their span when it exits, and
the marker gets the span of what was printed. Of a program that does not take turns it promises less: a process prints any range of values of the type, or nothing, and
the marker gets the span of these. `TrackingCode` implements it with one variable substituted: a process
that is exiting has not exited for `TrackedRanges` until it has printed.

### ValueRanges

The numbers of one VR marker on their way around: the type of the variable (`declared`) becomes, by `convert_variable_type`
and the tables of `TrackingForRefinementEmitter`, the type of the globals (`TrackedType`) and of the argument of `printf`
(`format_specifier`); what is printed becomes Python integers, which become decimal constants of the guard
(`Bound`), and `marker_statement_prefix` is the guard as C evaluates it, with integer promotion and the usual arithmetic
conversions. `evaluate` is control reaching the site, `track` control reaching it in a program that tracks, `refine`
the end of a run. A type is the greatest value of the signed type of its width, and its sign; `CharMax` to `LongLongMax` are constants, of which
`MaximaAssumption` says that they are in the order C has them and that a greater one is greater by a bit at least. A plain `char` is signed or
not (`CharSigned`). `BigLiteral` is the type of a constant that no `long long` can hold, in which compilers differ: gcc takes `__int128` if it
exists, clang takes `unsigned long long` and warns.

### RenamingHistory

`MarkerRenaming` assumes its inputs. `RenamingHistory` extends it with where they come from: `instrument_program` adds a program in
one of its modes, `retire_markers`, `preprocess_disabled_and_unreachable_markers` and `replace_markers` change the last one, and
`rename_markers` is the call that starts the loops of `MarkerRenaming`. What counts for renaming is the tuple: its order and its
gaps. `replace_markers` puts the new markers behind the others; preprocessing keeps the order and
leaves gaps. `vr_first`, `removed` and `reordered` record the history the properties speak of and steer nothing.

### Detection

What the macro of an enabled marker leaves in the assembly under a strategy (`LineOf`): a line with the marker's name - a call, or a comment -
or a `movl` of the magic integer `1234123<id>` (`MagicInt`, by powers of the base), converted to an `int` by the compiler (`Stored`). `compile` keeps any of them and mixes them with lines
that do not come from markers; `search_line` is the body of the loop over the lines, with the look-up of the id found. Strategies and the set
of enabled markers may change between compilations. The pattern of a strategy is what tells lines apart; regular expressions are abstracted
to the kind of line and the id.

### ProgramFiles

`to_file` as the sequence of its system calls: opening a file for writing empties it, the write follows. `fail` is an exception in any of them, after which the caller
still has the program; `crash` the end of the process, wherever it is. While a file is open, any part of what is written may be in it (`flush_code`, `flush_directives`), and when its writer
stops it stays like that. Part of the code is code, and part of the directives is a header like any other: no reader refuses them. JSON data are complete
or break off (`Cut`), and `json.load` refuses what breaks off. `from_source_file` is two steps, `load_json` and `load_code`, taken by the owner after a crash and by other processes at
any time. A compilation reads the directives, whatever is there (`compile_directives`), then the code (`compile_code`); `reduce` is a reducer that shortens
the code in place. Between saves, the owner disables markers and preprocesses, so that files of different age are files of
different programs.

Code is the set of markers whose macros are in it, directives are the set of markers that have one. `whole` and `kept` are history variables, on which no
step of the program depends. `whole` says that the directives are all that `to_file` wrote last, rather than a part of it. `kept` is the program the three files are sure to hold, if nothing
has been written since `to_file` returned.

### Module structure

`InstrumentedProgram` extends `Markers` and instantiates `SiteLifecycle`; `TrackingCode` instantiates `TrackedRanges`; `StatementTrees` extends `MarkerEdits`, `RenamingHistory` extends `MarkerRenaming`. The
other components meet in their data, and each module says what it takes from its neighbours. The `MC*`
modules extend the module they instantiate and only define constants, but for `MCRenamingHistory`, whose specification
starts from programs with a history or from given ones. The `*Proofs`
modules hold theorems. Definitions marked "Seeded fault" are wrong versions
of the definition that follows them; no specification uses them. They document, for
every property, a plausible mistake that it would catch (`PROJECT.json`, "mutants").

## 3. Runs

| Run | Configuration | Shows |
|---|---|---|
| `program` | `MCInstrumentedProgram.cfg` | `TypeOK`, `Consistent`, `VerdictsSound`, `RefinementCoversRun`, `AnswersAreUsable`, `Irrevocable` and the refinement `LifecycleSpec` hold for every sequence of operations |
| `find_tracked` | `MCInstrumentedProgramFind.cfg` | finding 1 |
| `rename` | `MCRenamingHistory.cfg` | `UniqueIffNotTaken` and `FollowIffOrderSafe` hold for every list of programs, `UniqueIfFirstComplete` and `FollowIfFewRemoved` for every history of programs in the bounds |
| `rename_combined` | `MCMarkerRenamingCombined.cfg` | finding 2 |
| `rename_sparse` | `MCMarkerRenamingSparse.cfg` | finding 3 |
| `instrument` | `MCInstrumenter.cfg` | `OnePlacePerMarker` and `IdsContiguous` hold in all modes and for all numberings |
| `edits` | `MCMarkerEdits.cfg` | `InnerFirst`, `MarkersDeclared` and `InstrumentedAsNested` hold for every statement in the bounds and both instrumenters |
| `tracking` | `MCTrackingCode.cfg` | `TypeOK`, `RefinedFromEncountered`, `BoundsEncountered`, the refinement `TrackedRangesSpec` and, under fairness, `EncounteredIsRefined` hold for processes of two threads, which race or take turns |
| `value_ranges` | `MCValueRanges.cfg` | `DeadInRange` and `RefinedToSpan` hold for thirteen types, with a compiler whose constants can be wider than `long long` |
| `detect` | `MCDetection.cfg` | `FindsNonEliminated` holds for ids whose magic integers fit |
| `detect_large_ids` | `MCDetectionLargeIds.cfg` | finding 4 |
| `files` | `MCProgramFiles.cfg` | `LoadedMarkersCover`, `MacrosDefined` and `Reparsed` hold with failures, crashes, a reader, a compiler and a reducer |

**Properties of `program`.** `Consistent`: the two tables list the same markers with
unique ids, the macros left in the code are those of the markers, every enabled marker
is emitted for the program's strategy. `VerdictsSound`: `find_eliminated_markers` calls
no enabled marker dead that some input reaches, and judges each one. `RefinementCoversRun`:
after a refinement, the run it came from reaches no enabled VR marker and both bounds are values of
that run. `AnswersAreUsable`: what is alive, reached or refined is enabled
in the program the caller holds. `Irrevocable`: retirement is final and expanded code is
never touched again.

**Properties of `edits`.** `InnerFirst`: at every offset, at every moment, the text of an inner statement stands
before that of the statements around it, and texts of one statement meet only as `}` before a new
`else` and as the `{` of a `do` before its marker. `MarkersDeclared`: the numbers in the finished text are the declared ones, each in
one place. `InstrumentedAsNested`: the finished text is the reference's: every body is a block that begins with
its marker and every `if` has an `else` (DCE), every statement follows its range checks (VR). It is
the property that says why `InnerFirst` is the right order.

**Properties of `tracking` and `value_ranges`.** `RefinedFromEncountered`: no process that exits has met a value outside of the new range, and
both bounds are values such a process met, if threads take turns. A process that is killed does not count: its values are lost. `BoundsEncountered`: both bounds are arguments
of calls of the run, also of one in which threads race; a race can lose a wider bound, but never puts a value there that nothing has met.
`TrackedRangesSpec`: the C functions and the parser do what `TrackedRanges` says, and nothing else. `EncounteredIsRefined`: if threads take turns and every process has left the program's own
code, a value that one of them has met is in a refined range in the end, unless that process is killed or the call of the library raises. `RefinedToSpan`: the bounds a refinement makes are the least and the
greatest value of the run, whatever conversions they went through. `DeadInRange`: the guard fires for exactly the values outside of
the bounds.

**Properties of `rename`.** For programs of any origin, two give the exact condition on the input. `UniqueIffNotTaken`: ids are unique if and only if the first program, which keeps its own, has none that is
handed out to another. `FollowIffOrderSafe`: the sites of a program follow its markers if and only if no new name that is put into its code is the old name of a smaller id; a failure
is never repaired by a later replacement. For programs with a history, two more state conditions on what the caller did. `UniqueIfFirstComplete`: ids are unique if nothing has been
preprocessed away from the *first* program. `FollowIfFewRemoved`: the sites of a program follow its markers if none of its markers
has been replaced by a refined one and the number of markers that are gone from it, or of VR markers that are
numbered before its DCE markers, is at most the number of markers in the programs before it.

**Properties of `detect` and `files`.** `FindsNonEliminated`: the search finds exactly the markers the compiler kept, and never raises. `LoadedMarkersCover`:
what `from_source_file` returns has a marker for every macro in its code, and `MacrosDefined`: a compiler that reads the directives when they are
whole has one for every macro in the code it then reads - both although the files may be of different programs. (The window in which they are not whole is among the Limits.) This depends on the order in which
`to_file` writes and the others read: the code of a program can only lose macros, `to_file` writes it *first*, and everyone else reads it *last*. Hence the
code anyone reads is at least as new as the data they have read, and code that is newer has fewer macros. `Reparsed`: what was saved and left alone is read back as it was.

**Bounds.** *program*: one DCE and one VR marker, three values, two
strategies, three inputs (one of which forks two children), and every collection of at most
two constructible markers as an argument. Operations treat markers one by one and by equality, so a
marker that is in the argument and one that is not, and two versions of one
marker, are the cases there are; three values are what is needed for a range that is
neither empty nor everything and a stale range next to it. The length of the
sequence of operations is not bounded. *rename*: first programs with 0 to 2 markers or
with a gap, second programs with up to three markers with ids up to 3 in any order and of any kinds,
a third program to see the counter go on; a macro at two sites, or at none. A replacement that catches
the result of an earlier one needs two markers, a chain needs three. *instrument*: `Length = 5` places, so up
to five markers; a DCE id shifts onto a later DCE id from two DCE and
one VR marker on. *edits*: functions of one statement, up to three deep, with every kind around every kind, with and without
braces, an `else` or a second case; two variables, so that two range checks meet at one statement. Two replacements meet
only if one statement begins or ends where another does, so two levels show each way of meeting and a third one
shows that a meeting of three keeps the order. *tracking*: two processes, so that a child can inherit a value or not and its parent be
killed or not; two threads, so that a call can meet the middle of another, or begin where another has ended, and a process can lose a thread in a fork; two values, 0, which is what the globals start with, and 1.
A bound is too wide, too narrow, or taken from a global that has not been set: each of the five seeded faults is found with these two, and the theorems are about any set of values. *value_ranges*: 2, 2, 3, 4 and 4 bits for `char`, `short`, `int`, `long` and `long long` (`CharMax = 1` to `LongLongMax = 7`), with every pair of bounds and every value.
The conversions compare widths and signs, so the widths have to be in order and need not be large. *rename*, with a history: two programs of at most three
markers (`MaxPrograms`, `MaxMarkers`), with any history; a chain of replacements needs
two markers, a refinement that is out of order three. *detect*: 9-bit integers in base 4 with one magic digit, in which ids of up to three digits fit (as they
do in 32 bits), 63 being the greatest of them, and stores that only look like magic ones. *files*: two markers, one reader, one compiler;
any number of saves, crashes and reductions. No counter needs a cap: every loop is bounded by its input. The theorems
below remove these bounds.

**Stopping.** `rename_markers`, `instrument_program` and the clang tool return, and a run of an instrumented program is over when its
processes are and its output is read, so these runs are checked with
`CHECK_DEADLOCK FALSE`. So is `files`: after a crash during the first save there may be nothing to load. In `InstrumentedProgram`, `Detection` and `ValueRanges` the
caller can always go on, and deadlock is checked.

**Fairness.** `TrackingCode` states it, in `FairSpec`. A process that is exiting runs its
destructors (`WF` on `print`), as the C library's `exit` does, unless it is killed before; and the Python process goes on when `output.run` has returned (`WF` on `refine`), unless it
has raised. Nothing makes a process call the function, finish a call, fork, exit or be killed: by default there is no timeout, and a program that does not end
keeps the caller waiting. `EncounteredIsRefined` therefore begins where every process has left the program's own code. The other modules
assume no fairness and state no liveness: the library is synchronous, its loops run over finite lists, and whether
a save is repeated after a failure is up to the caller.

### Findings

1. *`find_tracked`*. The docstring of `find_non_eliminated_markers` says that VR markers are
   found by calls of "functions with names starting with a known marker prefix". The pattern
   does not anchor the prefix and also matches `track_VRMarker0_`, which the tracking
   code for refinement calls. On a program that `generate_tracking_program_for_refinement`
   returned, the id that is found belongs to no enabled marker and the lookup raises `KeyError`.
   `VerdictsSound` holds nevertheless: no verdict is given.
2. *`rename_combined`*. `rename_markers` replaces the greatest old id first but hands
   out new ids in the order of the tuple. For the order that mode `DCE_AND_VR` returns (DCE
   markers, which have the greater ids, first) a replacement can produce the old name
   of the next one: two markers' sites end up with one name. `FollowIffOrderSafe` says
   exactly when this happens, and `NumberedProgramsFollow` proves
   that it never does to programs of the other two modes.
3. *`rename_sparse`*. The counter starts at the *number* of markers of the first program. If
   that program's marker 0 has been preprocessed away, its marker 1 and the first
   marker of the second program both get id 1. `UniqueIffNotTaken` says
   exactly when this happens, and by `IdsContiguous` it does not if the first program is fresh.
4. *`detect_large_ids`*. From id 1000 on, `1234123<id>` does not fit an `int`: the compiler stores other bits, the pattern does not match, and
   the marker is reported as eliminated although its store is in the assembly.

### Limits

The conditions of the properties and the hypotheses of the theorems are needed. Where one of them does not hold, the models show the following; the change that makes
TLC show it is in parentheses.

* *Threads* (`SpanOfExited` instead of `RefinedFromEncountered` in `MCTrackingCode.cfg`; `BoundsEncountered` holds). Two threads of a process can both find `<name>_ENCOUNTERED` unset; the second to set the bounds
  overwrites those of the first, and a value the run met is outside of the refined range (`py/markers.py` 408). That threads go on while the destructor reads the globals is not modelled: what they do
  then they do before it in the model, so its three reads see one state.
* *Directives while they are written* (`MacrosDefined` without `defined.whole`). A compiler that reads the directives between `open` and the end of the write
  (`py/iprogram.py` 148-149), or after a failure or crash there, gets an empty or partial header and compiles the code with it, in which other macros then have no directive. Only the next
  save that gets past this point repairs the file. `to_file` gives no guarantee against it, and the properties claim none.
* *Least value of a `long long`* (`BigLiteral <- UnsignedLongLong` in `MCValueRanges.cfg`). A run in which a `long` or `long long` of 64 bits had its least value makes `-9223372036854775808` the lower bound of the guard.
  clang takes the constant for an `unsigned long long`; the comparison is unsigned and false for every value that is not negative, and the
  guard fires for values in the range, against "The marker is dead if `var` in [LowerBound, UpperBound]" (`py/markers.py` 127, 188). `GuardMisfiresExactly` proves
  that this is the only case: the guard fires in error for the values from 0 to the upper bound of such a range, and for no others.
* *Unsigned plain `char`* (`CharSigned = FALSE` in `MCValueRanges.cfg`). The tracking code of a `signed char` has globals of type `char` (`py/instrumenter.py` 38-66). Where
  that is unsigned, as on ARM, -1 is tracked as 255 and the refined range is not that of the run. `CharHolds` excludes it, and is used in `RefinesToSpan` only.
* *Programs that lost markers or were refined* (`SitesFollowMarkers` in `MCRenamingHistory.cfg`, with `Inputs = {}` and `Modes = {"DCE"}` or `{"VR"}`). If more markers of a program have been preprocessed away than there are markers in the programs before
  it, new ids are smaller than old ones, and replacing the greatest old id first is the wrong order. After a refinement that reached some of the markers, the tuple is no longer in
  the order of the ids. In both cases the new macro of one marker is caught by the replacement of another, as in finding 2. `FollowIfFewRemoved` excludes both, and
  `FollowAfterHistory` proves that nothing else needs to be excluded.
* *Paths that change when they are resolved* (`Mentioning = {}` in `MCProgramFiles.cfg`). `to_file` adds the flag that includes the directives with their resolved path, `from_source_file` drops the flags
  with the path as it is given (`py/iprogram.py` 158, 179). If the one is not part of the other - the path has `..` in it, or goes over a symbolic link - the flag
  stays, and the program that is read back is not the one that was saved.
* *Stale handles of markers to keep.* `disable_remaining_markers` subtracts the markers it is given from the enabled ones by equality. A marker that has been
  refined since the caller got it equals none of them and is disabled, where other operations would raise (`py/iprogram.py` 577).

## 4. Proofs

| Theorem | States |
|---|---|
| `InstrumentedProgramProofs!TypeCorrect`, `StaysConsistent`, `SoundVerdicts`, `RefinementCovers`, `UsableAnswers` | the five invariants of `program` |
| `InstrumentedProgramProofs!IrrevocableSteps` | `Irrevocable` |
| `InstrumentedProgramProofs!ImplementsLifecycle` | `Spec => LifecycleSpec`: the refinement |
| `RenamingProofs!UniqueRenaming`, `FollowingSites` | the two equivalences of `rename`, for programs of any origin |
| `RenamingProofs!NumberedProgramsFollow` | programs numbered in the order of their tuple are always renamed correctly |
| `InstrumenterProofs!OnePlace`, `Contiguous` | the two invariants of `instrument` |
| `InstrumenterProofs!ReturnedOrder` | the tuple of markers that each mode returns |
| `MarkerEditsProofs!NestingOrder`, `DeclaredOnce` | `InnerFirst` and `MarkersDeclared` |
| `MarkerEditsProofs!OrderOfApplication` | applying the replacements one by one from the last to the first gives what inserting all of them at their original offsets at once would |
| `TrackingCodeProofs!TypeCorrect`, `RefinedSound` | two invariants of `tracking` |
| `TrackingCodeProofs!ImplementsTrackedRanges` | `Spec => TrackedRangesSpec`: the refinement |
| `TrackingCodeProofs!OneThreadSound` | `SpanOfExited` for processes with one thread, with no assumption on turns |
| `TrackingCodeProofs!BoundsSound` | `BoundsEncountered`, however threads interleave |
| `ValueRangesProofs!RefinesToSpan`, `GuardIsDeadInRange` | the two invariants of `value_ranges`, for types of any widths |
| `ValueRangesProofs!GuardMisfiresExactly` | for which values the guard is wrong, for any compiler |
| `RenamingProofs!UniqueAfterHistory`, `FollowAfterHistory` | the other two of `rename`, for programs with a history |
| `DetectionProofs!FindsWhatFits` | `FindsNonEliminated`, if the magic integers fit an `int` |
| `DetectionProofs!NoFittingMissed` | a search that ends has found every survivor whose own magic integer fits, whatever the others are |
| `ProgramFilesProofs!LoadedCover`, `DefinedMacros`, `ReparsedPrograms` | the three properties of `files` |

**Assumptions.** `IdsAssumption` (ids are natural numbers, an id names one marker),
`ValuesAssumption` (a non-empty set of values of a C type has a least and a greatest
element; 0 is a value), `StrategiesAssumption`, `RunsAssumption`
(a run has at least one process), `ArgumentsAssumption`, `InputsAssumption` (what
`__post_init__` guarantees), `LengthAssumption`, `SourcesAssumption` (above), `ProcessesAssumption`, `HistoryAssumption` (bounds are natural
numbers), `NumbersAssumption` (likewise, and a base is at least 2), `MaximaAssumption` (above), `TypesAssumption` (the declared types are C's, and a constant beyond
`long long` gets a type that holds every `unsigned long long`). Some theorems have hypotheses of their own, without which they are false
(finding 4, Limits): `IdsFit`, `CharHolds`, `BigLiteral.signed`, `IncludeFlag \in Mentioning` and that no flag of the user's is. `FindsWhatFits` also takes it that no
other line looks like a marker's (`OthersDiffer`). `BoundsSound`, `GuardMisfiresExactly` and `NoFittingMissed` say what remains without `takes_turns`, `BigLiteral.signed` and `IdsFit`. Sets of ids, values, runs, programs and
places may be of any size, and the sets of ids, runs and processes infinite.

**Instrumented programs.** `TypeOK` is not inductive by itself: that the refined bounds
are in order needs the run to be non-empty at the site; that `with_marker_strategy` and preprocessing
find an emitter for each marker needs `DOMAIN directive_emitters = markers`. The
invariant is `TypeOK /\ Consistent`. It is preserved operation by operation; most
operations go through one lemma on `Replace`, so that each proof is about the new
tables only. Of the answers' properties, `VerdictsSound` follows because
the detected ids are, by the agreement of strategies in `Consistent`, exactly those of the
survivors: this is where a stale copy of the strategy would break the proof.
`RefinementCoversRun` needs that the least and greatest of the lines' bounds are those of
the union of what the processes saw. The refinement adds to the invariant that
every expanded site holds a retired emitter (`CommittedRetired`), without which
`Commit` could let a live site in; each operation is then shown to map to `Retire`,
`Rebound`, `Commit` or a stutter.

**Renaming.** For the programs done, the invariant says that their ids lie between the number of markers of the first program and `Bound`
(`IdsBetween`), that no two renamed programs share one (`RenamedUnique`) and that no id in between is unused (`AllInUse`). The first two give uniqueness if the first program has none
of these ids, the third gives the collision if it has (`UniqueIffFree`). For the program being renamed, `CodeInv` says of each site whose old
macro has been replaced that it holds the new one *exactly if* that is not the old name of a marker replaced since. One direction needs that
the names replaced are those with the greatest ids; the other one that a site which has lost its macro does not get it back, because no two
markers get one new name (`ReplacementsInjective`).

**Instrumenting.** While macros are replaced one by one, DCE macros with old and new ids mix, and some
stand at two places. The invariant says that there *is* a set `R` of places, those already replaced,
such that on `R` the macros carry the new ids `l .. l+i-1`, each once, outside `R` the old
ids `i .. k-1`, each once, with `l` VR markers, `k` DCE markers and `i` replacements done. The proof step picks the first place
of macro `i` and shows that `R` can be extended: if that place is in `R` (it got `i` as a
new id), the two places of macro `i` swap their roles. This is the reason why replacing first occurrences in
ascending order is right although the occurrence that is replaced may be the wrong one: which marker stands
where changes, that each stands somewhere does not. `ReturnedOrder` reads the order of the returned tuple off the same invariant: DCE markers first, numbered after the VR markers. It is `MarkersOf`,
with which `RenamingHistory` begins the history of a program, and what `FollowAfterHistory` and finding 2 depend on.

**Edits.** The invariant says that the vector of replacements is in the order of the matches and, for
one match, of its edits (`Collected`), that every number below the counter has been given to one
replacement (`Numbered`), and that the replacements taken from the end stand at their offsets in descending order
(`Applied`). So of two replacements at one offset the one in front was collected later. Either its match came
later, and by `SourcesAssumption` its statement does not enclose the other; or they come from one match, and the
lemma `MatchEdits` goes through the rules to show that two edits of a match meet only in the two ways
`InnerFirst` allows. Once nothing is left to apply, `Applied` lists at each offset all its replacements, descending: `OrderOfApplication`.
That clang's `add` puts a text behind what stands at its offset already is modelled, not proved (above).

**Tracking.** The invariant says that while no thread of a process is in a call, and when the process exits, the globals are the span of the values
whose calls have returned (`Settled`); that otherwise one thread is, and, for each statement it can be at, what has been done to the bounds so far (`RunningOK`, `CallOK`, `LowerDone`); and
that the lines printed are exactly the spans of the processes that have exited (`LinesOK`). It needs threads that take turns, or one thread (`TurnsTaken`): a second one would call, fork or exit in a state that
is not `Settled`. `TurnsTaken` never changes, so `TurnsTaken => IInv` is inductive (`TurnsInv`). The span of these spans is that of the union, which gives `RefinedFromEncountered`.
In the refinement, the call takes effect in the step that returns, all others but `fork`, `kill`, `print`, `run_raises` and `refine` stutter. Where threads race, that a line has values of the type is all the refinement needs, and types give it.

With any number of threads, `Settled` is replaced by less (`ThreadsInv`): once `<name>_ENCOUNTERED` is set, both globals hold arguments of calls of the run, and behind
`first_lb` and `first_ub` the one of them that has just been set does, whoever sets it again in between. A fork in such a moment hands its child globals whose values the run
has encountered, but not necessarily the child: this is why `Encountered` is over all processes.

**Value ranges.** `RangeInv` says that the globals and the bounds of the marker are in order and values of the declared type or, for a `signed char`, of an unsigned `char`
of its width (`Bounds`); that the globals span the values met, and the refined bounds too, if `CharHolds`; and that a verdict is wrong only where `Misfires` says so. The lemmas go the way of a
value: `Convert` is the identity on the values of a type (`ConvertKeeps`); the globals hold every value of the variable (`TrackedValues`) and `printf` prints every value of
the globals (`PrintedValues`), type name by type name; the common type of variable and literal holds both operands (`CommonHolds`), so the comparison is that of the
numbers (`ComparesValues`), except with the least bound of all if its literal is unsigned (`ComparesWrapped`). No powers of two are needed: all there is to know
of two widths is that the wider type has more than twice the values, and `MaximaAssumption` says so.

**Renaming after a history.** A program that has not been reordered keeps its markers, kind by kind, in the order of their ids (`Ordered`), and no id exceeds
the place of its marker in the tuple by more than what was removed or numbered out of order (`Displaced`). The step to prove is preprocessing:
the places of the markers that stay form an ascending sequence, of which a member exceeds its index by at most the number of places left out
(`AscendingBound`, by counting). When `rename_markers` is called, `Displaced` gives order safety, and the invariants of the loops do the rest.

**Detection.** During a search, every marker that survived is either found or its line is still to be read (`SearchInv`); the lemma `Recognised` says that a line
gives back the id it came from, by `StoredFits` and `Numerals`: different ids have different magic integers, not less than the ids. `Numerals` is a fact about positional notation,
and needs induction on the number of digits. The provers cannot use the induction principle of the library, which is about predicates; `SetInduction` is one about sets,
and follows from the well-foundedness of `<` on the natural numbers by the existence of minimal elements (`LeastElement`). From it come that powers grow (`PowerGrows`, `PowerMonotone`)
and that a number has a width (`WidthFits`), on which `Numerals` rests. `NoFittingMissed` needs less of the
invariant: ids that do not fit may be confused, and may end the search with a `KeyError`, but as long as it goes on, no line of a fitting id is skipped (`FittingInv`).

**Files.** The invariant says that every set of markers and every whole set of directives which someone can still use - in a file, in a reader's or a
compiler's memory - covers both the code in the file and the code the owner would write next (`CoverInv`). Every
write keeps it because code only loses macros and is written first; directives are not whole from the moment they are opened, so what is flushed of them need not cover anything. For the round trip, `KeptInv` says that while `kept`
names a program, the files hold it, and that a reader which began then has read its data.

**Only model-checked.** `InstrumentedAsNested`, whose reference is recursive over trees: `StatementTrees` is written with recursive operators, which the proof system does not
read, and what they compute for every tree would need induction over trees; `NestingOrder` proves, of every file, that the order it depends on is kept. `EncounteredIsRefined`, which is liveness under fairness.
And the four findings, which are counterexamples. Every other property of a passing run has a theorem.

## 5. Not modelled

* The text: names, macros, C declarations, the layout of the JSON data. The JSON conversions of the single classes write every
  field and read it back.
* The tracking code of `TrackingEmitter`, which sets a flag once and prints it: its effect is in `Markers`.
  That the name of one marker is never part of another's (`_` ends every
  name) is assumed wherever the code searches for names.
* Search and start of the tool and of the compilers; timeouts and their exceptions, except
  that of the refinement's run (they leave the frozen program as it is); the compiled program's output beyond the lines that are parsed.
* The C type of a VR marker (`__get_vr_macro_type_map`): a lookup with no state. The rows of `convert_variable_type` for spellings the tool, which prints canonical types, never
  produces. Of the strategies' patterns, what they match is modelled in three kinds, not each pattern.
* Files that several processes *save* at the same time, disks that reorder writes, and a reader of JSON data that are complete but
  not those of an instrumented program.
* Matchers, command line, version checks of the clang tool: predicates and glue
  without state; what they select is a free choice of `Instrumenter`.
* In the edits: statements, or parts of them, that come from macros; the extension of a statement's end over a
  trailing comment or semicolon, which moves offsets (whether it changes which of them meet is not modelled); the block of directives
  in front of the file, which lists the same markers as the output does; a file with a parse error, in
  which every match is skipped; several files, which `applyReplacements` refuses; declarations within
  statements, which get no range check.
* Build files, packaging, tests.

## 6. Plan

Every part of the library with state of its own has its module; the proofs follow the modules one by one. What would extend this:

1. Handles: several programs derived from one another in a caller's hands at once. `InstrumentedProgram` follows
   the one the caller goes on with; stale *markers* are in its arguments, stale programs are not.
2. `StatementTrees`: macros, trailing semicolons and comments, and several declarations in one statement, which shift the end of a statement.
3. `MarkerEdits` composed with `Instrumenter`, which then needs no free choice of places.
4. The matchers: which functions, headers and expressions they keep out, over small syntax trees.
5. `StatementTrees` without recursive operators (functions on trees of bounded depth), so that what the matches of a tree are like, which is `SourcesAssumption` now, could be
   proved by induction on the depth with `SetInduction`.
