# Verification of craytraverse

craytraverse wraps the Radiance programs rtrace, rcontrib and evalglare as a
Python extension: `main()` of a command line tool becomes `initialize`,
`load_scene` and `__call__` of a singleton that lives as long as the Python
process. This directory holds TLA+ specifications of that code, TLC
configurations that check them on small instances, and proofs about them
checked by TLAPS. Paths below are relative to the repository root.

## Inventory

| component | source | state | operations |
|---|---|---|---|
| rcontrib call | `src/csrc/rc3_mod.c`, `rcontribparts.c`, `rc2_mod.c` | `lastray`, `lastdone`, `out_bq`, `kida`, `kidpr`, `nchild`, `account`, `cbin`, `output_values`; pipes to and from children | `rcontrib_call`, `parental_loop2`, `next_child_nq`, `queue_output`, `output_catchup`, `put_zero_record`, `in_rchild2`, `end_children`, `quitrc` |
| rcontrib initialization | `rcinit.c`, `rcontribparts.c` (`addmodifier`), `src/rcontrib.cpp` | options, `modconttab`, `nmods`, `return_value_count` | `rcontrib_init`, `rcontrib_clear`, `resetRadiance`, `loadscene` |
| rtrace call and output | `rtraceparts.c`, `src/rtrace.cpp` | `ray_out`, `every_out`, `castonly`, `accumulated_color`, result width | `setoutput2`, `rtrace_call`, `printvals` |
| rtrace session | `rtinit.c`, `src/rtrace.cpp` | options, `srcobj`, `scene`, ambient file | `rtinit`, `rtrace_loadscene`, `rtrace_loadsrc`, `resetRadiance`, `updateOSpec` |
| Python wrappers | `craytraverse/renderer/*.py` | class attributes `args`, `_args`, `nproc`, `scene`, `features`, `ospec` | `set_args`, `load_scene`, `load_source`, `reset`, `__call__` |
| function contexts | `func.c` | `fobj`, `fray`, `funcxf`, two `lastrno`, `last_params`, a reference count in each file's context | `initfunc`, `set_eparams`, `getfunc`, `freefunc`, `setfunc`, `worldfunc` |
| render parameters | `rcraycalls.c` | the Radiance options | `ray_init`, `ray_done`, `ray_save`, `ray_restore` |
| errors | `error.c` | `erract` | `error` |
| evalglare | `evalglare.c` | the picture, the label `gsn` of each pixel, the table of glare sources | scans that find, combine, smooth, split and zone sources, alone or for a series of images; glare formulas |
| Radiance | git submodule, empty in this repository | | tracing, processes with two pipes (`open_process`, `close_process`, `process`, `readbuf`, `writebuf`) |

How they interact: Python calls the C++ singleton; the singleton calls the C
functions, which keep everything in statics. With `-n` above 1 a call to
rcontrib forks children, one pipe each way, for the time of the call; that is
the only concurrency in the repository. Parent and children share no memory and
no lock. `error(USER|SYSTEM|INTERNAL)` and signals do not raise an exception:
they run `quit` and end the Python process (`src/csrc/error.c:25`).

What is hard to test: the order in which children answer; records that are
summed from the parts several children send; zero rays, which flush the queue
and restart the numbering; children that die; and what the statics carry from
one call, or one `initialize`, to the next. `PROJECT.json` lists these hazards
at their lines, with the property that covers each.

What makes each component correct:

* *call*: every row is answered once, in order; a call ends; the children end;
  the controller never blocks on a child that blocks on it.
* *initialization*: the width of the array is what the modifiers write; a
  second initialization behaves as the first one.
* *rtrace output*: the width that is reported is what the writers produce, also
  after a specification that is refused.
* *session and wrappers*: options, sources and cached arguments belong to what
  is loaded.
* *contexts*: a cached object, ray or parameter string is that of the current
  context.
* *evalglare scans*: they end; labels and table agree; sources that face each other are
  one; no light is lost or counted twice.

## Modules

| module | models |
|---|---|
| `RcontribQueue` | the output queue of the controller: `queue_output`, `queue_ready`, `output_catchup`, as operators on sequences |
| `RcontribCall` | a process that makes calls to rcontrib, and the children of a call |
| `RcontribPromise` | what the caller is promised: an abstract specification without processes, queue or numbers |
| `RcontribCallProofs` | theorems about `RcontribCall`, checked by TLAPS: controller and children in step |
| `RcontribNumbers` | how the ray numbers of controller, children and queue are those of the rows: the invariant behind the answers |
| `RcontribQueueProofs` | lemmas about the queue: what an insertion, a merge and an output do to its rays |
| `RcontribAnswersProofs` | theorems: a call returns the answers of its rows |
| `RcontribPromiseProofs` | theorems: the order and content of the queue, and that `RcontribCall` implements `RcontribPromise` |
| `FiniteInduction` | lemmas all proofs share: induction in set form, sums, concatenations, division |
| `RtraceOutput` | output specifications of rtrace: `setoutput2`, the table of writers, the width of a row |
| `RtraceSession` | a process that uses the `Rtrace` wrapper: Python class, C++ singleton and C statics |
| `RtraceSessionProofs` | theorems about `RtraceSession`, checked by TLAPS |
| `CalcompContext` | the statics of `func.c` as one record, each of its functions as an operator on it |
| `RcontribSession` | a process that uses the `Rcontrib` wrapper: the list of arguments, `rcontrib_init` option by option, modifiers, scenes, `reset`, and what a ray evaluates |
| `RcontribSessionProofs` | theorems about `RcontribSession` and `CalcompContext` |
| `GlareSearch` | the two searches of evalglare for source pixels around a pixel |
| `GlareScan` | the scans of evalglare over a picture |
| `GlareScanProofs` | theorems about `GlareScan` |
| `MCRcontribCall`, `MCRtraceSession`, `MCRcontribSession`, `MCGlareScan` | the modules TLC runs, with the instances |

### RcontribQueue

`out_bq`, a linked list, is a sequence. A record (`BINQ`) has the index of its
first ray, the number of rays accumulated in it, and its bins. Colours are only
ever added, so a sum of colours is abstracted to the set of rays in it and the
number of additions: a ray added twice, lost, or foreign is visible, and that is
all the properties ask. The loops of the C code are given in closed form
(`Insert`: the prefix of smaller indices; `QueueReady`: the longest prefix of
complete records in line), the merge pass as a fold.

### RcontribCall

The calling process is a state machine over `pc`; each value is a place in
`parental_loop2`, `next_child_nq` or the loop of the single process.

| pc | code |
|---|---|
| `idle` | between calls (Python) |
| `fork` | `in_rchild2`, forking children one by one |
| `feed` | head of the loop of `parental_loop2`: next ray, zero test, batch |
| `next` | `next_child_nq`; `why` says what for: `pick` a child, flush for a `zero` ray, `drain` at the end |
| `poll`, `block` | its `select` with and without a time limit |
| `read` | `readbuf` of each child `select` reported, and `queue_results` |
| `send` | the write of the batch |
| `zero`, `restart` | the zero ray: put in line, or, at a record boundary, flush and start numbering over |
| `close` | `end_children` |
| `solo` | the loop of `rcontrib_call` with one process |
| `exit` | the process has ended |

A child has a state (`start`, `run`, `write`, `done`, `dead`), two pipes (`to`, `from`)
and its bins (`sum`). `Fork` gives it copies of the controller's ends of the pipes of the
children before it (`holds`); its first step, `KidStarts`, closes them, and may come at any time
after the fork: the controller may already have sent it rays, or be gone. A child reads the end of
its input when its pipe is empty and `Abandoned`: the controller has closed its end or
exited, and no living sibling holds a copy. After the start it takes one ray from its pipe at a time; with `-c 1` it
writes after each, else after the zero ray that ends a batch. Its steps and the
controller's interleave freely.

Rows have one of three directions: `ray`, `zero` (three zero components), and
`tiny` (not zero, but `normalize` returns 0). A ray is the number of the call and
its number in the call, so `-c` repetitions of a row are different rays and the
rays of an earlier call are told from those of this one.

`Reinitialize` is reset, initialize and load_scene with another `-n` or `-c`: it
changes the options and nothing else.

`Failure` covers what goes wrong from outside: a fork fails, a signal arrives at
any step of a call, a child dies at any step. The controller's reactions (a short
read, a failing write, a broken pipe at a child) are translated from the code.

`Exit` leaves the children to the system. `error` calls `quit`, which is the `quit` of the Radiance
library (`quit.c`, in `src/CMakeLists.txt:58`) and exits. `quitrc`, with its `end_children(1)` that kills
children, is called at one place only, by a child (`control == 0`, `rcontribparts.c:510`), whose `nchild` is
-1: its branch is `_exit`.

### RcontribPromise

A call of n rows makes the answers of its rows available in order and returns
when it has all n, or the process exits. `RcontribCall` implements it under the
mapping in `Promise`: the k-th answer is k when the k-th record written is the sum
of the rays of row k, each once, and 0 when it is anything else.

### RtraceOutput

A letter stands for its writer. `SetOutput` is `setoutput2` as a function of the
table it finds: the table is overwritten from its start, a letter that is not
known stops it without a terminator, and a refused combination is noticed after
the table is complete. `Written` runs the table as `printvals` does, `Components` is
the number that is reported; `V` falls through to `l`. What a writer
computes is left out, its width is kept.

### RtraceSession

Each layer keeps its own copy of what is set: C (`opt`, `out`, the `objects`,
which sources are `marked`), C++ (`rvc`, `srcobj`), Python (`args`, `ospec`,
`features`). `named` is the ambient file the program named last, and `ambient` what each
file holds; the code has neither, they are there for the properties.

| action | code |
|---|---|
| `SetArgs` | `Rtrace.set_args`, `Renderer.set_args`, `Rtrace::py_initialize`, `rtinit` |
| `UpdateOspec` | `Rtrace.update_ospec`, `Rtrace::updateOSpec`, `setoutput2` |
| `LoadScene` | `Renderer.load_scene`, `Rtrace::loadscene`: `rtinit` again, `rtrace_loadscene`, `rtrace_loadsrc` |
| `LoadSource` | `Rtrace.load_source`, `Rtrace::loadsrc`, `rtrace_loadsrc`, and `set_args` again when values are cached |
| `Call` | `Rtrace::py_call`, `rtrace_call`, as one step |
| `Reset` | `Renderer.reset`, `Rtrace::resetRadiance` |

A `ValueError` is a step that leaves what was assigned before it: `args` but not
`ospec` and `features`. An argument string is a record of the options that matter:
`-o`, `-I`, `-ab`, `-aa`, `-af`, and whether there is an option that is not
known. The value of `-aa` is one of four kinds, because `check_amb` reads only the
digits before the point: 0.1 is then "not caching".

What a program may do is what the docs allow: `reset` before another scene
(`src/rtrace.cpp:124`), `load_source` into a loaded scene, freeing objects of
`load_source` only (`src/rtrace.cpp:163`), and an ambient file named only for the objects it was made
with.

### CalcompContext and RcontribSession

`calc` is the record of the statics of `func.c`: the current context, whether the
definitions of `rayinit.cal` and of the options exist, the parameters that are set and
those `set_eparams` believes are set, the object and ray the channels refer to, which
modifiers are compiled and how many references each function file counts. A context holds
definitions or does not; `dcleanup(2)` removes those of the current one, and all of
them in the global context. `last_params` is a pointer to a string of the argument
list: after the class has given its list up (`alive` is false) a comparison with it may
say anything.

`RcontribSession` uses it. `rcontrib_init` is not one step: its loop reads one
option a step (`ReadOption`), because what an option means depends on those before
it (the parameters, bin value and bin count in force when `-m` is read) and because
an option may end the process half way (`Die`).

| action | code |
|---|---|
| `Setup`, `SetArgs` | `Rcontrib.setup`, `Rcontrib.set_args` (the list they write: `Written`) |
| `Initialize` | `cRcontrib.initialize` with a list of the program's own |
| `Processes` .. `AddModifier`, `BadExpression`, `BadParameters`, `BadOption`, `StrayWord`, `Finish` | the cases of the loop in `rcontrib_init`, `addmodifier`, and its end; `Return` is `Rcontrib::py_initialize` |
| `LoadScene`, `Reset` | `Rcontrib::loadscene`, `resetRadiance` (`freefunc` of every object, `rcontrib_clear`, `dcleanup`) |
| `StartRay`, `Shade`, `EndUntracked`, `EndTracked` | a ray of a call, a material it evaluates, its end (`trace_contrib`) |
| `ShadeFails`, `EndFails` | `getfunc` and `set_eparams` on something they cannot read: `error` ends the process |

What can be read is a matter of the text, which is left out: `Refused` is the set of strings,
parameter lists, bin values, modifiers and function files that are malformed or missing. `-e`, `-f`, `-bn`,
`-p`, a bin value when `-m` is read, `rayinit.cal` when it is loaded, and a material or its function file when a ray
meets it end the process when they are in it. `SwitchIn` gives, for each value in which the pattern `-Z.?`
of the wrapper (`rcontrib.py:116`) matches, what it takes it for; `Quoted` is a `-Z` the shell's
splitting of the arguments sees and the pattern does not (in quotes, before a tab).

Rays nest: a ray spawned by another ends before it, and both set the one `fobj`.
`asked` is what was asked of `setfunc` or `worldfunc` last, there for the properties.
`SetArgs` comes after `reset`, or before there are modifiers (`AfterReset`): the
documentation asks for `reset` first
(`src/rcontrib.cpp:170`).

### GlareSearch and GlareScan

One pixel is one step: the loops read and write the labels of the same picture, so
what a step sees depends on what the steps before it did. A picture is a record of
sizes, luminances and solid angles, all small integers; `phase` is the loop that
runs and `pos` its pixel.

| phase | code (`evalglare.c`) |
|---|---|
| `scan` | first scan, 2455 (and 3356 in a series) |
| `second` | second scan: sources that face each other are combined, 2622 |
| `smooth` | `add_secondary_gs` for each pixel without label, 2665 |
| `limit`, `choose`, `peaks`, `join` | peak extraction, source after source, 2699 |
| `direct` | the direct light of each source, 2794 |
| `zones` | the pixels in a zone become sources of their own, 2961 |
| `out` | a series prints, clears the table, and copies the next image, 3537 |

The angle between two pixels is their distance in the picture, the search radius a
squared number of pixels. What the code computes from the radius follows from that:
`search_pix < 1` is `r2 < 2`, the radius of a peak is half, that of smoothing
8/49 of its square.

`NearPath` is the order in which `find_near_pgs` looks at pixels: each row is
entered at the middle of the columns where the walks before it stopped, and left at
the first pixel that is too far; `WalkRow` is one row of it. `SplitPath` is the order of `find_split`. Both depend
on the size of a picture only and are tabulated once (`NearPaths`, `SplitPaths`).

## Runs

| run | instance | asks |
|---|---|---|
| `single` | 2 calls, up to 4 rows, `-c 1`, 1 or 3 processes (capped to 2) | zero rays and directions that underflow, without accumulation; the cap on children; every ray number is output, queued or assigned; polling against blocking; the promise |
| `accumulate` | 2 calls, up to 3 rows, `-c 3`, batches of 2, 1 or 2 processes | records summed from parts that arrive in any order; the ray numbers everywhere are those of the rows (`Numbered`) |
| `failures` | 3 rows, 2 children, `-c 2`, anything fails at any step | a call that returns is right, a call that cannot go on exits, each child ends whatever its siblings do |
| `reinit` | 2 calls, `-c` changes between them | violated: see findings |
| `zeroray` | 2 rows, 2 children, `-c 2` | violated: see findings |
| `rtrace_documented` | 4 argument strings, 3 specifications (two of them refused), 2 scenes, 2 source files, up to 3 objects | results as wide as what is written, after any refusal; sources counted; ambient files not mixed |
| `rtrace_swap` | argument strings that name their output, two with ambient files | violated: see findings |
| `rtrace_lights` | a scene loaded with `-oL`, then `Z` | violated: see findings |
| `rcontrib_documented` | 8 lists of options (switches, parameters, an unknown option, a stray word, a malformed expression and malformed parameters, a `-Z` in quotes and one in a value), `-n` and bins of 0 and 2, 4 materials in 2 contexts, one malformed, 4 rays, 2 nested | evaluation for the modifier and ray asked for; reference counts; definitions present after any resets; width and components of a result; who ends the process |
| `rcontrib_params` | one list with parameters, given again after `reset` | violated: see findings |
| `glare_scan` | every bright/dark picture of 4x3 and 3x3 pixels, 2x3 ones with pixels outside the view, 256 of 5x5, 512 of 6x6, and those with peaks, each under the options that concern it | labels and table agree; sources are combined; peaks are separated; light is conserved; the searches see what they should; the scans end |
| `glare_zones` | 3x3 pictures with two zones | violated: see findings |

Bounds. `MaxRows` and `MaxCalls` bound the input, `MAXPROCESS` the children,
`MAXIQ` the batch; all are constants of the specification. Two children and three
records are enough for every order of two results, for a record that is made of
the work of both, and for a gap in the queue. Batches of two with `-c 3` give
records of two parts, and rows left over for a batch that is cut at the record
boundary. A second call is what finds a static that was not put back. `single`
has four rows because `next_child_nq` outputs early only with more ready records
than children.

In `RtraceSession` only the objects are unbounded; three let a source of two objects be
freed in part and another one be loaded. `ray_out` has 6 entries instead of 32, more than any
specification of the runs needs, so that a table keeps entries of a longer one.

In `RcontribSession`, `MaxRays` and `MaxDepth` bound the rays of a process and how deep
they nest; four rays, two at a time, let a ray evaluate before and after one it
spawned, in two scenes. Argument lists are those of the class and are not bounded by
the module.

In `GlareScan`, `MaxSources` is more than the pixels of a picture need (the code grows
its table), `MaxImages` the images of a series. Three rows and four columns are
enough for two sources that grow towards each other and meet; 5x5 is the smallest
picture with a pixel the second scan takes as surrounded. A second scan sees every near
pixel while the radius is below three pixels, the first scan while it is below five; from
there on they miss some in the outermost rows of the search circle, and see what is within
`2 / sqrt(5)`, 0.89, of the radius. `InSight` is this condition, in `FacingSourcesMerged`
and `FreshSourcesAreFar`; without it both are violated in 6x6 pictures with a radius of five
pixels, so the run meets the case. For all radii it is proved (see Proofs). Little is lost by it:
beyond it a row can be shorter by three on a side than the one before, and then its two
walks need not meet.

Deadlock is checked in every run but those of `RcontribSession`, where the process may
end: an `exit` or a finished last call stutters by `AtRest`, a finished evaluation by
`Finished`, any other state without a step is an error.

Fairness. `FairSpec` asks weak fairness of the calling process (all steps except
starting a call, which is Python's choice) and of each child. It stands for an
operating system that runs each process that can run; nothing in the code is
assumed to be repeated or lucky. Failures are never fair. Once the calling process is gone,
fairness of a child is assumed only of its first step: after that `ChildrenEnd` asks of each child that it
ends if it goes on itself, even when a sibling is stuck in a ray for ever. `GlareScan` is one thread
that waits for nothing; `Progress` says that it goes on until it is done, weak fairness
of `Next` written without ENABLED, which would make TLC evaluate a whole step a second
time for every state; the runs check for deadlock, so some step is always enabled.
`RcontribSession` and `RtraceSession` state no fairness: nothing has to happen between calls.

Every passing run's properties have a mutated form of the code that breaks them;
the forms stand before the definitions they replace.

## Findings

* `reinit`: `lastray`, `lastdone` and `out_bq` are never reset
  (`src/csrc/rcontribparts.c:99`, `rcinit.c:185`). After an odd number of rays with
  `-c 1`, an `initialize` with `-c 2` starts in the middle of a record, and
  the call returns with its last row unwritten. The documented sequence
  reset/initialize/load_scene does this (`src/rcontrib.cpp:170`).
* `zeroray`: with `-c` and `-n` above 1 a zero ray at a record boundary restarts
  the numbering while incomplete records are queued (`src/csrc/rc3_mod.c:493`).
  Rows stay unwritten.
Neither of these two happens with `-c 1`, the default of the Python wrapper: `single`
checks that.

* `rtrace_swap`: `load_source` strips the ambient file from the arguments unless it is
  given one itself; the example of the class (`rtrace.py:44`) sets the new file with
  `set_args` just before. The same property fails for `-aa 0.1`, which
  `check_amb` takes for 0 (`rtrace.py:139`).
* `rtrace_lights`: `rtrace_loadsrc` marks only distant sources when the output needs
  no tracing (`rtinit.c:289`); a later `update_ospec` to a value traces without
  the scene's local lights.
* `rcontrib_params`: `set_eparams` returns when the parameters are those it set last
  (`func.c:79`); `reset` removes the variables and leaves `last_params`. A program that
  keeps its list and gives it again after `reset` has its bin expressions evaluated
  without parameters. With the class the list is a new one, and what the comparison
  with the freed one says is undefined.
* `glare_zones`: the light of a pixel that goes to the source of its zone is added
  to the source made last (`evalglare.c:3003`, `3035`), against the comment above it.

Also seen while modelling, without a run:

* The controller and the child do not agree on what a zero direction is
  (`rc3_mod.c:464` against `rcontribparts.c:474`); with `-c` above 1 a direction whose
  squared length underflows ends a batch early and `ReturnsAnswers` fails in `RcontribCall`.
* `set_args` without `-o` sets the `ospec` of the class (`v`, 3 columns), then
  `load_scene` runs `rtinit` again, which sets its default `Z` (`src/rtrace.cpp:70`):
  `features` is 3 and a result has 1 column. `update_ospec` before `load_scene` is lost
  in the same way.
* `-F` stays in force when it is not given again, and a bare `-w` toggles at each
  `rtinit`, of which `load_scene` is one more (`rtinit.c:176`, `rtinit.c:198`), against
  "it is not additive with previous settings!" (`src/rtrace.cpp:242`).
* `V` and `W` are listed for `update_ospec` (`rtrace.py:98`) and always refused
  (`rtraceparts.c:648`); `loadscene` without `reset` leaves `srcobj` at the old scene's
  count (`src/rtrace.cpp:67`), outside documented use; `load_source` sets `nproc` back to 1
  when it sets the arguments again.
* The width of the result is counted from the bin count as given, before a constant bin
  value makes it 1 and with the `-Z` in force at that option (`rcontribparts.c:132`):
  a program that writes its own list can get a result of another width than is
  written. The list of the class avoids it, which `WidthIsWritten` checks and proves.
* The wrapper looks for `-Z.?` in the text of all its arguments (`rcontrib.py:116`): `-e 'c=1-Zsun'` counts as a
  switch, a `-Z` in quotes or in an expanded `@file` as none, and `features` is then not
  the number of components of a result. `FeaturesDescribeResult` excludes such options.
* `find_near_pgs` misses near pixels in the outermost rows of its circle, from a radius of
  three pixels on in the second scan and of five in the first: a row there is so much shorter
  than the one before that the middle of the last row's ends is beside it, or its two
  walks do not meet. Nearer than 0.89 of the radius it misses nothing;
  sources of equal solid angle are never combined.
* `find_split` takes the number of rows for the last column (`evalglare.c:465`):
  a wide picture is not searched whole, a tall one is read outside.
* Smoothing adds a pixel to every source that fills its surroundings, and labels it
  with the last; `Eglare` of zone sources is never set to 0 (taken as 0 here).
* A series adds the direct light of a pixel twice, keeps `lum_max` of an image for the
  next, and needs `-b`: without it `lum_source` is not set.

## Proofs

The theorems hold for every value of the constants under the assumptions named. They
need induction on numbers, finite sets, sums, folds and concatenations. The provers cannot
instantiate a lemma about any predicate; `FiniteInduction` therefore states induction for the *set*
of the cases that hold, from the existence of minimal elements, and derives from it
what a sum over a set is (`SumAdd`, `SumRemove`, `SumUnion`, `SumUpdate`), that
partial results exist and are unique, and the facts about quotients that ray numbers need.

### Calls of rcontrib

`Assumption` is what the code needs to run at all: at least one slot for a child, `MAXIQ` at least
2, positive `-n` and `-c`. Any number of children, rows and calls, any batch size, any
order of results, with children dying and signals at any step.

`RcontribCallProofs`, from `Assumption` and `"tiny" \notin Kinds`:

* `InStepInvariant`: `TypeOK` and `InStep` hold always; `TypesAlways` is its first part.
* `SendsToWaitingChildAlways`: the child a batch is written to waits for input on
  empty pipes, so the blocking write cannot deadlock against the child's.
* `RecordMatchesAssignmentAlways`: a record in a child's pipe sums as many rays as
  the controller will count for it.
* `AssignmentFitsAlways`: a batch and its terminator fit one atomic write.

The properties are not inductive: that a child is free when it is written to
depends on what it has been sent, what it has summed and what is in its pipe.
`InStep` says it in parts. `ForkInv`: the children forked are those below `nchild`.
`BatchInv`: the batch has only rays and has room. `ReadInv`: only busy children
are read, and only free ones written to. `KidInv`: a child is free and waits, or
its sum and what is left in its pipe add up to its assignment (`Reading`), or its
record is on the way (`Delivered`). The run `failures` checks `InStep`. The proof has
one lemma for each action of `Next`; steps of a child leave the controller and the
other children alone, which two lemmas (`Untouched`, `UntouchedKid`) say once.

The assumption on tiny directions is needed: with one, `InStep` is false (see
findings).

`RcontribAnswersProofs`, from `Assumption` and `DocumentedUse`:

* `NumberedAlways`: the invariant `Numbered` of `RcontribNumbers`.
* `ReturnsAnswersAlways`: a call that returns has answered every row, once, in order.

`DocumentedUse` is one value of `-c` for all calls, no tiny direction, and with `-c` above 1 rows
that are rays only. The runs `reinit` and `zeroray` show
`ReturnsAnswers` false without the first and the last; a zero row with `-c 1`, the
default, is included. `Numbered` is needed because the code keeps no row numbers: an answer is right
because `lastray`, `lastdone`, the index of each entry in `out_bq` and the `r1`, `nr` of each
child count from the same `Base`. `CountersInv`: rows written and rays sent are
whole records from a base that is a multiple of `-c`. `BatchNumbersInv`: the batch is of the next
rays, and of one record. `WorkInv`: what a busy child has summed, has left in its
pipe or has written is its interval of rays, and intervals are disjoint. `OutstandingInv`:
each entry of the queue stands for rays of one row, entries are in order of rows,
and the rays sent but not output are those of the entries and of the busy children,
none in both. `SoloInv` says the same of the loop of a single process, `IdleInv`
that nothing is left between calls. The run `accumulate` checks `Numbered`. `RcontribQueueProofs`
has what it takes of the queue: `Insert` keeps the entries in order and adds the rays of one result;
the merge, a fold, keeps the rays covered; what `QueueReady` counts are complete records in line.

`RcontribPromiseProofs`:

* `QueueSortedAlways` and `RaysAccountedForAlways`, from the same assumptions: the queue is in the order of its
  records; every ray sent is output, in one entry or with one child.
* `ClearedBeforeBlockingAlways`, from `Assumption` and no tiny directions: the controller
  does not block while a record that can be output is queued. Its invariant `Cleared` is the property
  itself with the types of the queue: every way to the blocking `select` passes `queue_ready`.
* `ImplementsPromise`: `Spec` implies the initial states and steps of
  `RcontribPromise` under its refinement mapping. A step writes at most the answers in
  line, which are those of the rows after the ones written before. It is the safety part of `KeepsPromise`.

### Sessions

`RtraceSessionProofs`, from `SessionAssumption`, for any argument strings,
specifications, scenes and sources:

* `SourcesCountedAlways`: `srcobj` is the number of source objects, and they are at the
  end of the list.
* `AmbientFreshAlways`: a call never uses values of other objects. The invariant
  ties three copies together: the file in force is that of `args`; `args` names one only
  when values are cached (else `load_source` would leave it); and what it names
  holds values of the loaded objects only. Without objects that is a file without
  values, which is why `load_scene` need not look at it.
* `ResultIsOutputAlways` and `TypesAlways`, with `SlotsAssumption` in addition (`ray_out` has
  at least two entries). A specification longer than the table is never chosen: that is a guard
  of the model (`Fits`), not a check of the code (see the hazards). A result is as wide as what the
  table writes, after any specification, refused or not. `OutputInv` says that up to its first terminator
  the table is that of a specification, whose letters give the width by a sum the C
  code and the class take in different ways.

`RcontribSessionProofs`, from `CalcompAssumption` and `SessionAssumption`:

* `TypesAlways`, `EvaluatesAskedAlways`, `RefsAreUsersAlways`: for any lists, the class's
  or the program's own. The invariant `IInv` adds `CalcInv` to the types and to `EvaluatesAsked`:
  `fobj` and `fray` are those of the last function of the two that did not return
  early, and that function's `lastrno` is the number of `fray` (`Cached`), and each
  count is the number of users (`Counted`).
  References need the count of the users of a file when one is added and
  when all are freed.
* `WidthIsWrittenAlways`, `DefinitionsPresentAlways`, `DocumentedUseSurvivesAlways`,
  `FeaturesDescribeResultAlways`: for
  programs that use the class (`ClassOnly`: no lists of their own, and no modifier called
  "void"). `LInv` follows the list the class writes through the loop of
  `rcontrib_init`: what has been read when `-m` is reached, and that it is the last. For the
  features, the switch the loop has read so far is the one the wrapper's pattern finds
  in the part of the list before it, as long as no value there matches the pattern and no `-Z` is in
  quotes, which is the hypothesis of the property. `DocumentedUseSurvives` does not say that
  such a program is never ended: an option that is at fault ends it. It says that the option is at
  fault by itself (`AtFault`), never by what an earlier list, scene or call has left in the
  statics; without `reset` a modifier that is already there ends it.

### evalglare

`GlareScanProofs`, from `GlareAssumption`, for any pictures, options, limits, zones and number
of images:

* `TableMatchesPictureAlways`: `npix` counts the pixels of each source. The invariant `IInv`
  says in addition that no pixel has a label that is not in use (`LabelsInUse`), that pixels not
  yet scanned have none, that sources not in use count nothing (`Unused`), and that
  the source of a pixel the zone loop has still to visit was not made by that loop (`ZonesOpen`).
* `LabelsInUseAlways`: labels index the table within its length.
* `MInvAlways`: the measures of the sources. `TypesAlways`, `PeaksSeparatedAlways` and
  `LightConservedAlways` follow from it.

That light is conserved is an equation of sums at the end of the program; before it, each loop
has done a part. `MInv` says which: `AnglesAdded`: a source's solid angle is the sum over
its pixels, as far as no smoothing has added some twice. `BrightestKnown`: `lum_max` bounds
the pixels of its source, so the extraction does not pass over a source that has a peak.
`PeaksFound`: the sources and pixels gone through have no peak left in an old source and only
peaks in a new one. `LightCounted`: the direct light so far is that of the pixels
the loop has reached, source by source in the direct loop and in total in the zone loop, which moves
light between sources. Before the direct loop there is none. `AtStart` ties the
loops' variables to their phase, `Shapes` is the types. In these proofs a
search is an operator that returns the label of some pixel, so they hold for any order of
search and any radius.

* `FreshSourcesAreFarAlways`: the first scan starts a new source only where no labelled pixel is near,
  for any radius, but for pixels more than 0.89 of the radius above or below
  (`InSight`), and below five pixels without exception.
* `FacingSourcesMergedAlways`: after the second scan no two sources of different size are nearer each
  other than 0.89 of the radius (than the radius, while that is below three pixels).

For these the search itself matters. The near columns of a row are a chord, whose half
width `b` is at most that of the row before, `a`, and not much less: by two at most and not less
than half, in all rows `d` with `5 d^2 <= 4 r^2` (`HalfWidth`, `WidthsShrinkSlowly`; for small radii
`WidthsShrink` says what holds of the outermost rows too). `Follows` puts these cases together. `Enters` says where the walks before have left `l` and
`r`: each at the column of the pixel or at its end of the last chord, unless no near
column is left. `RowEntered` says that then the two walks from the middle of `l` and `r`
together see the whole chord, and leave `l` and `r` so for the next row. `NearIsSeen` is
the induction over the rows, from that of the pixel to that of the one looked for. A walk that
ends at the border leaves `l` or `r` as it was, so that the middle drifts to the other
side, and the right walk takes the middle anew after the left one has moved `l`: with
chords that shrink faster, in the outermost rows, the first walk is beside the chord or the second begins too
far to the right, and there pixels are missed. The second scan also has to search from the right pixels.
`SettledSoFar`: a pass that has combined nothing has found no larger source from any
pixel it has reached, and the scan ends after such a pass only. A surrounded pixel is
not searched from; but of all pixels of a source the one closest to a given pixel
outside it is not surrounded (`SurroundedIsNotClosest`), so a larger source that is near
some pixel of the source is found from that one (`NoneLargerNear`).

### What is only model-checked

* What the searches see in the outermost rows at larger radii is in no property: they miss some of it.
  Nothing is said of what `find_split` sees; `PeaksSeparated` holds however it groups peaks.
* `ChildrenEnd`, `Terminates` and the liveness part of `KeepsPromise`: the prover has no way to
  ENABLED, which fairness is made of.
* The runs that expect a violation are counterexamples, which TLC finds.

## Not modelled

* Tracing and colour arithmetic: a ray contributes itself.
* `RNUMBER` overflow: numbers are unbounded.
* `-c 0` and negative: `Assumption` excludes it; the options of a session
  (`RcontribSession`) are not composed with the calls (`RcontribCall`).
* `-M` and the expansion of arguments in `rcontrib_init`; what makes a string or a material malformed; the channels `l_*` of `func.c`,
  which only read its statics.
* evalglare: position index and glare formulas (floating point), the preparation of
  luminances and solid angles, masking, the band, patch mode (whose index arithmetic
  2502-2610 may leave the table), colouring, output. Offsets of the window of a
  series are zero.
* Rendering options other than those named above, and `rcraycalls.c` that saves and
  restores them; what a writer of rtrace computes.
* Wording of errors and warnings, progress reports, output formats.
* Windows builds, which have one process only.
* The Radiance submodule is external; pipes and processes are modelled as
  `rc3_mod.c` uses them: a pipe keeps order and content, `select` reports data or
  end of file, `writebuf` of at most `PIPE_BUF` bytes is atomic.

## Plan

1. `RcontribQueue`, `RcontribCall`, `RcontribPromise` and proofs (done).
2. `RtraceOutput`, `RtraceSession` and proofs (done). Left: `-n` and `-c` of a call to
   rtrace (the FIFO of the ray library), pickling of the wrapper.
3. `CalcompContext`, `RcontribSession` and proofs (done). Left: composing the session with
   the calls.
4. `GlareSearch`, `GlareScan` and the proof of its counts (done). Left: patch mode.
5. `ray_save` and `ray_restore` of `rcraycalls.c`.
6. Proofs of the types, the answers and the promise of `RcontribCall`, the results of
   `RtraceSession`, the features of `RcontribSession`, and the measures and searches of
   `GlareScan` (done). Every safety property the passing runs confirm has its theorem.
