# Qiming: a verification development

Qiming is an HDL simulator: a C library (`src/libqsim`) that parses Verilog and VHDL into an
intermediate representation (UIR), elaborates it and simulates it event by event, with a Rust
command line, MCP server and desktop shell, a web view and a Python client around it. This
directory holds TLA+ models of its way from a source text to a simulated value and back to the
client, TLC runs that check them on small instances, and proofs that TLAPS checks for every value
of the constants.

Contents: 1 inventory of the system, 2 what is modelled and how it corresponds to the code,
3 the runs and their bounds, 4 fairness, 5 the proofs, 6 what is only model-checked, 7 where the
code departs from what it says or from its language, 8 what is not modelled, 9 what is left.

To check: `tlc -config <run>.cfg <module>` for each run of `PROJECT.json`, `tlapm <module>_proofs.tla`
for the proofs. `PROJECT.json` also lists, under "hazards", what in this code is hard to test, each
at its line, with the properties that cover it.

## 1. Inventory

All line numbers of section 1 are of `src/libqsim/src`.

| Component | State | Operations | What makes it hard | What makes it correct |
|---|---|---|---|---|
| Preprocessor, `verilog_preprocessor.c` | macro table, stack of conditionals, include depth | one per directive | directives nest over files; tables of fixed size | the text is what the directives mean where they stand |
| Verilog parser, `generated/grammar.peg.c`, `verilog_parser.c` | the text, queued actions, some ninety globals | match, undo, perform an action | actions of given-up alternatives; globals shared by constructs, modules and files | the units are what the text says; a text is read whole or has an error count; nothing is left over |
| VHDL parser, `vhdl_parser.c` | likewise | likewise | likewise | likewise |
| Generates, `verilog_parser.c` 1993-2360, `elaboration.c`, `uir.c` | templates, pending nodes | collect, expand, clone | bodies parsed into borrowed units; clones that share | one copy of each item per iteration, owned once |
| Compile driver, `simulator.c` | list of missing modules | compile, library search | a fixpoint over files | ends, with every module found or reported |
| Event kernel, `uir_sim.c` (`uir_sim_run` 7641-8265, `schedule_event` 3075-3185) | event queue, time, delta, signal values, change list, stop and finish flags | run, set_signal, clear_stop; every statement of a design | bodies schedule while the queue is walked; four kinds of update with their own keys; runs are cut at `end_time` and resumed | time is monotone, NBAs wait for the next delta and keep their order, no stale pulse, a run returns |
| Statement executor, `uir_sim.c` (`exec_stmt` 5330-5930) | call depth, loop budget, disable flags | one case per statement kind | recursion with a process-wide depth counter; a budget that turns a loop into events | statements are executed in order, loops to the end, disable stops exactly its block |
| Waiters, `uir_sim.c` (3902-4003) | list of waiting statements | add, check on change, cancel | the body of a fired waiter adds and removes waiters while the list is walked | each waiter fires once for its condition |
| Net resolution, `uir_sim.c` (6861-7148), `value.c` | up to eight driver slots per signal | write, resolve, apply | several drivers; a fixpoint of changes | the value of a net is the resolution of its drivers |
| Port wires and assign cascades, `uir_sim.c` (4058-4608, 7354-7507) | none of their own | propagate, evaluate | recursion with a depth limit | both ends of a wire agree when a batch is over |
| Primitives, path delays, timing checks (1706-1917 and 4120-4608) | UDP rows, last change times | evaluate, schedule, report | edge-sensitive rows; windows that touch a boundary | reference tables |
| Force, release, breakpoints (6449-6602) | a flag per signal, a list of lines | force, release, set, hit | writers that do not ask for the flag | a forced signal keeps its value until release |
| Checkpoint (8366-8634) | a byte buffer | save, restore, diff | what is not in the buffer | a restored simulation goes on as the saved one would |
| Session, `session.c` | state CREATED to FINISHED, sources, recorded waves | reset, add, compile, elaborate, step, query, export | calls out of order; failures half way | no simulation of a design that is no longer there; every change reported |
| Worker pool, `uir_sim.c` (7613-7684, 6326-6336) | `parallel_phase`, one barrier, thread handles | create, start phase, join, exit | threads; creation that fails half way; a thread count that changes | no worker runs while the leader is in serial code; each phase is run once by everyone; no worker outlives the context |
| Parallel batch, `uir_sim.c` (2764-3071, 7285-7610) | partitions, a batch, a change list and a pending list per thread | apply updates, evaluate assigns, run processes, merge | shared signals without locks; changes split over lists | no write races; the same processes and assigns run as in a serial batch; the merged queue is sorted |
| Thread layer, `sim_thread.c` | count, sense | barrier wait; create and join are wrappers | a barrier that is used again while threads still leave it | a rendezvous in every round; nobody spins for ever |
| Reference scheduler, `scheduler.c` | time wheel, overflow list, active queue, NBA list | schedule, run, step_delta, step_time | slots shared by times one turn apart; an NBA list that does not look at times; scheduling from callbacks; three ways to go on | each event is delivered once, none late, and those within a turn at their time |
| Rust server and session manager, Python client | sessions by name, one lock for C calls; streams | one per tool | several clients; a call given up; a process that dies | a call reaches the session it names; answers are read once each, in the order of the calls |
| Wave buffer, values, logger, SDF, exports, web view | rings, vectors, text | record, evaluate, print | size | reference definitions |

How they interact. A client (Rust, Python, C tests) drives a session; the session preprocesses and
parses sources into units, elaborates them, creates a simulation context and calls `uir_sim_run` for
each step; the kernel calls back into the session for each value change (waves) and display line.
With `thread_count > 1` the kernel's loop is the leader of the pool: each phase of a batch is handed
over through a shared `parallel_phase` and two waits on one barrier. `scheduler.c` stands alone: it
has its own tests and is not called by the product.

## 2. What is modelled

| Stage | Modules | Reference they are checked against |
|---|---|---|
| text to tokens | `Preprocessor` (on `Sources`) | `Sources`: the directives as trees, and what they mean |
| tokens to units | `Peg`, `VerilogTokens`, `VerilogGrammar`, `VerilogActions`, `BodyActions`, `VerilogParser` (on `Lowering`) | `VerilogText`: sources as trees, said as text and as units |
| generates, binding, libraries | `Generates`, `Elaboration` | `Sources`: the items a construct stands for |
| statements to nodes to behaviour | `Lowering`, `Statements` | `SourceOrder`: an interpreter of the source |
| values and drivers | `Nets`, `Simulator` | the definition of each net, in no order |
| the client's calls | `Session` (on `Simulator`) | the history: the simulation that was saved, the values told |
| the queue under every design | `SimKernel` | its properties, proved |
| the waiting statements under every design | `Waiters` | its properties, proved |
| threads | `SpinBarrier`, `WorkerPool`, `ParallelBatch` | `Rendezvous`, an abstract barrier; the serial batch |
| the older scheduler | `RefScheduler` | `Timeline`, an abstract scheduler; the refinement is proved |
| the network | `Requests` | its properties, proved |

A reference states what Verilog, VHDL or the interface promises, and does not repeat what the code does. It
follows the code in one place: `VerilogText` has the node that the parser makes of `&&`, `||`, `===`, `!==` and
`!` (that of `&`, `|`, `==`, `!=`, `~`, section 7), since `ExpressionsRead` is about grouping. MC
modules hold the instances, `X_proofs` the theorems about `X`, `Segments` the lemmas about numbers and
sequences that several of them cite. Operators named as a "Seeded fault"
are variants of a definition that show its property can fail; nothing uses them.

### Preprocessor and Sources

`q` is the preprocessor: the macro table, the output, and one reading frame per active call of
`pp_process_source` (a file and its stack of conditionals). A step reads one line (`Read`). Macros are
substituted in the whole output at the end, with the table as it is then (`Substituted`), as the code
does. Lines are records of a directive or a token: their spelling is left out.

### Peg, VerilogTokens, VerilogGrammar, VerilogActions, BodyActions, VerilogParser, VerilogText

`src/verilog/grammar.peg` is older than the committed `generated/grammar.peg.c` and differs from it (no
FLOAT, another index rule); `CMakeLists.txt` 37-71 uses the .peg only if the generator is found. The
model is of the generated C file.

| Model | Code |
|---|---|
| `Peg`: `Match` over `Tok`, `Class`, `Rule`, `All`, `OneOf`, `Opt`, `Many`, `Then` | the matchers `yy_...`: alternatives in order, position and queue set back on failure (`Back`), the last name matched kept |
| `VerilogTokens`, `VerilogGrammar.Rules` | the matchers of tokens, and the 92 of modules, declarations, expressions and statements |
| `VerilogActions`, `BodyActions` | the 351 actions `yy_<n>_<rule>` they queue, by rule (`<rule>_do[n]`), each a sequence of effects on globals; `BodyActions` has those of statements and expressions |
| `VerilogParser.Globals`, `Effect` | the file's globals and the functions the actions call; with `Lowering` for blocks, timing controls and ifs |
| `Parse`, `Perform`, `Return` | `verilog_parse`: match the text, run the queued actions one by one (`yyDone`), hand over the units and keep the other globals for the next text |

What the pair of stack and queue makes of an expression, which global a construct takes from which,
and what an abandoned alternative leaves are modelled as they are. A lexeme is one symbol: white
space, comments, the spelling of numbers (`parse_number_literal` is modelled by its value and width) are
left out. The rules of generate blocks are left out here: `Generates` models their globals. During
development the model's units were compared with those of the compiled C parser on some thousand texts.

`VerilogText` writes a tree as text with as few parentheses as precedence allows, so the parser has to
find the grouping, and as units. A process is compared by what it does in order, since the parser moves
what follows a timing control into its body.

### Generates and Elaboration

`g` is the memory of the front end: units, generate nodes, what has been freed, and the parsers'
globals that remember where to go back to. `Token` is one action of the grammar while a file is parsed,
for Verilog and VHDL; `ExpandPass` one pass of `elaboration.c` over a unit, with `CloneGen` cloning templates.
`Elaboration` composes preprocessing, parsing file by file, the library search (`Missing`), expansion and
the binding of instances and ports. An item is a name with its index and, for an instance, the module
and port it names; parameters are numbers, genvars unsigned words.

### SourceOrder, Lowering, Statements

`Lowering` has the grammar actions that build the nodes of a process, with the single globals they share
(a delay inside a delay overwrites it), `restructure_delays`, loop lowering, `case` items, named blocks,
VHDL's `if`, `case` and `loop`. Blocks live in a heap since they are shared and changed in place.
`Statements` executes the nodes: `ExecList` is `exec_stmt`'s recursion with its depth counter, disable flags
and loop budget, `Scan` and `Fires` the walk over the waiters while bodies change the list, `Resume` a statement
event with everything it calls, `Settle` the second phase of the batch. Assignments are labels, so the
trace of a process can be compared with what `SourceOrder` says it does and when.

### Nets, Simulator, Session

`Nets` has the resolution tables of `value.c` and the net groups. `Simulator` is the serial context as a record
and its operations as operators: the cascade of continuous assigns with its depth limit, primitives,
process bodies with NBAs, port wires both ways and their settling, driver slots and rounds of net
resolution, delayed assigns, force, release, set, save and restore. `Session` adds the calls of
`session.c` in any order. Signals are one bit of four values; strengths, widths and drivers past the eighth
are left out; bodies do not suspend (that is `Statements`).

### SimKernel: the serial kernel

One module for the queue and the loop, over *every flat design*: while a body may run
(`initial_eval`, a resumed statement, the processes and waiters of a changed signal) any statement
kind may execute with any operands, in any order and number. The kernel's part is exact.

| Model | Code |
|---|---|
| `pending` with `ord`, `Before` | the sorted linked list, first in first out within a key |
| `Insert`, `SameSlot` | `schedule_event`: an NBA takes over the event queued for its slot, where it stands |
| `Resume` | `schedule_stmt_event`: delta 0 of its time |
| `WithoutPulses` | the inertial filter of a delayed assign |
| `Blocking`, `Nonblocking`, `Direct`, `Transport`, `Inertial`, `Delayed`, `StopTask`, `FinishTask` | what each statement kind does to the values and the queue |
| `SetFirst`, `SetSignal`, `Continue`, `RunBegin` | the client's calls |
| `BeginBatch`, `LoopDetected`, `RunEnd` | the head of the loop: `end_time`, the stop flags, the loop limit |
| `ApplyUpdate`, `ApplyResume`, `ResumeDone`, `ApplyDone` | phase 1 and phase 1.5 (input port wires) |
| `TriggerDone` | phase 2, one changed signal at a time |
| `ResolveNets` | phase 2.5 (8229-8243): a pass of `resolve_net_types` gives some nets another value, which is triggered in the same batch; it is repeated until a pass changes none |

Abstracted: expressions (any value may be written), hierarchy (flat signals), the vectors several
`std_logic` events of one batch are combined into, and 64-bit time, which does not wrap in any run
that a simulation reaches.

### Waiters: the list of waiting statements

The walk of `check_waiters_on_change` over a list that changes under it, over *every design*: whatever
runs under a walk executes any sequence of the statements that concern the list. `Statements` has the same
walk inside the executor, for the programs of its run; here the list, the names and the statements are any.

| Model | Code |
|---|---|
| `waiters`: `[id, stmt]` | `ctx->waiters`; the id, given in the order of arrival, is a history |
| `walks` with `slot` and `who` | the calls of `check_waiters_on_change` under way, the innermost last: its position `w` (from 1), and the waiter whose body runs; slot 0 while `check_and_trigger` runs before it |
| `fresh`, `Shown` | `new_val` points to the signal's value; a write frees that object |
| `Join` | `UIR_WAIT`, `UIR_EVENT_CTRL`, `add_waiter` |
| `Assign`, `Drive`, `Trigger` | a blocking assignment, recorded or not; a force, an assign or a port wire; `UIR_EVENT_TRIGGER` |
| `Start`, `Pass`, `Wake`, `BodyDone`, `WalkDone` | the loop: the first slot, `w++`, a waiter fires, its removal by position, the end (a trigger then sets its event to 0) |
| `Begin`, `Note`, `End`, `Apply`, `Resolve`, `Take`, `NextPhase` | the serial batch as far as it decides for which changes the list is walked |

What a design does under a walk is the constant `Habits`: a woken body triggers an event (`trigger`), what
runs under the walk waits for the signal of the walk (`rejoin`) or writes it (`overwrite`). Each property
names the habits under which the code cannot keep it. Histories: `woken`, `due` (who waits for an edge that has
come), `missed` (signals that changed without a walk). Left out: cancelling (no name in the list ever matches a
disable's), the depth limit, merged `std_logic` events, waiters of VHDL packages, and the parallel batch, which
walks after all bodies.

### SpinBarrier and Rendezvous: the thread layer

`SpinBarrier` is the Windows barrier of `sim_thread.c` one shared access per step: read the sense,
decrement, and then either reset and flip or spin. `Rendezvous` is what a barrier promises: all
arrive, all are released in one step, each leaves. It is also what the pthread barrier is taken to
do (external code). The model is sequentially consistent: the code uses interlocked operations on
x86, where plain stores are not reordered.

### WorkerPool: the phases

Leader and workers over `Rendezvous` (`INSTANCE`): each phase is gate, look, work, join. `FallBack`
is the failed creation, `Destroy` and `Reap` the end of the pool. One pool size: `thread_count` is 1
or the size of the pool, as the header asks (a larger count once the pool exists indexes its arrays
out of bounds). The constant `MaySwitch` lets the count change while the pool exists, which the run
excludes (section 7).

### ParallelBatch: one batch on several threads

Over every small design: which signals a process is sensitive to and writes, which an assign reads
and writes. `Edges`, `Component`, `Partition`, `Owners` are `build_signal_partitions` (union-find,
numbering in the order of the first signal, round-robin). `found` is what `find_writes_in_node` finds in
a process, and may be less than the process writes: a body also writes any signals the walk did not find in
it (`unseen`). Resumed statements change signals at the start of the batch; what they change is on the
leader's list, or dropped, as in the code. Threads interleave within a phase;
that phases do not overlap is WorkerPool's result. The constants `WorkerAssigns` and
`DelayedAssigns` widen the family of designs to those the code does not treat like a
serial batch (section 7); the run has them FALSE. `Queues` is what may be queued behind the batch. Left out: port wires between the phases, net
resolution rounds, delays met by workers; the first parallel batch, which builds the process lists, is
taken to have happened.

### RefScheduler and Timeline: the reference scheduler

The operations of `scheduler.c` (not the freeing, nor the setting of callback and limit) with its wheel, overflow
list, active queue and NBA list, driven by a client that schedules, for the present or any later time, between
calls and from the callback. `Timeline` is the abstract discrete-event scheduler: the next event is delivered at
its time or, if it is one of `Early`, between the present and its time; time may pass before. The refinement maps
the queues to the set of all pending events; `Early` are those the code does not keep to their time
(`MayBeEarly`, section 7): an NBA for a later time, and a signal update a turn of the wheel ahead or more. The
delta an event carries is left out: nothing in the code reads it.

### Requests: the network

Clients with `client.py`'s buffer, counters and remembered session; connections as two streams of
message parts that arrive in any cut; a server thread per connection with the steps between which others
may run: read, create the session, wait for the mutex, work under it. Only `Qiming.compile` remembers a session,
whichever answer it reads (`compiling`). `Kill` ends the server and starts it
again with an empty table. Answers carry the id of their request as a history: the client never reads it.

## 3. The runs and their bounds

| Run | Instance | Shows |
|---|---|---|
| VerilogRead | 1100 batches of one or two files: every two binary operators, each grouped both ways; pairs of expressions, of declarations, of statements and processes; pairs of files with functions, tasks, interfaces, packages, old-style headers; files with a lexeme missing or left over before a whole one | declarations, expressions and control structure are read as the text says; a file is taken whole or has an error count; no operand, block or global is left for what follows |
| SourcesCompiled | 925 inputs: files of directives inside and outside modules under seven settings of macros, rejected files, pairs of fifteen generate constructs in one module, in two modules of a file and elaborated twice, VHDL sequences, designs of several files with and without a library | the text parsed is what the directives mean; the items expanded are those the constructs stand for; no template is shared or freed while needed; elaboration succeeds exactly when each instance has its module and port, and binds the first one |
| ProgramOrder | every pair of 24 statements in one process, processes that wait for one another, VHDL's nested conditionals and loops | what a process does, and when, is a beginning of what its text says, and all of it in the end: nothing is lost by a loop, a disable or a wait, and no process waits for what holds |
| SessionCalls | one design with all combinational elements, a shift register whose second clock passes two instances, nets of several drivers, VHDL registers; up to seven calls in any order | between calls everything combinational has settled; a clock cycle moves each register by one; a restored simulation agrees with the saved one; the last value reported is the value; the simulation is of the units last elaborated |
| RemoteCalls | a client with two connections, three calls, two it gives up, one restart of the server | answers are read in the order of the calls and once each, the late one of a call given up by the next call; a request finds its session unless the server was restarted; a call returns |
| KernelEveryDesign | one signal, two values, all statement kinds, delays 0 and 1, `MaxPending = 2`, `Horizon = 2` | time is monotone, NBAs deferred, a run returns unless statements resume, or the nets of a batch change, for ever |
| KernelAssignments | two processes, NBAs, delays, a delayed assign, `MaxPending = 3`, `Horizon = 4` | NBAs of a source in the order of issue; no stale pulse |
| WaitersWalked | up to three of five statements (an event, either edge of a signal, a condition on it, an unknown name), two walks at a time, one change noted at a time; every set of habits without `trigger` | each is woken once and then off the list; a walk wakes whoever waited for its edge and only them; no wait sleeps while its condition holds |
| BarrierRounds | four threads, unbounded rounds | refinement of the rendezvous, nobody spins for ever, no deadlock |
| PoolPhases | leader and three workers, creation may fail | leader alone in serial code, each phase run once by all, phases end, destruction reaps all |
| ParallelBatches | three signals, two threads, every design with two processes, or a process and an assign; one signal written that the static walk does not find (`MaxUnseen`) | no write race on the others; no process with a found write and no assign missed for what updates and assigns change; merged queue sorted |
| Scheduler | wheel of 2, three events, times to 5, within, at and beyond the horizon; clients that mix all calls, clients with NBAs for any time | `Timeline` implemented, a run returns |

Bounds and why they are enough.

*VerilogRead*: what can go wrong is what one construct leaves for the next, so pairs meet every case of
it, in one module, in two modules of a file and in two files. `StackMax = 16` and `IfNest = 16` are the code's;
`Budget` and `Unroll` belong to modules it shares with other runs and are not reached. Not among the texts,
since the parser misreads them (section 7): an integer after a signed or array declaration
(`Stale`), a loop with a timing control followed by statements (`MaySuspend`), an indexed name as an operand,
nested calls and concatenations. Names a function or task declares also become wires of the unit; the
comparison leaves them out (`Seen`).

*SourcesCompiled*: the same argument with pairs of constructs. `MaxCond`, `MaxMacros`, `MaxInclude`, `MaxRecursion`,
`MaxIter` and `Word` are the code's tables and limits scaled down so that the inputs exceed each, except `MaxCond`:
the inputs open `MaxCond - 1 = 3` conditionals, the most for which the code stays in its table (`overrun`, section 7). Excluded
as misread (section 7): an `if` after an in-loop `if` without else (`Misread`), nested loops, nested or
top-level `if` and `case` on parameters, loops without label, `downto 0`, nested VHDL generates, a macro
redefined or undefined after its use.

*ProgramOrder*: `Budget = 2` back jumps make a loop of five iterations yield twice. `IfNest = 2` and `StackMax = 5`
are scaled down and not exceeded. `Unroll = 7` iterations of an endless loop and `Horizon = 6` cover three rounds of
the longest delay; `RecordUntil = 4` covers the times at which processes write
for one another (section 7 has what happens after it). `MaxDepth = 1000` is not reached here
(section 7).

*SessionCalls*: seven calls allow compile, elaborate, step, save, step, restore, step, or two elaborations with a
failed one between them. One checkpoint name is taken again and again. `Durations = {2}` covers the delay of
the delayed assign in one step: shorter steps lose it (section 7). `CascadeMax` and `SettleMax` are the code's.

*RemoteCalls*: a second connection opened after a call was given up is what lets two threads
of one client compete for the mutex; nothing in the handlers depends on a third.

*Kernel*: `MaxPending` bounds what is queued at once; every property of the queue speaks of two events,
and an action touches one, so two or three events meet every comparison. `Horizon` allows an event due
now, one in the next step and one behind `end_time`. `MaxStamp` bounds insertion numbers, which are reused
from the least free one; the order of two events is all that is read from them. In KernelEveryDesign
`DeltaCap` exceeds `MaxDeltas`, so the loop limit is met before the bound. *Waiters*: three entries are what
a removal needs - the one removed, the last one that takes its slot, one between or behind them. With
`MaxNest = 2` an event is triggered in what a change sets off. *Barrier*: the interesting
case is a thread that calls again while two others still leave; four threads allow it with one to spare.
*Pool*: three workers allow one to be late while one is early and one is missing. *Parallel batch*:
three signals allow a partition of two and one of one on different threads; a process or an assign joins at
most two components at a time; one signal written unseen is enough for two threads to meet on it. *Scheduler*: a wheel of two slots makes every turn short, and times to 5 lie
more than two turns ahead, so an event can be put back on the overflow list. Where a theorem exists
(section 5) the bound does not matter.

Symmetry (processes in ParallelBatches) is used with invariants only. `CHECK_DEADLOCK FALSE` is set where
the system stops: a kernel or a design at its horizon, a session or client that has made its calls, a destroyed
pool, a batch that is done, a finished scheduler. SourcesCompiled and VerilogRead check deadlock and
stop only in a step of their own (`Finished`).

The type invariants `TypeOK` of SpinBarrier, WorkerPool and SimKernel are theorems (section 5); those of
the other modules say what the variables hold.

## 4. Fairness

- *Kernel*: `WF(Engine)`. `uir_sim_run` is sequential code that holds the thread: the loop goes on.
  A body may execute statements for a while, but each is finite, and none disables the engine.
- *Barrier*: weak fairness of each thread's step inside `wait`; a preempted thread is scheduled
  again. Calling `wait` is not fair.
- *Pool*: weak fairness of each thread in a phase, of the barrier's release, of the two joins.
  The leader need not start a phase, end a run or destroy.
- *Scheduler*: weak fairness of the steps of a call under way; the client need not call.
- *Requests*: weak fairness of each server thread, which the operating system schedules, and of the
  reads of a client that waits. Nobody has to call, give up, close or be killed. The mutex is taken
  with a step of the thread; one client competes with itself, so weak fairness is enough.
- ProgramOrder, SessionCalls, SourcesCompiled, VerilogRead and Waiters state safety only and need none.

## 5. The proofs

Each module `X_proofs` extends `X`; the assumptions are those of the constants (`KernelAssumption`,
`PoolAssumption`, `DesignAssumption`, `SchedulerAssumption`, `RequestsAssumption`, `WaitersAssumption` and the
barrier's).

*SimKernel.* `TypeCorrect` is inductive as it stands. `NothingIsOverdue`, `TimeIsMonotone` and `NbaIsDeferred`
rest on `KernelInv`, which adds to the type and to the two properties: `NbaNow` (every NBA in the queue
belongs to the present time and not to delta 0), `NoneBehind` while a batch is applied (no queued event is
before it), and that statements resume at delta 0 only. Without `NbaNow` an NBA could be due at the delta
under way; without `NoneBehind` the next batch could go back. `OneNbaPerSlotAlways` rests on `Unique` (no two
queued events share a slot), which `Insert` keeps because what it replaces has the source of what it adds.
`LastAssignmentWins` needs `OrderInv` - NBAs of one source and signal are ordered by issue, an NBA is at most
one delta ahead, and nothing is behind unless a stop cut the run short - and the assumption `CleanDesign`: no
`#0`, whole writes only, no `continue` after a stop. Each of the three is needed (section 7). `NoPulseIsStale`
rests on `PulsesIn`: a pulse is due after the assign's delay at the latest, and the pulses of one signal are
at one time. `WithoutPulses` takes away the pulses due before the new one, and by the first half none is due
after it. `OneAssignEach` says what the property's comment says: through the queue a signal is driven by one
delayed assign, all of one delay, and by NBAs.

*Waiters.* All four theorems assume `Calm`, that no woken body triggers an event; without it the list is walked
within a walk and they are false (section 7). `Nesting` says what `Calm` gives: only the innermost walk is on
the list, and the slot it is at holds the waiter whose body runs. With it `ExecutedAndRemoved` follows from
`Membership`, which says of the waiters on the list that were woken that there is one at most, the one at that
slot; `NoneLost` alone allows others, and the removal by position would take the wrong one (`BodyRemoves` has what
stands where afterwards). `NoneSleepsOn` is about edges: `Steady`, that nobody writes the signal of a
walk, and `DueAhead`, that whoever waits for an edge that has come stands at or behind the slot of the walk that
announces it. A removal moves the last waiter forward to the slot looked at next, never in front of it.
`OnlyByCause` is the converse (`AheadDue`), where nobody under a walk joins for its signal. `WaitsAreSeenTo`
has `WaitAhead`: a wait whose condition holds has one of its signals recorded, on the change list, under a walk
it is ahead of, or among those that changed unannounced; every write keeps one of these, and a walk that
passes the wait evaluates the condition anew. It needs neither of the other habits excluded.

*SpinBarrier.* `BarrierInv`: the count is what is missing from the round (`CountIsMissing`), a thread about to
arrive holds the current sense (`FreshSense`), and the last to arrive is alone until it flips (`LastIsAlone`).
With it `ImplementsRendezvous` maps decrement, flip and return to the rendezvous' steps and everything else to
a stutter, for any number of threads.

*WorkerPool.* `PoolInv` says in which half of the phase (before or after the release) each thread may be
(`SameHalf`), which of them are at the barrier (`Outside`) and what each has read and run (`PhaseOf`,
`RanOf`), which pins the leader. `LeaderIsAlone`, `PhaseIsRunOnce`, `PhaseIsComplete` follow;
`DestroyLeavesNone` needs that thread_count is not changed once the pool exists.

*ParallelBatch.* The fact `NoWriteRace` and `EveryProcessRuns` rest on is `SameOwner`: the ends of an edge
have one owner, because a component is the same set from either end. `NoWriteRace` is about the signals whose
writes the static walk finds: such a signal is written by its owner only (`RaceInv`), whatever the bodies write
besides. `EveryProcessRuns`: what updates and assigns changed is on its owner's list (`TriggerInv`), so the thread
that runs a process sees all it is sensitive to; the property is about the processes that have an edge from each
of these signals, since the walk finds a write in them, or that have one such signal. On what is outside either
property nothing is promised (section 7). `EveryAssignIsEvaluated` adds `CatchInv`: a signal
the leader has listed and is through with had the assigns it feeds evaluated; here the assigns with inputs are
the leader's (`~WorkerAssigns`). `MergedQueueIsSorted` rests on `QueueInv`: the queue is sorted and a thread's
list holds events of the next delta only, which needs `~DelayedAssigns` (both premises: section 7).

*RefScheduler.* `SchedulerIsTimeline` is the refinement of `Timeline`, for all events. `IInv` says where an event
may be (`Ready`): those in the active list and the NBAs are for the present time, or for later and may come early
(`Due`); those on the wheel are for later, in the slot of their time and less than one turn ahead, or exactly one and
may come early (`Fits`), so that the events of a slot that may not are of one time (`SlotOfTurn`: two times less than
a turn apart that agree modulo the wheel are equal); the overflow list is sorted, for later, and holds only what
may come early (`Behind`). No event is in two lists, or twice in one (`Apart`, `Once`), or it would be delivered
twice. Then what `Load` takes from a slot holds all there is of the next time, and moving an event between the
lists changes nothing that `Timeline` sees. The clients excluded (`NoNbasByDelta`) are those that have NBAs and use
step_delta, which goes to the next time while NBAs are pending (section 7). `SchedulerTypes` is the type invariant
of the same argument.

*Segments.* What recursive functions compute over a sequence is proved by induction on the index, with a set
in place of a predicate: `LeastNatural`, `Induction`, `Segment`, and that a function defined by recursion
satisfies its equation.

*Requests.* A session's number travels: from the thread that creates it into an answer, the stream, the buffer
and the memory of a client, a later request and the thread that serves it. `Found` alone says only the last of
these and is not inductive; `FoundInv` says at each of the places that the number is that of a session created
before, that a thread past creation has one, and that sessions are neither taken away nor from a process still
to come. `SessionIsFound` follows for any number of clients, calls, connections and restarts, and any cut of
the streams. `OneAtWork` adds `OneWorks`, the thread that works is the one that holds the mutex: no two
threads are in the closure of `with_session` at once. `AnswersArePaired` is about the buffer of a client and
the stream of its connection joined, so that a cut of the stream is no step at all: `Flow` says that they hold
at most one line end left over and then the answers, in all their parts, to the first calls due (those given
up and the one waited for), and that the request in service and those on the way are the others, in order.
`Paired` drops the left-over line end and is not inductive without it (`_read_response` leaves it for the next
call), nor without `PairInv`'s second half: a client's connection is open and no other client's, or an answer
would not be written or would go elsewhere.

## 6. Only model-checked

Liveness (`RunReturns`, `RoundCompletes`, `PhaseEnds`, `CallReturns`), which the prover does not do. The modules of the
front end, `Statements` and `Session`: their operators are recursive over trees, which the prover cannot
reason about; each is compared with its reference on the inputs of its run. What the waiters of
`Statements` do among themselves is proved of the list alone, in `Waiters`.

## 7. Where the code departs from what it says or from its language

What follows are premises of what is checked and proved - dropping the premise gives the behaviour - or is
excluded from the inputs of a run because the code does something else there.

Two break what a comment of the code says outright:

- `exec_stmt` counts its nesting in a static counter and gives it back only where a block ends early on a
  disable (`uir_sim.c:5442`); the decrement at 5928 is behind the last `break`. The count grows with every
  statement executed and, past 1500, statements are skipped, against `uir_sim.c:23` ("bounds exec_stmt recursion
  depth"). TLC shows it with a clock, `always #1 ...`, and `MaxDepth = 12`: `NothingLost` fails.
- A woken body that triggers an event walks the list of waiters within the walk; a removal there moves the last
  waiter, and the outer one then removes what stands at its position (`uir_sim.c:3993`), against 3940 ("execute its
  body and remove it"). With `@(b) y2 = 1;` and `@(c) y3 = 1;` waiting before `@(a) -> b;`, triggering a and
  then c leaves y3 as it was; the compiled simulator does the same. A body that triggers the event that woke it is
  woken again by it, and removed as often. TLC shows it with two events and `Habits = {{"trigger"}}`:
  `NoneLost` fails.

Reading (`src/libqsim/src/verilog/verilog_parser.c` unless said otherwise):

- Names with an index as operands: `x = mem[i]` is read as `i[i]` and `b[3]` as `3[3]`, because the matched
  text is that of the index by then, against the comment at `generated/grammar.peg.c:802` ("re-derive the
  base name from the matched text"). `a = m2[i][j]` becomes `a[i][j] = m2[i][j]`, `a = m2[i][7:0]` becomes
  `a[i] = ...`, `m2[m2[0][1]][j] = ...` loses the assignment.
- `a = u.x` and nested calls (`f(g(j))`, `f(i, g(j))`, `t(f(i), j)`) end the process in an invalid read; a
  concatenation in a concatenation loses items; `{2{i,j}}`, ranges of parameters (`[W-1:0]`) and `<= #1 w` are rejected.
- `&&`, `||`, `===`, `!==`, `!` become `&`, `|`, `==`, `!=`, `~`, and a unary `+` becomes a negation.
- The event control's name is also where `$display`, `$write` and `force` keep theirs: `@(posedge c) $display(...)` and
  `@(posedge c) force ...` lose the event control. `force a = 1` names no signal. A bare `@(posedge c);` is dropped, wraps
  the statement before it, and leaves its edge for the next `@(c)`.
- `a; #1; b` moves `a` behind the delay (765-772); `#1 begin a; b; end` delays `b` only; a null statement after a timing
  control is lost unless it is the first of its block; statements that suspend inside an `if`, `case`, loop, named block or task
  are followed at once by what stands behind these. A delay in a delay, `@` in `@`, loop in loop, named in
  named block and case in case lose the outer one. Case items and task bodies are not restructured; an `always` with two
  delays multiplies (378). VHDL's `wait` suspends nothing, `exit` and `next` do nothing, a process is not repeated.
- An integer declared after an array has the array's dimensions, one after a signed declaration is signed, also
  in a later file; names of an old-style header leak into the next module of the file; `input [3:0] a, b` makes b a
  one-bit inout; `input [7:4] a` in an old-style header has bounds 3 and 0; names local to a function or task become
  wires of the unit; names declared as events suppress implicit wires in later files; the modport of a
  connection is read after it was freed.
- A file whose first module is broken is rejected, one whose second is broken is a success with an error count of 1, which
  `qsim_compile` does not look at (`simulator.c:263-268`: "file parsed successfully").
- Generates: a top-level `if` or `case` on a parameter takes it as 0 (1993-2029); an `if` inside a taken branch lets the
  outer else be taken too (against the comment at 2180); an `if` inside a branch not taken loses the rest of the module; after an
  in-loop `if` without else the next top-level `if` is taken as nested; a nested loop is lost and its module saved as a template; a
  loop without label expands to nothing; names outside a loop get junk wires, names inside one are not prefixed where they are
  used; copies of edge-sensitive processes lose their edges (`uir.c:1725`); copying a loop that contains its own
  jump back does not end (`uir.c:1818`). VHDL: `downto 0` expands a thousand times, `elsif` merges into the first branch, nested generates are lost.
- Preprocessor: macros are substituted at the end of a file with the final table, as bare identifiers too, one nested macro per
  level only; an `ifdef` compares the rest of the line, a comment included; the 64th open conditional passes the check
  (561, 581, against its message "nesting too deep") and is written behind `cond_stack` (565-566, 585-586), the 65th is
  refused: the model stops there (`overrun`), the inputs of the run open fewer, and with one more `Preprocessed` fails; `<...>` does not search the source's directory first; macros do not carry over to the next file.
- Library search: before generates are expanded; `.vhd` files go to the Verilog parser; a file that does not
  define the module it is named after is searched for ever (`simulator.c:385`); the path of a unit read from one is a freed
  string (`simulator.c:418`). `elab->units` is stale after 16, 32, ... units.

Running (`src/libqsim/src/uir_sim.c` unless said otherwise):

- Constants on time: changes of a delayed statement are noticed only while time is at most 30 (7909; the comment there is
  "Append to change list for Phase 2"), so later ones trigger no process.
- A `#0` statement joins the batch being drained, so a loop of them never reaches the limit on batches
  (7903, against 7699). `LastAssignmentWins` without `CleanDesign`: a part select between two whole NBAs is applied last
  (3101); an NBA before a `#0` is applied after one issued behind it (3200).
- Nets that do not settle: `wand w; assign w = en ? ~w : 0` gives w another value in every pass of the loop of phase 2.5
  (8233), inside one batch, so the limit on batches (7704) never sees it and `uir_sim_run` does not return. `RunReturns` says so.
- A run shorter than the distance to the next event returns with the time unchanged (7697): a client that
  repeats it never moves, and a delayed assign stepped in slices shorter than its delay is postponed for ever
  (6784-6816), which also keeps `qsim_session_debug_run` (`session.c:1388`) from returning.
- A signal update queued after a statement under the same key is applied after it (3178, against 3218).
- `disable` of a process that is suspended: its queued statement is marked and the serial loop resumes it all the same
  (7906, against 5814); the names compared begin with a dot, so they never match; a disable from outside a block leaks to the
  next block executed.
- A loop over its budget continues as an event, so statements behind it run first unless it is the last.
  `@(e)` twice in a row is woken by one trigger. A write in `initial_eval`, in a waiter's body or by a statement after time 30
  wakes no waiter. Every process runs once at time 0, whatever it is sensitive to.
- Two std_logic drivers are combined by the IEEE 1164 table, against the comment at 7971 only if the first
  one changes the value: one equal to the current value is not seen and the second overwrites it. `-` and `-` give
  `-`, strong does not beat weak. TRI0 and TRI1 in conflict take the last driver. A ninth driver is dropped, and its change reported (7029).
- Force on a signal that an assign drives does not survive a step. Nets whose drivers change by force or at the start are
  resolved with some later batch. Port wires of phase 1.5, resolved nets and UDP outputs report no change; a
  set before the first run writes silently. Blocking assigns in bodies trigger neither assigns nor other processes. A cascade deeper than 16
  is given up silently. VHDL's `rising_edge` reads the previous value only, which stays after the edge.
- A checkpoint holds no suspended statements, driver slots, previous values, part selects or sources; it restores
  onto another design of the same counts and widths. `clear_breakpoints` leaves the simulation's list. `debug_run` says
  "simulation complete" (`session.c:1395`) with an event more than one unit ahead.

Threads:

- When a worker cannot be created the leader joins workers that wait for a full barrier (7677, against 7675).
- `DestroyLeavesNone` without its premise: `set_thread_count(1)` after a parallel run leaves the
  workers in a context that is freed (6327). TLC shows it with `MaySwitch = TRUE`.
- The workers' branch of the assign phase is empty (7629, against 8144): with `WorkerAssigns = TRUE`, `AssignsEvaluated` fails.
- `find_writes_in_node` (2764-2885) looks for assignments, forces and releases to a name. It passes over the default of a
  `case`, the body of an event control, what a task writes (5649-5702), triggers, targets of `$readmemh` and left sides that
  are not a name; the code claims only that "most writes are within partition" (7527-7529). With
  `always @(a) case (s) default: y = a; endcase` beside `always @(b) y = b;` two threads write y in one phase. `WriteRaceFree`
  is about the other signals.
- A process without a found write gets no edge (2954-2955), and only the thread of its first sensitivity looks at it: with
  a second one on another thread it is not run for that. `ProcessesTriggered` leaves these out.
- Changes of resumed statements are dropped in a batch with signal updates (7809, against 7763), and are on the leader's
  list only in one without: processes and assigns of other threads are not run for them. `ProcessesTriggered` and
  `AssignsEvaluated` are about what updates and assigns change.
- A list is spliced whole where its first event belongs (7594): with `DelayedAssigns = TRUE`, `QueueSorted` fails.
- A delay met by a worker takes from the leader's queue and pool without a lock (3196).

Reference scheduler (`scheduler.c`):

- An NBA for a later time is delivered at the present one: the list does not look at times (272-288), and 361-372, 437-447
  and 490-503 empty it into the active queue. Scheduling in the past is accepted; `CanSchedule` excludes it.
- `overflow_to_wheel` moves an event exactly 256 ahead into the slot that is about to be emptied, so it is delivered one turn
  early (227), and `step_delta` looks into that slot first (413). Time goes on while NBAs are pending (415). Events of one time leave a
  slot newest first (60). Reaching `until_time` ends the simulation for good (354). Callbacks that schedule at the present
  time are not counted as deltas (385).

Network:

- After a call it gave up, the client keeps the connection and compares no ids (`client.py:78-170`), so the next call
  returns the late answer (`Paired` counts the given-up call as due and says just this); `Qiming.compile` then remembers an earlier compile's session, against `__init__.py:10`.
- No request destroys a session; one that failed to compile stays and its id is returned; `get_sessions` can show one
  before it is compiled. One mutex is held while the simulator runs: an endless `debug_run` blocks every client, and a panic
  under it poisons it.

## 8. What is not modelled, and why

- Lexing, the spelling of numbers, formats of `$display`, text I/O, logs, exports (VCD, FSDB), UART capture, the
  coverage interface: data, not order; tests reach them.
- Vector arithmetic, strengths, charge: the models are of one bit. A model of the operators on bits would repeat the tables.
- Specify blocks, timing checks, sequential UDPs, SDF: they decide delays and reports, which the models take as given; their
  grammar rules are left out of `VerilogGrammar`.
- The generated VHDL parser and most of `vhdl_parser.c`: `Lowering` and `Generates` have the parts with state between
  constructs; declarations, packages and types are left out.
- Wave buffer and the sorting of recorded waves: one caller, and `ReportsCurrent` is about what they are given.
- FSM and control-flow extraction, the web view, the desktop shell, the command line: no state that other parts
  depend on.
- Delays met by workers in a parallel batch: the queue's pointers would have to be the state (section 7).
- Fixed tables that no text of the runs fills: 256 operands, 64 names, 16 concatenated names, four dimensions.
- `src/tla/scheduler.tla` models an early scheduler and is not used here.

## 9. What is left

To prove: invariants of the modules of section 6, once what they need of trees is written without recursion. To model: `$monitor` and postponed events, sequential primitives with their rows, the wave buffer as a window on
the history, the declarations of VHDL.
