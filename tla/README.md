# A TLA+ development of the IPSA software switch (ipbm)

IPSA-ipbm is a protocol-independent switch whose program can be replaced while
it forwards packets. This directory holds TLA+ models of its dataplane
(`sw-src/dataplane`), of the gRPC handlers that reconfigure it
(`sw-src/api/dataplane_server.h`), of the order in which the controller
calls them (`sw-src/controller`) and of the back end of the compiler whose
output it loads (`rP4-compiler/rp4c`), TLC configurations that check the models on
small instances, and TLAPS proofs of the main properties for every value of
the constants. `PROJECT.json` lists components, runs, mutants, findings,
hazards and theorems, and maps every definition to the lines it stands for.

    tlc -workers 2 -config MCMatcher.cfg MCMatcher      # one run
    tlapm MatcherProofs.tla                             # one proof module

## 1. The system

`main.cpp` builds a `Pipeline` of 12 processors, starts the gRPC server in a
detached thread, and then loops: receive a packet, `init_phv`, run
`Pipeline::execute`, send or drop. So there is **one packet thread** and a
**server thread**. They share every table below, and no lock is taken anywhere.
A controller waits for the answer to each call before it sends the next one,
so handlers do not run concurrently with each other; a handler and a packet do.

| Component | State | Operations | Must be true of it |
|---|---|---|---|
| Matcher, exact tables (`matcher_c.h`) | SRAM blocks of a cluster; per thread `no_table`, depth, block numbers, pointers to blocks, match fields, miss action | `clear_old_config`, `set_mem_config`, `insert_sram_entry`, `set_*`; `execute` | in a table that has its blocks to itself an undisturbed lookup answers like a dictionary; tables over reused blocks show nothing old; no lookup kills the process |
| Matcher, TCAM (`matcher_c.h`) | TCAM blocks, `tcam_idx` | `insert_tcam_entry`, lookup | the first slot in insertion order answers; the slot counter passes the end only when the table is full |
| Gateway (`gateway.h`) | vector `exps`, map `res_next`, `default_entry` | `insert_exp`, `clear`, `clear_res_next`, `modify_res_map`, `set_default_entry`; `execute` | the operation is the one the current configuration asks for |
| Parser (`parser.h`) | levels of `ps_trans_tbl` and `ps_act_tbl`, `needed_parser_level`, `if_work` | `init_parser_level`, `modify_parser_entry_direct`, `clear`; `parse` | a level finds the entry that was sent; headers do not overlap |
| Processor, Pipeline (`processor.h`, `pipeline.h`) | `procs`, `action_proc_map`, the PHV's `next_proc_id`, `next_op` | `process_packet`, `execute` | packets go forward and leave |
| Executor (`executor.h`) | `_actions` | `insert_action`, `del_action`, `clear_action`; `execute` | no action is run that was not inserted |
| Bit fields (`matcher_c.h`, `executor.h`, `ctrl_mod_table.h`) | packet bytes, match keys, values, parameters | `get_field`, `combine_to_single_key`, `set_action_paras`, `get_op_val_any`, `modify_field_with_data` | controller and dataplane build the same key; an entry's action and parameters arrive; an assignment changes its field only |
| gRPC server (`dataplane_server.h`) | none of its own | one handler per call | a call is one change of the pipeline |
| Controller (`ctrl_init_dataplane.h`, `ctrl_mod_table.h`, `controller_client.h`) | the JSON of the compiler, the calls left to send | `extract`, `add_table_entry` | an update leaves the new configuration and nothing of the old one |
| Compiler back end (`rP4-compiler/rp4c`) | the task: stages, actions, levels, processors, blocks; the task before it | `emitTask`, `emitUpdate` | one table per block; headers are parsed before they are read; merging and renumbering keep the program's meaning; an incremental compilation leaves tables where they are |
| Front end, generated code, first generation | - | - | not modelled |

What is hard about it: the two threads without a lock; handlers of several
steps (a table is switched on before its depth is there); storage that is
reused rather than cleared (blocks, vector cells, map entries that
`operator[]` adds, parser levels out of use); memory that is never
initialised; a loop that only the configuration ends; modulo placement, in
which entries overwrite each other silently. `PROJECT.json` has each of these
as a hazard, at its line, with the properties that would catch it.

## 2. The modules

| Module | Models | Proofs |
|---|---|---|
| `Matcher` (`MCMatcher`) | exact tables of one cluster under handlers and lookups | `MatcherProofs` |
| `ExactTable` | abstract: tables as dictionaries | - |
| `MatcherTable` (`MCMatcher`) | the mapping under which `Matcher` implements `ExactTable` | `MatcherTableProofs` |
| `Tcam` (`MCTcam`) | ternary tables, and exact ones that share their SRAM blocks | `TcamProofs` |
| `Fields` (`MCFields`) | bit fields between controller, table, packet and action | - |
| `Gateway` (`MCGateway`) | one gateway under handlers and packets | `GatewayProofs` |
| `Parser` (`MCParser`) | one parser under handlers and packets | `ParserProofs` |
| `ParserUpdate` (`MCParserUpdate`) | the parser of `Parser`, driven by the controller's `extract_parser` | - |
| `Switch` (`MCSwitch`) | processors in a pipeline, the controller's `extract` call by call, the table tool, packets | `SwitchProofs` |
| `Distribution` | the distribution of parser levels over stages, as operators on graphs | - |
| `Compiler` (`MCCompiler`) | a session of the compiler's back end | `CompilerProofs` |
| `Deploy` (`MCDeploy`) | the compiler's blocks on the dataplane's clusters | - |
| `SliceLemmas` | facts about indices into the arrays of blocks, for both kinds of table | itself |

The modules of the dataplane (`Fields` apart) have the same shape. A handler is
a sequence of actions with a program counter `pc`, cut where the packet thread
can see a difference; the packet's walk is a sequence of actions with a counter
`pp`. `dead` in `pp` and `pc` means that the process is gone, the server's
thread with it. Two kinds of history variable are added: `quiet`, which says
that no handler has met the packet under way, and what was sent (`last`,
`list`, `put`, `sent`, `loaded`), against which the tables are compared; in
`Matcher` and `Tcam` also which tables share blocks (`mixed`, `stale`). Nothing
of the code's behaviour depends on them. Names are the source's names where
TLA+ allows it.

**Matcher.** `StartConfig` to `SetMissAction` are the steps of the handlers
`setMemConfig` and `clearOldConfig` in the order of the code: `no_table`,
fields and miss action; key blocks; value blocks; arrays and depth; then
`no_table = false`, the depth, the two arrays, the pointers and the miss
action. `StartInsert`, `PutKey`, `PutValue` are `insert_sram_entry`, one step
for each block. A word is the set of its bits that are 1, and a value has a
length: `memcpy` copies the last word of a key or a value in part, and what it
does not reach stays in the cell (`Splice`). If a value ends before one of its
table's words begins, the length of the copy is negative and the process dies
(`PutShort`). `TernaryInsert` and `TernaryClear` are what the ternary tables of
`Tcam` do to the SRAM they share with these. `Execute`, `GenerateKey`,
`Locate`, `ReadKey`, `ReadValue`, `Compare`, `Return` are a lookup. Locals are
variables (`pkb`, `pvb`, `out_key`, `out_value`). A modulo by zero (`Locate`)
and a null pointer (`ReadKey`) are `dead`. `Touches` and `SameCell` say when a
handler meets a lookup: it reconfigures the table, or inserts into the cell the
lookup reads. A lookup stays quiet while other cells of its table, and other
tables, change.

Nothing keeps tables apart. `extract()` sends `setMemConfig` thread by thread
(`ctrl_init_dataplane.h:392-420`), so in an update a table may be configured
over blocks that a thread further on, or one the new configuration has dropped,
still has; when that thread is cleared its `clear_old_config` zeroes them under
the new table. The model has these steps, and the history variable `mixed`
follows who is concerned: a table is mixed from the moment another one is
configured over one of its blocks, or it is over one of theirs, or over a block
that a ternary table wrote last (`stale`), until it is itself configured over
blocks that nobody has. `TableExact`, `QuietExact` and `ImplementsTable` speak
of the tables that are not mixed; `FreeBlocksClear` of all blocks;
`QuietNoCrash` of all lookups.

**ExactTable, MatcherTable.** The abstract module knows no blocks: a table is a
set of entries, `Open` gives the all-zero entry that cleared memory cannot be
told from, an insertion first evicts (its own key, and possibly keys of the
same slot) and then adds, `Close` ends the promise for the tables that are
taken down or have become mixed, `Crash` ends everything. `MatcherTable` reads
the content of a table out of the blocks as they are, not out of a history
variable: a cell counts when its key is one that is looked up there and the
running insert is not writing it. `ImplementsTable` says that every step of
handlers, lookups and packets is a step of the dictionaries or changes none.

**Tcam.** Keys and masks are in TCAM blocks, values in SRAM blocks; `tcam_idx`
is the slot of the next entry in all slices. The handlers that configure are
one step here, since their races are `Matcher`'s; `StartInsert`, `PutKey`,
`PutValue` and the scan (`Execute`, one `Scan` per slot, `Copy`) interleave.
Any configuration may be sent to any thread, over blocks that others have;
`mixed` is as in `Matcher`. Keys and values are copied in part (`KeyPart`, and
`part` of an entry).
`tmp_mask` is allocated and never written, so `Execute` takes it from all
values; both `memcpy`s of a slot go to `tmp_key`, so what is compared with it is
the entry's mask. An insertion with `tcam_idx` at the end (`PutLost`)
overwrites what lies behind the blocks: nothing is known from then on.

**Fields.** Buffers are functions from indices to bytes, and the operators do
the shifts of the code. A behaviour takes one entry from the controller into
the table (`Insert`, which like `ctrl_mod_table.h:275` sends the parameters
without the id that was put before them), a packet to its key and the action it
hits (`Match`), the entry's value to the action's parameters (`SetActionParas`)
and an assignment back into the packet (`Run`). The properties compare the ends
with definitions by single bits (`BitOf`, `Put`, `Holds`, `Bits`). The tool's
`extract` looks at no entry's `type`: `table_mod` and `table_del` insert like
`table_add`.

**Gateway.** `exps` is modelled with its storage (`cells`), `size` and capacity
(`cap`, doubled by a full `push_back`; the bound `MaxExp` is a power of two in
the code, 8). The loop of `execute` runs to the capacity, as in the code: cells
behind `size` hold an expression of an earlier configuration or `Junk`. Junk
evaluates to anything (`EvaluateJunk`) or kills (`Crash`). `find` and
`operator[]` are separate steps. `Grow` and `MapRace` are the states in which
the containers of the library are not consistent.

**Parser.** The slot of an entry is computed as the code does (`Index`), the
two tables are written in two steps, `clear` walks the levels in use, `parse`
takes the first slot that matches. A slot of `ps_act_tbl` which no code has
written is `Garbage`: read as any action of `Stray`, or `dead`. Lengths are
truncated to the 8 bits of `modify_parser_entry_direct` (`% LenMod`). An entry
has at most four fields (`NField`), the cells of `trans_fds`.

**ParserUpdate** reuses `Parser`'s actions; only the controller is new: it
sends the calls of `extract_parser` for one configuration after another.

**Switch.** The controller's place in `extract()` is the processor it works on
(`cur`), the call it makes next (`at`) and what it has still to send to that
processor: entries of the gateway's map, tables, actions (`ents`, `tabs`,
`acts`). The JSON arrays these come from have an order; the model lets the
controller take the elements of one array in any order, which includes the one
it has. Each call is a step; `setMemConfig` is two. `action_proc_map` is a
total function in which `Absent` stands for a missing key. A packet walks
through parser, gateway, matcher, `action_proc_map` and executor of one
processor after the other. What expressions, keys and parser entries compute is
the subject of `Gateway`, `Matcher` and `Parser`; here they are choices among
the outcomes those modules show. The parser dies on the key of all ones
(`ones`). The gateway comes out with any bitmap; `find` and `operator[]` are
two steps, and the null operation that `operator[]` leaves in `res_next` stays
there; `exps` has its size, its capacity and the number of cells ever written,
and an unwritten cell below the capacity (`Spare`) can kill. A table is the
blocks it has: a hit gives some action that was written to one of its `heads`
(the blocks with the first words of its values), by whichever table, or action
0 if the block was cleared. `add_table_entry` writes any action, since the tool
sends the value without the id. `operator[]` of `action_proc_map` answers
processor 0 for an unknown action and keeps that answer.

A configuration is only well typed (`WellFormed`). That it leads forward, that
its miss actions are in its maps, and the actions of its maps in the executor
(`Sound`), is no assumption: the compiler does not see to it (first fit can
place a later stage on a lower processor, `ipsa_memory.h:72-86`; a table
without a default action gets the id 0, `ipsa_table_manager.h:69-79`, which may
be any stage's). It is part of the condition `Flawed` under which the
properties let a packet go astray; see the conditions below.

**Compiler, Distribution.** A program is a record: stages with their `switch`
entries and the actions that lead on, tables with sizes, assignments of each
action, the parser's levels. `EmitTask` loads one; each loop of the code is an
action that takes one iteration: `RemoveEmpty` (merging of virtual stages),
`PlaceStage`, `SetConfig` and `NextConfig` (full allocation; the tables of a
stage are an inner loop with the variable `item`), `NewTable` (incremental),
`BuildProcessor` (`processors` has the entries that are not null). `Renumber`,
`AllocateParsers`, `KeepMemory` and `Output` are the parts without such a loop.
The distribution of levels is `distributeParsers` of `Distribution`. The code's
reads outside of a vector (`logical_stages[-1]`), its `operator[]` on maps,
uninitialised widths (`Junk`) and loops on cyclic graphs or along merged stages
that lead to each other (`Endless`) are modelled as what they can give, or
`dead`. The history variable `spoiled` collects what has come up since the last
full allocation that makes blocks of tables meet (`Trouble`).

**Deploy** adds to `Compiler` only the physical number of a block on the
switch.

### What is abstracted

- Widths of keys and values are constants of `Matcher`, and so is the length of
  keys (`KeyBits`; in `Tcam`, `KeyPart`), which the compiler's width is
  computed from. The code zeroes widths with the depth; only a disturbed lookup
  could tell. A lookup reads the depth once (`Locate`), the code once per use
  in the same statements.
- The bytes one `memcpy` writes into a word appear at once. A torn word can
  only be seen by a lookup whose cell is being written, and nothing is claimed
  about it.
- The steps `Apply` and `ClearLevel` of `Parser` are whole; the parser's
  properties are about parses that no handler met.
- `SetFieldInfo`, `StartInsert` and `SetNoTable(FALSE)` are sent for tables
  that are configured, as `extract_matcher` and the table tool do.
- A memory configuration uses no block twice (`WellFormed` of `Matcher` and
  `Tcam`). Two of them may share blocks: `BlocksDisjoint` of `Compiler` says
  when the compiler's allocation keeps the tables of one configuration apart
  within its own clusters; `TablesApart` of `Deploy` shows that this is lost on
  the clusters of the dataplane (finding 5); and between two configurations
  there is no such rule at all.
- In `Tcam` a reconfiguration and an exact insertion are one step each, and so are
  all the words of one key.
- In `Compiler`, names are numbers in the order of the names, expressions and
  JSON are left out; an action is the set of its assignments.
- In `Switch`, what expressions, match fields and keys compute is left out, as
  is metadata; blocks are sets of the actions their words can be read as, and a
  write only adds to them.

## 3. The runs

| Run | Result | Shows |
|---|---|---|
| `matcher` | pass, 1 110 564 states | In a table that has its blocks to itself: `TableExact`, each cell holds the last insert since the table was configured, to its length, and nothing of the blocks' former tables; `QuietExact`, a lookup that no handler met answers as a dictionary; `ImplementsTable`, such tables implement `ExactTable`. In all: `FreeBlocksClear`, a block no table has is clear, whoever shared it before, unless a ternary table wrote it last; `QuietNoCrash`, a lookup no handler met does not kill the process. |
| `matcher_crash` | violation of `NoCrash` | an update under traffic can end the process |
| `gateway` | pass, 1 761 380 states | `QuietDecision`: with no spare cell and no leftover key an undisturbed packet gets the configured operation. `QuietNoCrash`: only a spare cell kills. `MapKept`: leftovers are null operations. |
| `gateway_stale` | violation of `ClearedDecision` | a cleared and refilled gateway still evaluates old expressions |
| `parser` | pass, 792 393 states | `SearchExact`: an undisturbed level finds an entry that was sent, with its action, and misses only if there is none. `HeadersDisjoint`: headers lie one behind the other. `QuietNoCrash`: only the key that an empty slot stands for kills. |
| `parser_update` | violation of `UpdateReplaces` | entries of the previous configuration stay in force |
| `switch` | pass, 474 709 states | `QuietForward`: a packet that meets no update goes back only from a processor that is `Flawed`. `QuietNoCrash`: it dies only there, at a spare cell of a gateway, or of the parser's key of all ones. `PacketLeaves`: every packet leaves or the process ends, unless a loaded processor is flawed. |
| `compiler` | pass, 151 728 states | `LevelsReady`: on every way through the stages headers are parsed, in order, before they are read. `BlocksDisjoint`: no two tables of a cluster share a block, none lies outside. `RoutesKept`, `UpdatesReach`: actions, default entries and table updates reach what they were meant for after two renumberings. `EffectsKept`: merging changes nothing for a packet. `EntryFirst`: packets start at a stage nothing leads to. `KeptInPlace`: an incremental compilation leaves tables on their blocks and in their cluster. |
| `compiler_clusters` | violation of `TablesApart` | tables of two processors get one SRAM block on the switch |
| `tcam` | pass, 1 175 939 states | In a table that has its blocks to itself: `TableHolds`, each slot holds what was inserted since the table was configured; `QuietLookup`, an undisturbed scan stops at the first slot that fits and returns that slot's entry. In all: `LostOnlyFull`, only a full table is overrun. |
| `fields` | pass, 36 126 states | `KeysAgree`: a packet hits an entry exactly if its field has the entry's value. `ParasExact`: an action's parameters are the bits behind the id in the stored value. `AssignExact`: an assignment sets its field and no other bit. |
| `fields_update` | violation of `EntryArrives` | an entry as the runtime compiler writes it arrives without the id of its action |

**Conditions in the properties.** Where the code does not do what one would
expect, the property names the condition under which it does, and the model
goes through the other cases too.

- `TableExact`, `QuietExact`, `ImplementsTable`, `TableHolds`, `QuietLookup`: the
  table is not `mixed`. A mixed table shows other tables' words, can lose its
  entries to another thread's `clear_old_config`, and an insertion into either
  writes the other; the model has all of it, and no property can hold of it.
- `Flawed` of `Switch`, of the configuration a processor was last loaded with:
  it is not `Sound`; or `Leftover`, `operator[]` of `res_next` has left a null
  operation at a bitmap the configuration does not set, and it has no table 0
  to lead to; or `Foreign`, a word in the table's blocks is read as an action
  that is none of the table's: an entry sent without its id
  (`ctrl_mod_table.h:275`), a word another table left there or writes, or the
  action 0 of a cleared cell. Besides these, `QuietNoCrash` names what
  `Gateway` and `Parser` show: a spare cell and the key of all ones. None of
  them can be left out on the instance of the run: without the leftover TLC
  finds a packet that met no update and goes back, without any of the others
  one that dies. What is left to show is that nothing else an update can leave
  behind does.
- `BlocksDisjoint`: since the last full allocation no error message was
  printed, no table was keyless (`ipsa_table_manager.h:81` leaves its widths
  unset), no table was listed by two stages (it gets blocks for each, in
  either's cluster), and no incremental compilation added a table or moved one
  between SRAM and TCAM (new SRAM blocks are marked in the wrong bitmap,
  `ipsa_builder.h:354`, `368`) or had a copy of stage 0 on a lower processor of
  another cluster: the incremental allocation leaves `physical_proc_id` unset
  for processors without a stage, `operator[]` reads that as 0
  (`ipsa_builder.h:141`), each of them becomes a copy of stage 0, and the first
  copy is the one that actions and table updates are led to (`:198`); in the
  other cluster its tables' blocks belong to other tables. The last condition
  came out of the proof: without it the step `Output` cannot be proved, and TLC
  shows two tables on one block. A full allocation ends all of these: what came
  before it does not matter.
- `LevelsReady`: ways of at most as many stages as there are, from a stage
  without a predecessor on. On a graph with a cycle `topologicalSort` ends the
  process.
- `EffectsKept`: no action is run by two entries (`concatAction` changes the
  action they share), and no merged stage leads to a merged one or to `None`
  (`reorder_map` has lost it, or `logical_stages[-1]` is read,
  `ipsa_processor_manager.h:101-112`).
- `RoutesKept` speaks of default entries after full compilations only: an
  incremental one leaves copies of stage 0 on the unused processors, and each
  copy renumbers the entry again (`ipsa_builder.h:203-209`); `KeptInPlace` leaves
  stage 0 out for the same reason.
- `UpdatesReach`: no table is listed twice (the last stage that lists it gives
  it its ids, `ipsa_table_manager.h:27`). `KeptInPlace`: the table had a
  processor; the stage of a table can have been merged into nothing.
- `TableHolds`, `QuietLookup`: words in the upper half of the slots of a reused
  SRAM block, where no entry was inserted, may be old (`matcher_c.h:145`); in
  `Matcher` a table over such a block is mixed.
- `QuietLookup` says which slot answers for each content of `tmp_mask`; that
  is not a ternary match (`matcher_c.h:535`).
- `KeysAgree`: keys of one field. With two the copies of
  `combine_to_single_key` put the second at different bits (`matcher_c.h:434`,
  `ctrl_mod_table.h:70-72`).
- `ParasExact` speaks of the value as it is in the table, and makes no assumption
  on how it got there. That what is in the table is not what was entered is
  `EntryArrives` (finding 4), stated for parameters of whole bytes.
- `AssignExact`: a source field of whole bytes (`executor.h:155` cuts nothing),
  a value that fits and is at most one byte shorter than its place
  (`executor.h:415`).

Deadlock is not checked: once the process is dead nothing happens. In `Switch`
the controller may also have used its updates; packets go on arriving.

The runs `matcher` and `tcam` do not go on from a state in which a handler has
met the lookup under way (`CONSTRAINT Followed`): such a lookup is in no
property, and changes nothing that other steps read; that it can kill the
process is the run `matcher_crash`, which has no such constraint. The theorems
have none either.

**Bounds.** `matcher`: six blocks of two slots, words of two bits, two threads,
keys of one bit, values two words wide and four, two or one bits long, three
memory configurations of which one lies over the blocks of both others with the
roles of key and value blocks exchanged, and a block that a ternary table
writes. That is enough for tables to be handed blocks with old content, or
blocks another one still has, for depths 1 and 2, for a value that is written
in two steps, in part, or with a negative length, and for the zero key, which
shares a cell with the key 1 in a table of one slice and not in one of two, so
that insertions evict and do not. `gateway`: four bits, so that the vector
grows 0, 1, 2, 4 and has a spare cell with three elements; two expressions that
differ on the packets, of five kinds of operand the four that read a packet or
a constant. `parser`: two levels of eight slots, keys of two digits, a start
entry, an entry for one key with a length that is truncated, one that shares
its slot, two actions of one wildcard, and packets with the key of all ones;
the key 3 of a fresh packet stands for the 0xffff of `init_phv`, which is not
all ones in 32 bits. `switch`: two processors with two tables each, two blocks,
three actions of which one takes a parameter, and three configurations: a sound
one for both processors, one of the first that puts a ternary table with other
actions over the old table's block and has a spare cell, and one of the second
that leads back and whose miss action takes a parameter. Two updates
(`MaxUpdate`): the first shows loading, the second an update of what packets
and entries have left. `compiler`: three clusters of two processors, six SRAM
and two TCAM blocks each, two levels per processor, three compilations
(`MaxCompile`); all chains and joins of three mergeable stages, three shapes of
four stages over two parsers with every choice of headers, tables that fill a
cluster or do not fit, tables that disappear, change their size or their
memory, keyless tables, a table of two stages, an empty program, one whose
parser loops and one whose merged stages lead to each other. Only the programs
of `Later` are followed by another compilation. `compiler_clusters`: the sizes
of the code, chains of up to six stages. `tcam`: two slots, so that the third
insertion overruns the table and one slot is in the half that is not cleared; a
table of two slices, one of one, and an exact table over the SRAM blocks of
both, each for either thread; keys that fill a word and a half. `fields`: every
bit offset within a byte and every length up to 18, so that fields take one to
four bytes; values with all ones, one bit at either end, and alternating bits,
on a background of zeros and of ones; parameters behind one of 3 or of 8 bits,
in a slot with zeros or with an older value. Nothing in these operators depends
on longer fields: they treat first, inner and last bytes.

**Fairness** (`Switch`). `WF(Advance)`: the packet thread is a loop
without waiting once a packet is there. `WF(Load)`: a controller that has begun
a configuration goes on; `extract` is a straight sequence of calls. Arrival of
packets and beginning of an update have no fairness. `PacketLeaves` needs
`WF(Load)`: between `set_mem_config` and `set_action_proc` a table sends its
packets round through processor 0. It does not hold of a flawed processor that
stays loaded: an action its map does not have leads to processor 0 for ever.

**Mutants.** Each property of a passing run has a mutant of a mapped
definition that breaks it (see `PROJECT.json`): a clear that forgets the
width, a comparison that stops early, an action table that is not written, a
map that is merged the wrong way round, and so on.

## 4. The findings

1. `matcher_crash`: `set_mem_config` resets `no_table` (`matcher_c.h:168`)
   before depth and pointers are there, and `clear_old_config` zeroes the depth
   under lookups that have passed the test of `no_table`. The top-level README
   (line 76) tells the operator to update the running switch.
2. `gateway_stale`: the loop of `Gateway::execute` to `exps.capacity()`
   (`gateway.h:177`) evaluates what `clear()` has left.
3. `parser_update`: `extract_parser` never calls `clear_parser`;
   `rP4-compiler/testcases/README.md:163` says that an update does.
4. `fields_update`: the table tool builds a value of the action's id and its
   parameters, `new_value`, and sends the parameters alone
   (`ctrl_mod_table.h:275`). The dataplane takes the first two bytes of what it
   gets for the id, and the parameters from behind them: the entry runs another
   action, with other parameters.
5. `compiler_clusters`: the compiler has clusters of four processors, as
   `rP4-compiler/testcases/README.md:155` says, the dataplane of three
   (`defs.h:42`). Processor 3 is numbered on from 0, 1 and 2, processors 4 and 5
   from block 0, and on the switch the three share their blocks.

## 5. The proofs

Twenty-nine theorems, for every value of the constants that satisfies the
assumptions. All but three have the form `Spec => []Property`;
`QuietPacketsGoForward` and `TablesStay` are action properties and
`TablesAreDictionaries` a refinement.

| Module | Theorems |
|---|---|
| `MatcherProofs` | `TypeCorrect`, `TablesAreExact`, `FreeBlocksAreClear`, `QuietLookupsAreExact`, `QuietLookupsDoNotCrash` |
| `GatewayProofs` | `TypeCorrect`, `MapIsKept`, `QuietPacketsFollowTheProgram`, `QuietPacketsDoNotCrash` |
| `ParserProofs` | `TypeCorrect`, `QuietSearchesAreExact`, `HeadersDoNotOverlap`, `QuietParsesDoNotCrash` |
| `TcamProofs` | `TypeCorrect`, `TablesHold`, `QuietLookupsAreExact`, `OnlyFullTablesOverrun` |
| `SwitchProofs` | `TypeCorrect`, `QuietPacketsDoNotCrash`, `QuietPacketsGoForward` |
| `MatcherTableProofs` | `TablesAreDictionaries` |
| `CompilerProofs` | `TypeCorrect`, `ActionsReachTheirStages`, `EntryOnProcessorZero`, `UpdatesReachTheirTables`, `TablesStay`, `BlocksApart`, `LevelsAreReady`, `MergingKeepsEffects` |

**Assumptions.** Sizes are positive. A memory configuration uses no block twice
and fits the arrays (`RequestAssumption`, what the compiler writes); two
configurations may share any blocks. A table has as many key blocks side by
side as the key needs (`KeyBitsAssumption`); values have any length. Keys are
words, the byte sum is any function into the naturals. `Junk` is no expression.
And with the mask of all ones keeps a key (`KeyAssumption`). Nothing is assumed
of the entries of the parser but their types and that they have at most four
fields. A configuration of the switch is well typed (`ConfigAssumption`), and
no more. A program the compiler is given is one its managers can load
(`ProgramAssumption`): finitely many stages, numbered from 0 as
`logical_stages` is, finitely many parser levels, and the tables the stages
switch to exist, as `lookup` is followed without a test; sizes are computed by
rounding up and are naturals, and memory is SRAM or TCAM; the entries of an
executor are a list of actions and of stages, where `-1` stands for one that
was not found (`ipsa_processor_manager.h:51-55`). Its graphs, parser, sizes and
actions are arbitrary, cyclic ones included. The null values of the models
(`NoEntry`, `NoConf`, `NoThread`, `NoInsert`) are none of the values they stand
beside.

**Matcher.** None of the three properties is inductive. The invariant `IInv`
adds: `HandlerInv`, what the running handler has reached and that its counters
are in range; `MemInv`, which says in parts that outside of a reconfiguration a
thread of depth 0 has `no_table` set (`NoTableInv`), that a complete
configuration uses each block once (`ConfigInv`), that a table which is not
mixed shares no block with any other (`DisjointInv`), that blocks of no table
are cleared unless they are `stale` (`ClearInv`, why a new table over them
starts empty), and that every cell of a configured table that is not mixed
holds what the history says, up to the step the running insert has reached
(`ContentInv`); `LinkInv`, that a configured thread has its pointers; and
`LookupInv`, what a quiet lookup has read so far, compared with the history.
`ClearInv` holds of shared blocks too: the thread that has a block last clears
it. Disjointness of blocks is what keeps a handler for another table, mixed or
not, away from one that is not mixed, and injectivity of the arrays what keeps
an insert inside of its cell. `SpliceCut` is why a partial copy suffices: what
is read to the length that was written is what was written.

**Gateway.** `Inv` adds `ListInv` (the cells below `size` are the expressions
sent) and `LoopInv` (the bitmap of a quiet packet is the outcome of the first
`i` cells, by induction over the steps of the loop).

**Parser.** `IInv` adds `SlotInv` (each slot is unset, or holds an entry that
was sent with its action, except for the slot under way; and if entries do not
share slots each entry sent is in its slot), `ParseInv` (what a quiet parse has
found), `HeaderInv` and `Disjoint` (extracted headers end at or before the
current offset, which is why the next one overlaps none).

**MatcherTable.** The content of a table is read out of the blocks, so a step
that writes a block could change any table. `IInv` of `MatcherProofs` says what
every cell that is not being written holds; with it the content equals a set
that is made from the history alone (`ContentIsStored`), and then each action
is looked at for what it does to that history, to the depths and to the
handler: `StartConfig` is `Close`, or nothing if the thread had no table;
`SetValueConfig` and a ternary write are `Close` for the tables that become
mixed by it; `SetMissAction` is `Open`, if the table is not mixed;
`StartInsert` is `Evict`, since an entry that goes has the cell, and so the
slot, of the new key; the last `PutValue` is `Add`; a fatal lookup or insertion
is `Crash`; all other steps change nothing. `Open` needs `NewTableInv` besides:
nothing is in the history of a table that is about to be turned on.

**Tcam.** `IInv` has `Matcher`'s parts with two differences. SRAM blocks of no
table are clear in their lower half only (`ClearInv`), so `CellHolds` says
nothing of values above it where no entry was put; and the slots are given out
by a counter, so `IdxInv` ties the counter to the table in place: it is 0
without a ternary table, and each slot below it was given to an entry of some
slice. That is what `LostOnlyFull` follows from. `ContentInv` treats the cell
whose key is written and whose value is not (`Pending`) by itself. The masks a
quiet scan has passed over and the one it stopped at are compared with the
history in `LookupInv`.

**Switch.** The properties speak of packets that meet no update, but a packet
finds what every update before it has left, also on processors that the last
configuration does not mention. The history variable `loaded` has, for each
processor, the configuration it was last loaded with. `LoadInv` says that every
processor that works has all of that configuration (`ProcLoaded`): its default
entry, its map with nothing besides but null operations (`GateLoaded`), its
miss actions and maps (`TabLoaded`), its actions; and the processor under way
what was sent so far. The processor 0 that `operator[]` adds to a map under an
update does no harm to it, because `set_action_proc` overwrites the keys of the
configuration. `QuietInv` follows a packet: if the processor is not flawed, the
operation it got is the configuration's (`GateLeads`; a null operation counts
when there is a table 0), the action is one of the table's, has its value, and
leads forward; and if the packet died, it was for one of the five reasons.
Nothing about the configurations is needed for this but their types.

**Compiler.** The model computes with recursive functions: the topological
sort, sums over the tables of a stage, the picking of switch entries. The
library's induction theorems take an operator, which the provers cannot
instantiate, so `SetInduction` derives induction over a set of naturals from the
well-foundedness of `<` (`WFMin`), and with it each recursive function is shown
to exist and to have the values of its equation (`SumExists`, `PickExists`,
`SortExists`). `SortInOrder` and `SortComplete` then say of `topologicalSort`
that it repeats no stage, puts each one after its predecessors and, on a graph
without a cycle, leaves none out.

`CompilerInv` follows a compilation. `StageInv`: after `Renumber` every number
of an action or a default entry is that of a stage, or `None`; this rests on
`Rank` being a bijection (`RankOnto`). `SortInv`: `topo` is sorted and complete.
`FullInv`: in a full allocation the stages placed so far have one processor
each, every cluster is filled from its first processor on (`Dense`: why the next
one is free), and the first stage is on processor 0, since all clusters have
the same room as long as nothing is placed. `KeptInv`: in an incremental
allocation every stage has a processor although the others are overwritten
with 0 (`SlotsApart`: the positions in the old clusters differ), and tables and
stages are in their old clusters (`Carried`). `BuildInv`: a processor holds the
stage that was placed there, those that only parse have numbers beyond the
stages'. `OutInv`: `proc_proc` maps each number to a processor that has it.
`TableInv` ties a table to the stage that lists it; it needs that the loop along
merged stages ends at a merged stage (`LastIsMerged`), or a copy could claim
the table of a stage that is left. All parts were checked by TLC on the
programs of the run `compiler` before they were proved.

`BlocksApart` rests on `BlockInv`. In a full allocation the space left in a
cluster is its memory without what its stages need (`SpaceKept`). The loop that
numbers the blocks goes through the stages in another order than the one that
placed them: its counter of a cluster is the sum over the tables it has handled
(`NumbersKept` in `ConfigInv`), and as that is part of the sum over all stages
of the cluster, every number stays inside of the memory. Tables that were
handled are apart and below the counter, the others have no blocks, which gives
`FullApart`. In an incremental allocation a table keeps its blocks, and they
are apart because they were in the previous output (`PrevApart`), in the same
clusters: the cluster of a stage is that of all its old tables (`KeptAgree`).
`OutLink` ties the output to what the next compilation reads of it; there the
processor of a table is the one found for its stage, which is where the copies
of stage 0 come in.

`LevelsAreReady` is a statement about `distributeParsers` alone. `TotalLevels`
of a stage are those of its own headers, closed under the levels that lead to
them (`LevelLevelsClosed`), and what all its predecessors have in common;
`TotalLevelsValue` shows that the recursion along `topo` has the values of its
equation. `ParsedOnTheWay`: by induction along a way, everything in the total of a
stage was parsed at a stage of the way up to it. The sort at the end keeps the
order of the parser's graph (`PickedOrder`), so that the levels which lead to
one are before it in its stage or at an earlier one. `LevelInv` carries the
outcome, which no later phase changes, to the end of the compilation.

`MergingKeepsEffects`. Where a packet goes on from a virtual stage is defined
by a recursive function over a graph that can have circles before the sort has
refused them; `OnwardExists` shows that its equation has a solution in any case
(the orbit of a node ends, or nodes of one orbit share a value). `MergeInv`
says, after each iteration of `RemoveEmpty`: merging changes no entry but for
what it assigns and where it leads (`ActsKept`); what an entry assigns, with
what is assigned on its way, is as in the program, and the way ends at the same
stage (`WaysKept`); an entry that still leads to a merged stage has that
stage's assignments (`HandedOn`); and a virtual stage leads to one the loop has
not come to as it did (`Untouched`). `Linked` says of the renumbered stages
that they lead where the entries led, or past a merged stage. The ways through
these stages and through the program are then compared by `SameWay`, by
induction from the end of the topological order. `NoChain` is needed where a
merged stage is passed, `OwnActions` where the assignments of an action change.

**Only model-checked.** `KeysAgree`, `ParasExact` and `AssignExact` of `Fields`
and `TransKey` of the parser: shifts by a variable number of bits are products
and quotients with powers of two, and what the folds over bytes of any length
yield is an induction over data with them; both are beyond the provers here.
Every case they distinguish is in the run: see the bounds of `fields`. Liveness
(`PacketLeaves`: fairness and `ENABLED` are out of the prover's reach), and the
violations, which TLC shows.

## 6. Not modelled

- Metadata headers (`setMetadata`). An accepting entry has header number 0, and
  so has metadata in the shipped programs; `parser.h:239` writes that header's
  offset before it tests for the accepting state.
- `del_action` and `clear_action`: the controller has the calls and never makes
  them.
- The 32-bit arithmetic of `Primitive` (no property of the system depends on
  what an action computes), and `modify_phv_with_data`, `get_field_value` and
  `get_uints`, with which `main.cpp` writes the port of arrival into the
  metadata and reads the port to send from (`main.cpp:47-48`, `101`), and with
  which the controller writes numbers into its messages.
- Sockets, interfaces, JSON, files and the command line of the controller: I/O.
- In the compiler, syntax trees, `yacc.cpp` and `lex.yy.c` (generated), the
  printing of the output and the front end `p4r`: translations without lasting
  state.
- `matcher.h`, `matcher_b.h`, `physical_memory.h` and `entry.h`: not used by
  the dataplane that is built. `ipbm-old` and `rp4c-old`: superseded.
- Two copies of a JSON library, rapidjson, the protobuf code and a hash
  function. These, the generated parsers and the superseded generation are most
  of the repository's lines; what is mapped is the running dataplane, its
  controller and the back end of the compiler.

## 7. State of the development

`Matcher`, `Gateway`, `Parser`, `Tcam`, `Switch`, `Compiler` and the refinement
of `ExactTable` are modelled, checked and proved: each of their safety and action
properties that a passing run checks is a theorem. `ParserUpdate`, `Fields` and
`Deploy` are checked by TLC.

Hazards that a property leaves out by its condition say so in a `note` in
`PROJECT.json`; for those the model has the behaviour, and the properties
describe the others.

What would be worth adding: the metadata headers as state of `Parser`, whose
offset and length `setMetadata` exchanges (`dataplane_server.h:48` against
`defs.h:69-73`); the compiler's parser entries, to compare the key of a select
over two fields with `TransKey`; and a condition on programs under which no
trouble of `Trouble` arises.
