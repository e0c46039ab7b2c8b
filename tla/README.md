# TLA+ models of dbus-cpp

This directory holds TLA+ models of the dbus-cpp sources under `src/`, the TLC
configurations that check them, and TLAPS proofs. `PROJECT.json` lists:
- the components, and which module models each;
- every run and what it checks;
- the mutants that show each property depends on the code;
- the source lines each definition translates;
- the findings, the hazards and the theorems.

## The system and its parts

dbus-cpp wraps libdbus. Its parts, and how they meet:

| Part | Source | What it does |
|---|---|---|
| Reactor adapter (asio Executor) | `src/src/core/dbus/asio/executor.cpp` | libdbus announces *watches* (fd interests) and *timeouts* through add/remove/toggle callbacks. The executor gives each one a `Watch<>` or `Timeout<>` adapter, owned by a `Holder` stored as the libdbus object's data. A wakeup callback posts a drain of the dispatch queue. |
| Wire codec | `src/src/core/dbus/message.cpp` | `Message::Writer` appends arguments (`push_*`, `open_*`/`close_*`). `Message::Reader` reads them back (`pop_*`), checking basic types with `ensure_argument_type_or_throw`. |
| Message factories and accessors | `message.cpp` 495-674 | One libdbus call each. |
| Bus | `src/src/core/dbus/bus.cpp` | Owns the private connection. Installs the filter that feeds the router, then sends Hello. Also handles names, sends, matches and object-path registration, with a `VTable` holding a weak pointer to the Object. |
| Router, PendingCall, Object, Property | headers (`property.h`), and code not under `src/` | Dispatch of replies and signals, and cached remote properties. |
| Signature helper, traits, introspection | headers | Compile-time signatures, trait glue and static descriptors. |

How the parts interact:
- Executor → Bus: `dbus_watch_handle` reads the socket and queues messages. The wakeup drains them through `dbus_connection_dispatch`, which calls the Bus filter (`static_handle_message` → `message_type_router`) and the object-path VTables.
- Everything runs on the thread that calls `Bus::run()` (`io_service::run`). The exception is libdbus, which calls the toggle and remove callbacks on the thread that sends.

## Hazards this code has (inventory)

Each hazard is in `PROJECT.json` with its line.

- **Watch adapter** (executor.cpp):
  - A freed watch reached through a late completion (200).
  - `restart()` reading the flags of a watch freed inside `dbus_watch_handle` (254).
  - A completion queued before `cancel()` re-arming a watch disabled since (254).
  - A watch added disabled is never monitored (280). This takes two direct steps: `on_dbus_add_watch` returns for a disabled watch, and `on_dbus_watch_toggled` finds no Holder. No run checks it.
  - An error completion is never re-armed (245).
  - An out-of-memory throw stops the reactor (251).
  - Callbacks from the sending thread race with the reactor (306).
  - The Executor constructor throws after installing the watch functions with `this` when installing the timeout functions fails, leaving libdbus with a dangling `this` (370). This needs allocation failure, which is not modelled.
- **Timeout adapter:**
  - A toggle to disabled leaves the timer armed (120).
  - An expiry queued before a remove still fires (325).
  - The weak pointer must keep handlers off freed timeouts (132).
  - Waits must not pile up (128). The model takes `expires_from_now`'s abort of the earlier wait as given (`Armed` sets the count to one), so no property checks it.
  - Every enabling must arm the timer (118).
- **Dispatch:**
  - Wakeups are not collapsed (338), although the spec asks for at most one pending drain. The model posts a drain per wakeup, as the code does. No property states the spec's rule; `WakeupDrains` checks only that the drains still empty the queue.
  - One static `io_service` is shared by every `make_executor(bus)`, so each bus's `run()` thread runs every bus's drains (402).
  - Stopping one executor stops that shared `io_service` for every bus, and nothing calls `reset()` (391).
  - Messages queued before the wakeup function is installed wait for the next wakeup (372). An example is a signal read during the constructor's blocking Hello call. The constructor installs the wakeup function but drains nothing. No run checks this: `WakeupDrains` starts from a posted drain.
- **Bus:**
  - `register_object_for_path` leaks its VTables (377).
  - A failed Hello leaves a filter pointing at a Bus that does not exist, on a connection nobody closes (176).
  - `install_executor` stores the Executor in the Bus, and the Executor holds a `Bus::Ptr` (341, executor.cpp 395). Neither destructor ever runs, so `~Bus` never closes the connection and `~Executor` never stops the `io_service`. Reference counts of application handles are not modelled.
- **Codec:**
  - Container pops do not check the argument type (221).
  - The parent must advance past a container (227).
  - A failed append leaves a container open (292).

## Modules

### ExecutorWatch (watch adapter), MC_ExecutorWatch

State:

| Variable | Meaning |
|---|---|
| `wstate[w]` | libdbus's view of the watch: new, added, removed, freed. |
| `enabled[w]` | `dbus_watch_get_enabled`. |
| `data[w]` | Generation of the adapter the Holder owns. 0 is none. |
| `gen[w]` | Adapters created so far. |
| `pending[o][d]` | Outstanding `async_read_some`/`async_write_some` of adapter `o = <<w, g>>`. |
| `queued[<<o,d,ec>>]` | Completion handlers queued with success or error. Aborted handlers return at once, so they are dropped. |
| `strong` | The adapter kept alive by the handler's `sp` while `dbus_watch_handle` runs. libdbus callbacks may run in that window. |
| `running` | `io_service::run` has not thrown. |
| `access` | The DBusWatch the adapter touches in this step: a handle call, or the flags read by `restart()`. |
| `failed` | History: the directions an error completion ended. |

Actions, one per callback or step:

| Action | Code |
|---|---|
| `AddWatch` | `on_dbus_add_watch` + `start` |
| `RemoveWatch` | `on_dbus_remove_watch` |
| `ToggleWatch` | `on_dbus_watch_toggled` |
| `FreeWatch` | `Holder::ptr_delete` |
| `Complete` | the reactor finding the fd ready |
| `RunHandler` | `wp.lock()` and `on_stream_descriptor_event` up to the handle call |
| `HandlerReturn` | the rest of `on_stream_descriptor_event`: the OOM throw, or `restart()`, then `sp` released with `~Watch` |

### ExecutorTimeout (timeout adapter)

State:
- `tstate`, `tenabled`, `tdata`, `tgen`: as for watches.
- `armed[o]`: outstanding `async_wait`s.
- `tqueued[o]`: expired waits whose handler is queued.
- `fired`: the timeout `dbus_timeout_handle` ran on in this step.
- `owed`: history of the timeouts armed since their last handle call.

Actions:

| Action | Code |
|---|---|
| `AddTimeout` | `on_dbus_add_timeout`. It creates an adapter whatever the flag, and `start()` arms only an enabled timeout. |
| `RemoveTimeout` | `on_dbus_remove_timeout`, i.e. `cancel()` |
| `ToggleTimeout` | `on_dbus_timeout_toggled`, i.e. `start()`: `expires_from_now` aborts the earlier wait and a new one is armed, or it returns early when disabled |
| `FreeTimeout` | `ptr_delete`. The timer dies with the adapter. |
| `Expire` | the deadline passing |
| `RunTimeoutHandler` | `wp.lock()` and `on_timeout` |

### ExecutorDispatch (wakeup drain, run and stop)

State:
- `ioOf[b]`: the `io_service` of bus `b`'s executor. It is `"static"` for `make_executor(bus)`, `b` itself for `make_executor(bus, io)` with an `io_service` per bus, and none before `install_executor`.
- `stopped[s]`: `io_service::stopped()`.
- `posted[b]`: drains posted by `on_dbus_wakeup_event_loop` and not yet run.
- `thread[b]`: the thread that called `Bus::run()` on `b`: idle, running, or returned.
- `busy[t]`: the bus whose drain thread `t` is running.
- `incoming[b]`: messages libdbus has queued.
- `received[b]`: messages read so far, up to the bound `MaxMsgs`.
- `stopCalled[b]`: a history of `Bus::stop()` calls.

Actions:

| Action | Code |
|---|---|
| `InstallExecutor` | `make_executor`, the Executor constructor and `Bus::install_executor` |
| `Receive` | libdbus queues a message and calls the wakeup function, which posts one drain. No drain is posted before an executor is installed. |
| `Run` | `Bus::run` → `io_service::run`. On a stopped `io_service` it returns at once. |
| `StartDrain`, `DispatchOne`, `EndDrain` | the posted lambda and its `while (DATA_REMAINS) dispatch` loop, run by a thread whose `io_service` the drain was posted to |
| `Stop` | `Bus::stop` → `io_service::stop` |
| `ThreadReturn` | `run()` returning after a stop, once the current handler is done |

The filter and the Router are left out: a dispatch is one step.

### BusObjects (the Bus's connection and object paths)

State:
- `phase`: how far a constructor got (opened by either constructor, filter installed, Hello answered), whether it threw, or `~Bus` ran.
- `conn`, `filter`: the private connection and the installed filter.
- `tree[p]`: libdbus's object tree, the `VTable` registered on path `p`.
- `heap`: the `VTable`s allocated and not deleted. They are numbered by allocation, up to `MaxAllocs`.
- `vobj[v]`: the Object `VTable` `v`'s weak pointer names.
- `extref[o]`: the application still holds a `shared_ptr` to Object `o`.
- `pvt`: `DBusObjectPathVTable`s allocated and not deleted.
- `disp`: an `on_new_message` in progress, with its `VTable` and the locked Object.
- `touched`: the `VTable` that `on_new_message` reads in this step.

Actions:

| Action | Code |
|---|---|
| `Open`, `AddFilter`, `Hello` | the steps of `Bus::Bus(address)`: open and Hello may throw |
| `OpenWellKnown`, `AddFilterWellKnown` | the steps of `Bus::Bus(WellKnownBus)`: `dbus_bus_get_private` may throw, and there is no Hello |
| `Register` | `register_object_for_path`: both allocations and `dbus_connection_try_register_object_path`. A taken path throws and deletes only the `DBusObjectPathVTable`. |
| `Unregister` | `unregister_object_path`. libdbus calls `VTable::unregister_object_path`, which deletes the `VTable`. |
| `DropObject` | the application releasing its last `shared_ptr` (spec-modelled) |
| `Deliver` | libdbus calling `VTable::on_new_message`: `object.lock()`, and an early return when the Object is gone |
| `HandlerReturn` | the Object's handler returning. It may have unregistered paths or dropped Objects in between. |
| `Destroy` | `Bus::~Bus`: the filter removed, the connection closed and finalised, so every path is unregistered |

### BusObjectRegistry (what the Bus promises about Objects)

This is the abstract specification of the spec's Object contract. It has no VTables and no object tree. Its state:
- `open`: the Bus is up;
- `reg[p]`: the Object registered on path `p`;
- `alive[o]`: the application holds Object `o`;
- `calling`: the Object whose handler runs.

A registration takes a free path and a live Object. A call runs the handler of the live Object registered on its path, one at a time. Destruction, with no handler running, frees every path.

`BusObjects` implements it under the mapping in `Registry == INSTANCE BusObjectRegistry WITH ...`:
- `open` is `phase = "up"`;
- `reg[p]` is the Object that path `p`'s `VTable` names (`RegisteredObject`);
- `alive` is `extref`;
- `calling` is the Object `on_new_message` locked (`disp.o`).

Every step that changes none of these is a stutter: the constructor's early steps, a failed registration and a dropped-Object early return. The `bus_objects` run checks `ObjectsServedAsRegistered == Registry!ASpec` as a PROPERTY.

### MessageCodec (Writer and Reader)

The body is the token stream of its arguments:
- a basic value is one token;
- a container is an open token, its contents and a close token.

A value's identity is its position. A cursor is a window `[pos, end)` of the body.

An open token also carries the container's extent `m`, the position of its close token, which is 0 until the container is closed. This mirrors the wire format: `dbus_message_iter_close_container` writes the array length back at the container's start, and `dbus_message_iter_next` and `recurse` find the container's end from it. `CloseContainer` sets `m`, and `Recursed`/`Skipped` read it (`Match`). The assumption `"invalid" \notin Basics` keeps the type code that `Reader::type()` returns at the end of a cursor apart from every real basic type.

Actions:

| Action | Code |
|---|---|
| `PushBasic` | `push_*` |
| `OpenContainer` | `open_array`, `open_structure`, `open_variant` |
| `CloseContainer` | `close_array`, `close_structure`, `close_variant`, always with the innermost open Writer |
| `GetReader` | `Message::reader()`, which throws on a body without arguments |
| `PopBasic` | `pop_*` of basic types: type check, read, `dbus_message_iter_next` |
| `PopContainer` | `pop_array`/`pop_structure`/`pop_variant`: `dbus_message_iter_recurse` plus `next`, with no type check |
| `DropReader` | the decoder dropping a Reader |

`BasicPositions`, the basic positions of the body in order, is `BasicsUpTo(body)[Len(body)]`. `BasicsUpTo(bd)` is a recursive function over the positions of `bd`, the recursion `SelectSeq` performs, written out. tlapm treats `SelectSeq` as a primitive it cannot unfold, and `BasicsUpTo` can be unfolded. It takes the body as a parameter, so lemmas about it apply to `body` and to `body'`.

Abstractions:
- The decoder may ask for any type at any point: the remote peer decides what the body holds.
- Arrays and variants hold basic values, so every body written is one libdbus accepts.
- Dict entries are read by the same code as structures and are left out, with `open_dict_entry` and `close_dict_entry`.
- `Reader::pop()` (a bare `dbus_message_iter_next`) is not modelled.
- The caller closes only the innermost open Writer. `close_*` takes any Writer by value, and a close with another one is a caller error the model does not enumerate.
- `Counted`, `Accepts` and `AcceptsContainer` are the caller's rules for a well-formed body, which libdbus checks. They constrain the inputs and model no Writer code.

### CodecContract (what the codec promises)

This is the abstract specification of the wire codec in spec 4.2, with no tokens, containers or extents. Its state:
- `written`: the types of the values written, in order;
- `got`: the types of the values read;
- `cursor`: how many written values have been read or passed over;
- `passed`: whether something was passed over;
- `stage` and `result`.

Its steps:
- `AWrite(b)` appends `b`.
- `ARead(b)` needs the next value to be a `b`. It appends `b` to `got` and advances the cursor by one.
- `AFail` ends reading with a type mismatch or undefined behaviour.
- `APass` moves the cursor forward. Moving over a value must be recorded in `passed`.
- `AFinish` returns: the rest is passed over.
- `AStart` and `ANoArguments` begin reading or report a message without arguments.

`MessageCodec` implements it under the mapping in `Contract == INSTANCE CodecContract WITH ...`:
- `written` is `WrittenTypes`, the types at `BasicPositions`;
- `got` is `ReadTypes`, the types at the positions read;
- `cursor` is `ReadCursor`: the number of basic values before the Reader in use (`Count`), or all of them once decoding has returned;
- `passed` is `skipped`; `stage` and `result` are `phase` and `outcome`.

Step by step:
- `PushBasic(b)` is `AWrite(b)`.
- `OpenContainer` and `CloseContainer` are stutters.
- `PopBasic(b)` is `ARead(b)` or `AFail`.
- A container pop is a stutter, because an open token is not a value, or it is `AFail`.
- Dropping a nested Reader is `APass`: the Reader below stands past the container's close token. Dropping the message's Reader is `AFinish`.

The contract's state does not record which type a pop asked for. A `pop_*` that returned a value of another type would still be a read of that value's type, so the property `CodecMeetsContract` cannot see the type check. The step lemma `RefinePopBasic` states it: `PopBasic(b)` is `ARead(b)` for the same `b`.

## Runs

| Run | Result | What it shows |
|---|---|---|
| `watch_safety` | passes (≈0.9 M states) | Whatever the interleaving of libdbus callbacks, completions and handlers: `dbus_watch_handle` never gets a freed watch (`HandleOnLiveWatch`), and an enabled watch always has an operation outstanding for each of its directions unless an error completion ended that direction (`InterestKept`). |
| `watch_flags_after_free` | violation | In 6 steps: completion, remove, handler, libdbus frees the watch inside the handle call, then `restart()` reads its flags (`FlagsReadOnLiveWatch`). |
| `watch_stale_rearm` | violation | A queued success completion runs after a disabling toggle and `restart()` re-arms the watch (`DisabledWatchNotMonitored`). |
| `timeout_safety_liveness` | passes | No handle on a freed timeout (`TimeoutHandleOnLive`). Each arming is answered by a handle call unless the timeout is disabled or removed first (`EnabledTimeoutFires`, under weak fairness of expiry and handler steps). |
| `timeout_fires_unarmed` | violation | Add, expiry, remove: the queued handler calls `dbus_timeout_handle` on the removed timeout (`HandledOnlyWhenArmed`). A toggle to disabled leaves the timer armed in the same way. |
| `dispatch_own_io` | passes | Two buses, each with an `io_service` of its own: `run()` returns only after that bus's `stop()` (`RunIsolated`), and a posted drain empties the queue (`WakeupDrains`, under weak fairness of the run threads' steps). |
| `dispatch_shared_reentry` | violation | With `make_executor(bus)`, two buses share the static `io_service`. Each wakeup posts a drain, and both `run()` threads run drains of bus 2 at once. |
| `dispatch_shared_stop` | violation | With `make_executor(bus)`, `stop()` on bus 1 makes `run()` of bus 2 return. |
| `bus_objects` | passes | Whatever the application registers, unregisters and drops, even from inside a handler, and with either constructor: `on_new_message` reads only a live `VTable` (`VTableReadLive`), and the Bus implements the abstract registry (`ObjectsServedAsRegistered`). |
| `bus_register_leak` | violation | After one successful `register_object_for_path` the `DBusObjectPathVTable` is never deleted (`RegistrationOwned`). libdbus copies its two function pointers and nothing frees it. |
| `codec_roundtrip` | passes | Any body of up to 6 tokens nested 2 deep, read by any pops, yields its values once and in order (`ReadInOrder`). A decode that reads every Reader to its end gets exactly the written values (`CompleteRead`). Writer and Reader implement the codec contract (`CodecMeetsContract`). |
| `codec_unchecked_container_pop` | violation | `pop_array` on a byte recurses into it. |

Bounds:
- **Watch runs:** one watch with both directions, two adapters and two outstanding operations per direction.
  - Two adapters are what a replaced adapter or a freed watch needs.
  - Two operations let a stale completion coexist with a re-arm.
  - A second watch adds no shared state beyond `strong` and `running`, and makes the state space too large for the time budget.
- **Timeout runs:** two timeouts, two adapters each, and up to two queued expiries.
- **Dispatch runs:** two buses and two messages per bus. Two buses are what sharing an `io_service` needs. Two messages per bus let two drains of one bus be posted, and let a message arrive while a drain runs.
- **Bus runs:** two paths, two Objects and three registrations. With these a path can be re-registered after an unregister, a registration can fail on a taken path, and a handler can drop its own Object.
- **Codec runs:** six tokens admit a container inside a structure next to a basic value.

Every passing property has a mutant in `PROJECT.json` that TLC finds violated: a dropped weak-pointer check, a direction not re-armed, a cancel that aborts one wait, a forgotten `dbus_message_iter_next`, a sub-iterator ending one token short, a `close_*` writing the length into the last token instead of the open token, a parent Reader moved one token past a container, and others.

### Fairness

Two runs use fairness:
- The timeout run assumes weak fairness of `Expire` and `RunTimeoutHandler` for each adapter. While `io_service::run` runs, an expired timer's handler is eventually run. A timeout handler never throws, so the reactor does not stop because of it.
- The dispatch runs assume weak fairness of each run thread's steps: starting a posted drain, one turn of its loop, its end, and returning after a stop. These are what `io_service::run` does while it runs.

No fairness is assumed for libdbus's callbacks or for the application's calls.

## Proofs (TLAPS)

`ExecutorWatchProofs` proves three theorems for every set of watches, flag assignment and pair of bounds. The assumptions are `Watches # {}`, `Flags \in [Watches -> SUBSET Dirs]`, and `MaxGen` and `MaxPending` positive.

- **`TypeCorrect`: `Spec => []TypeOK`.**
  - It rests on lemmas that `Restarted`, `Cancelled` and `Destroy` keep the operation counts natural.
  - It also rests on `TypeStep`, which proves preservation one step per action.
- **`HandleSafe`: `Spec => []HandleOnLiveWatch`.**
  - `HandleOnLiveWatch` alone is not inductive: a step that runs a handler needs to know that the adapter it locks belongs to a live watch.
  - The inductive invariant therefore adds `DataOnLiveWatch`: a watch whose data names an adapter has not been freed, because `ptr_delete` clears it when libdbus frees the watch.
  - `RunHandler` is split on whether `wp.lock()` succeeds. If it does, then `strong = NoObj` means the lock succeeded through the Holder, so `data` names the adapter and the watch is live.
- **`InterestSafe`: `Spec => []InterestKept`.**
  - `InterestKept` is stated only while the reactor is idle. A step that runs a success handler removes the operation it completed, and the re-arm comes later, in `HandlerReturn`. So `InterestKept` is not inductive.
  - The inductive invariant `KInv` drops the idle condition and adds a third way for a direction to be kept: the running handler holds the watch's current adapter (`strong = Current(w)`). It also keeps `DataBelowGen` (`data[w] <= gen[w]`).
  - There is one step per action, and under each one a step per kind of watch. The watch the action touches gets its own case. For every other watch, the adapter's counts are unchanged: `restart()` and `cancel()` touch only the adapter they are given (lemmas `KeptFrame` and `KeptUnstrong`).
  - `HandlerReturn` is split on whether the returning handler's adapter is the watch's current one. If it is, `restart()` re-arms every direction of the flags (`RestartedArmed`).

`ExecutorTimeoutProofs` proves two theorems for every non-empty set of timeouts and every pair of positive bounds:

- **`TTypeCorrect`: `TSpec => []TTypeOK`.** It rests on a lemma that `Armed` and `Disarmed` keep the wait counts natural, and on `TTypeStep`, one step per action.
- **`TimeoutHandleSafe`: `TSpec => []TimeoutHandleOnLive`.**
  - It rests on the inductive invariant `TIInv`, which is `TTypeOK`, the property, and `TDataOnLive`: a timeout whose data names an adapter has not been freed. `FreeTimeout` clears the data in the same step that frees the timeout.
  - `RunTimeoutHandler` is split on `TAlive`. When `wp.lock()` succeeds, the data names the adapter, so the timeout is live.

`ExecutorDispatchProofs` proves two theorems for every non-empty set of buses and every message bound:
- **`DTypeCorrect`: `DSpec => []DTypeOK`.**
- **`OwnIoRunIsolated`.** Under the hypothesis `IoKinds = {"own"}`, every executor comes from `make_executor(bus, io)` with an `io_service` per bus. It proves `DSpec => []RunIsolated`.
  - The inductive invariant `DIInv` says:
    - a bus's executor uses that bus's `io_service` (`OwnService`);
    - a thread in `run()` has an executor (`RunHasExecutor`);
    - a thread runs only its own bus's drains (`OwnDrain`);
    - an `io_service` is stopped only by its bus's `stop()` (`StoppedByOwner`).
  - `OwnDrain` needs `RunHasExecutor`: `ServedBy(t, b)` compares two `io_service`s, and only a running thread's executor is known to be its own.
  - `dispatch_shared_stop` shows that the theorem fails without the hypothesis.

`BusObjectsProofs` proves three theorems for every non-empty set of paths and Objects and every positive allocation bound:
- **`BTypeCorrect`: `BSpec => []BTypeOK`.**
- **`VTableSafe`: `BSpec => []VTableReadLive`.**
  - The inductive invariant adds three facts:
    - every allocated id is at most the number of registrations (`HeapBelow`);
    - the tree names only allocated `VTable`s (`TreeInHeap`);
    - no two paths share a `VTable` (`TreeInjective`).
  - `TreeInjective` is what makes `Unregister` safe: deleting one path's `VTable` frees no other path's.
  - `HeapBelow` gives `TreeInjective` for `Register`: the fresh id is above every allocated one, so no path holds it yet.
- **`Refinement`: `BSpec => ObjectsServedAsRegistered`.** The proof follows the usual shape:
  - `BInit` maps to `AInit`;
  - under the inductive invariant, every step maps to an abstract step or a stutter;
  - PTL combines the two.
  - The invariant adds `TreeNamesObject` to `VTableSafe`'s: every registered `VTable` names an Object, so a registered path maps to an Object and not to `None`.
  - `Register` on a free path is `ARegister`, and on a taken path it is a stutter.
  - `Deliver` is `ACall` when the lock succeeds. When the Object is gone it is a stutter.
  - `AddFilterWellKnown` and a successful `Hello` are `AOpen`.
  - `Destroy` is `AClose`, because finalising the connection empties the tree.

`MessageCodecProofs` proves three theorems for every set of basic types (non-empty, without `"invalid"`) and every bound on length and nesting:
- **`CTypeCorrect`: `CSpec => []CTypeOK`.**
- **`ReadsInOrder`: `CSpec => []ReadInOrder`.**
  - The inductive invariant `CInv` says how the Writers leave the body:
    - an open token has no extent exactly while its Writer is on the stack (`UnclosedInStack`), and Writers are stacked by start (`StackIncreasing`);
    - a closed container ends on a close token after its start (`ExtentOnClose`);
    - containers nest (`Laminar`), and a closed container ends before every Writer still open after it (`ClosedBeforeOpen`).
  - It also says how the Readers see the body:
    - each Reader's window holds whole containers (`Windows`);
    - each Reader below the top stands just past the close token of the container the Reader above it reads, and the bottom one ends at the body's end (`Nested`);
    - everything read lies before the cursor in use (`DecodedBefore`);
    - which phase has which stacks (`PhaseShape`).
  - `CloseContainer` needs `UnclosedInStack`, `StackIncreasing` and `ClosedBeforeOpen`. Together they show that the new extent is laminar with every earlier one.
  - `PopContainer` needs `Laminar`, so that the inner window holds whole containers, and `ExtentOnClose`, so that the outer cursor lands past a close token (`Nested`).
  - `DropReader` needs `Nested`: the Reader uncovered stands past the dropped one's end, so `DecodedBefore` holds for it.
  - `PhaseShape` admits a Reader left on the stack after a failed pop, which TLC found when the invariant was first checked.
  - The proof has one lemma per action (`PushBasicStep` … `DropReaderStep`), with one step per conjunct that the action can disturb. They rest on lemmas about the model's operators: `Counted`, `Pop`, `ReplaceTop`, `Next`, `Skipped` and the tokens.
- **`CompleteReadContent`: `CSpec => [](ReadAllBasics /\ ReadInOrder)`.** A decode that returns `ok` without dropping a Reader early has read exactly the positions of the basic values.
  - The invariant adds `ReadSoFar`: while no Reader was dropped early, the positions read are the basic positions before the cursor in use.
  - A pop moves the cursor over one token and reads it when it is basic (`BasicsBeforeNext`).
  - Dropping a Reader read to its end moves to the Reader below, past a close token.

`CodecRoundTripProofs` proves **`RoundTrip`: `CSpec => []CompleteRead`**, the whole round trip, for every set of basic types and every bound.
- `CompleteReadContent` gives that the positions read form an increasing sequence holding exactly the basic positions.
- What remains is about sequences: `BasicPositions` is such a sequence too, and there is only one.
- These facts are inductions over positions. The library's induction theorems take an operator parameter, which the installed provers cannot instantiate. So each induction is an argument on a least counterexample:
  - `NatMin` (every non-empty set of naturals has a least element) is proved from `WFMin` and the well-foundedness of `<` on `Nat`;
  - the proof takes the least position where the claim fails and derives a contradiction from the position before it.
- The inductions:
  - `BasicsUpToDef`: the recursive function exists, so the one TLA+ chooses satisfies its recursion;
  - `BasicsUpToProps`: `BasicsUpTo(bd)[n]` is increasing and holds the basic positions up to `n`;
  - `IncreasingPrefix` and `IncreasingUnique`: two increasing sequences of naturals with the same elements are equal.

`CodecContractProofs` proves **`ContractRefinement`: `CSpec => CodecMeetsContract`**. Writer and Reader implement `CodecContract` for every set of basic types and every bound.
- Lemmas about `BasicsUpTo(bd)` for any body `bd`, by least counterexample:
  - `BasicsUpToAgree`: two bodies with the same kinds of token have the same basic positions;
  - `BasicsUpToPrefix`: the positions up to `n` are a prefix of those up to any later `m`, so counting is monotone (`CountMono`);
  - `BasicAt`: the basic value at `p` is entry `Count(p) + 1` of `BasicPositions`.
- `WTExtend` says what a write step does to the written types. It is proved over constants and applied to `body` and `body'`.
- `CursorAt` and `CursorDone` say what the contract's cursor is after a step that leaves the body alone.
- Under `CInv` there is one lemma per action (`RefinePush` … `RefineDropReader`). Two cases are worth noting:
  - `PopBasic(b)` reads the value at the cursor's position, which is the next written value (`BasicAt`).
  - Dropping a nested Reader needs `Nested` and `Windows`: the Reader below stands just past a close token inside the body. So the cursor moves from the basic values before the dropped Reader's position to those before its end, and moves only when that Reader had not reached its end.

What stays with TLC:
- Liveness (`EnabledTimeoutFires`, `WakeupDrains`) and anything with ENABLED are beyond TLAPS.
- Induction over data with the library's induction theorems is beyond the installed provers. The codec proofs use least counterexamples instead. `SelectSeq` cannot be unfolded by tlapm, which is why `BasicPositions` is written as the recursive function `BasicsUpTo`.
- Every safety property and action property of a passing run is proved. The liveness properties `EnabledTimeoutFires` and `WakeupDrains` are model-checked only.

## Not modelled yet, and the plan

1. **Compose ExecutorDispatch with ExecutorWatch:** a watch handler reading a message is the `Receive` step.
2. **Bus:** names, matches and filter routing. The constructor, the destructor and object-path registration are modelled in `BusObjects`.
3. **Router and PendingCall:** from the spec, as their code is not under `src/`. An abstract single-shot PendingCall latch, refined by the detailed table.
4. **More proofs:** an abstract watch contract (a direction is monitored exactly while its watch is enabled) refined by `ExecutorWatch`, with the known violations as counterexamples to the refinement.

Not planned:
- the factories and accessors (one libdbus call each, no state);
- data races on the descriptor (undefined behaviour, listed as a hazard);
- allocation failures inside libdbus;
- the Property<T> cache (`property.h`): the header only declares it, and its implementation (`impl/property.h`) is not under `src/`;
- the signature helper: compile-time concatenation over the TypeMapper, which is not under `src/`.
