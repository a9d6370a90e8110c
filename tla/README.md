# pipewire-gobject: TLA+ models, checks and proofs

pipewire-gobject wraps libpipewire for GObject introspection. Its own logic is
the traffic between two worlds: PipeWire callbacks that run on a loop thread,
and GLib main contexts on which the application's handlers run and call back
into the library. That traffic is what is modelled here. Paths and line numbers
below are those of the C sources in `src/`.

## 1. Inventory

### Parts, state, operations

| Part | State | Operations | Correct when |
|---|---|---|---|
| **Core** (`pwg-core.c`) | `connected`, thread loop, context, core; one `PwgCoreSyncData` on the stack of each `sync()` | `connect`, `disconnect`, `sync`, internal `sync_main_context`, `load_module`, properties | `sync()` is a barrier; its token never outlives its frame; it returns; `connected` tells the truth |
| **Registry** (`pwg-registry.c`) | `registry` proxy, listener, `running`, `generation`, `globals` | `start`, `sync`, `stop`, `reset` on disconnect, `on_global`, `on_global_remove`, `dispatch_event`, lookups | the list follows the server, holds one session only, is synchronized after `sync()`; proxies are neither leaked nor dangling |
| **Stream** (`pwg-stream.c`) | a thread loop of its own; pending format, rate, peak, blocks and the `dispatch_pending` flag under `dispatch_lock`; public properties | `start`, `stop`, `on_param_changed`, `on_process`, `dispatch_pending`, setters | nothing pending is stranded; what is published is of the running session and in order; the queue is bounded |
| **Node, Device, Link** (`pwg-node.c`, `pwg-device.c`, `pwg-link.c`) | registry and bound proxies, `generation`, `bound`, `running`, last info, params | `start`, `sync`, `stop`, `reset`, info and param callbacks, `enum_params(_sync)`, `subscribe_params`, `set_param` | events of one session only; an enumeration returns its own results |
| **Metadata** (`pwg-metadata.c`) | registry, bound object, `metadata_id`, `generation`, cache | `start`, `sync`, `stop`, `reset`, `bind`, `on_property`, `set`, `clear` | the cache is the bound object's; a replaced object is found again |
| **ImplModule** (`pwg-impl-module.c`) | module handle and its listener | load, unload, destroy event | no use of a module the loop thread has destroyed |
| **Param, PodBuilder, RouteInfo** | immutable pods | build, read | what is built fits and is whole; a pod the buffer cuts off reads as nothing; what is parsed does not depend on the memory after a body |
| **Global, info views** | immutable | getters, lookups | names follow their precedence; a lookup finds what it is asked for |
| **AudioFormat, AudioBlock** | immutable | getters | sizes are exact, and 0 where they cannot be expressed |
| **pwg.c, errors, Python package** | `pw_init` once | - | - |

### How they interact

* Core owns the loop thread. Wrappers take its lock to create and destroy
  proxies. Their callbacks run on the loop thread *with* the lock, and pass what
  they learnt to the main context with `g_main_context_invoke_full()` (Stream,
  which has a loop of its own, attaches an idle source).
* `sync()` of a wrapper is Core's roundtrip followed by iterations of the main
  context until a token, attached behind the queued events by the answer's
  callback, has been dispatched (`pwg-core.c:446`). These iterations run any
  handler, which may call `sync()`, `stop()`, `disconnect()`... again.
* `notify::connected` of Core makes each wrapper reset itself
  (`pwg-registry.c:257`) if the core is then disconnected. GObject emits notify with
  `G_SIGNAL_NO_RECURSE`: a `disconnect()` in a handler of `notify::connected` runs no
  handler itself, the emission starts over once that handler has returned, and a
  handler that has connected again by then leaves the wrappers with what they had.
* Destroying the context inside `disconnect()` frees the modules left in it, whose
  handles (`ImplModule`) notify in the middle of that call (`pwg-core.c:291`).
* Every signal and notify is a synchronous call into the application in the
  middle of a library function.

### What is hard

Two threads and a socket; re-entrancy (nested main-context iterations and
notify handlers in the middle of functions); events of a dead session still
queued; timeouts against late answers; loss of the server; a bounded queue under
a slow main thread. `PROJECT.json` lists each hazard at its line with the
properties that watch it.

## 2. Modules

| Module | What it is |
|---|---|
| `Core` | connection, loop thread, main context, the main thread's stack, `sync()` |
| `Registry` | EXTENDS `Core`; the discovery session on that connection |
| `Discovery` | what a registry promises, without threads, contexts or generations |
| `Stream` | the audio capture with its own thread |
| `Wrapper` | EXTENDS `Core`; what the wrappers of one object share: handlers in the middle of a call, the roundtrip, messages |
| `Metadata` | EXTENDS `Wrapper`; a metadata object found by name, and its cache |
| `Proxy` | EXTENDS `Wrapper`; the code that Node, Device and Link repeat |
| `Node`, `Device`, `Link` | EXTEND `Proxy`; what each looks at, clears and offers |
| `Objects` | EXTENDS the three; a wrapper of any class, and what all promise |
| `ImplModule` | modules, their handles, and the context's life |
| `Nullable`, `Params`, `Routes`, `Globals`, `DefaultNodes`, `Audio` | pure operators: pods, routes, globals and their views, default nodes, audio formats and settings |
| `Values` | applies those operators to an input, and states what comes out |
| `MCCore`, `MCRegistry`, `MCStream`, `MCMetadata`, `MCObjects`, `MCImplModule`, `MCValues` | values of the constants for TLC |
| `CoreProofs` | EXTENDS `Wrapper`; proofs about Core, and the lemmas about stacks and Core's actions that the wrappers' proofs use |
| `RegistryProofs` | proofs about Registry: types, sessions and proxies |
| `ViewProofs` | EXTENDS `RegistryProofs` and instantiates `DiscoveryProofs`; proofs about what the list shows: the refinement of `Discovery`, and `SyncedView` |
| `MetadataProofs`, `ObjectsProofs` | proofs about the wrappers; both extend `CoreProofs` |
| `DiscoveryProofs`, `StreamProofs`, `ModuleProofs` | proofs about `Discovery`, `Stream` and `ImplModule` |

### Core

The main thread is `stack`, a sequence of frames, innermost first. A `sync()` is
a frame that goes through `"wait"` (lock held or in `pw_thread_loop_wait`) and
`"drain"` (the loop at `pwg-core.c:446`). A handler is an `"app"` frame, on top
of which the application may call again. A call that emitted a notify in its
middle is a frame of its own below the handler (`"sync"`, and in Registry
`"start"`, `"rsync"`, `"reset"`, `"clear"`). So the model has exactly the
re-entrancy of the C stack: a suspended call resumes when everything above it
has returned, with whatever the handlers changed. The handlers of `notify::connected`
are a `"notify"` frame, and there is one at most: a connect or disconnect in one of
them adds no frame (`Notified`), since GObject starts the emission over instead of
nesting it. A `sync()` on a core that is not connected connects first (`SyncCall`), and
`SyncResume` goes on with what those handlers left.

`toServer` and `wire` are the two directions of the socket, `mainq` the sources
of the main context. The loop thread (`LoopStep`) reads one message at a time.
It needs the loop lock, which the main thread only keeps inside one action, or
lends in `"wait"`. A main-thread action is therefore the code between two
points where a handler runs or the lock is lent. The action that sends a request
and the one that looks at the result after the wait are different steps.

`SyncTimeout` may fire at any time while neither `done` nor an error is there,
which includes the moment when the answer is on the wire. The server answers
every request once and in order (`ServerStep`) or goes away (`LinkBreaks`).

### Registry

`start()` is `Start` (connected already, or the connect up to its notify) and
`StartResume` (the rest). `stop()` is `Stop` followed by the handlers of
`notify::running` and `ClearRest` (the list is emptied after that notify,
`pwg-registry.c:558-563`). `DisconnectCore` is Core's disconnect, whose notify runs the
registry's handler (`OnConnectedNotify`) first and then the application's. Inside such an
emission it runs nothing: what the registry still holds is `Owed` a reset, and `Restart`
is the emission starting over, which finds the core disconnected. `Reset` is the
registry's. An event carries the generation it was
queued under (`Invoke`, `OnGlobal`) and `ApplyEvent` is
`pwg_registry_dispatch_event()`. A global is an id, which the server reuses,
and a serial, which it does not; `from` records which proxy announced an entry.

Three constants select the environment:

* `DefaultContext`: the main context is the process-wide default one, in which
  case `g_main_context_invoke_full()` calls at once on the loop thread whenever
  no thread owns the context (`Owned`).
* `Reentry`: whether a handler of `notify::connected` disconnects the core within that
  emission (`"disconnect"`), and whether it then connects again before it returns, so that
  no reset runs (`"reconnect"`).
* `Interrupts`: handlers start a session of this registry while one of its own
  calls is suspended below them.

Handlers of `notify::connected` that the application connected before the registry
existed, and which would run before its reset, are not modelled: one that reconnects
suppresses the reset as `"reconnect"` does. `MaxGen` bounds the generations.

`Registry!Abstract` is the refinement mapping: `pending` of `Discovery` is what
is queued in the main context for this generation followed by what the loop
thread has not read for this proxy.

### Discovery

A session opens with an announcement of every global in some order, then queues
each change. `Apply` consumes the queue; `Close` discards it. `Linger` is the time between
the end of a session and the clearing of its list: announcements that had already arrived may
still be applied while handlers run, and nothing is promised of the list until it is
cleared. `Open` requires that it is empty. `Faithful` says
that the view with everything pending applied is the server's set.

### Stream

The thread of the stream is `pc`: a process callback posts the rate, the peak
and the block in three separate regions under `dispatch_lock`, and each can
interleave with the main thread. `pending` is the record of everything that is
pending, `dispatchPending` the flag, and `sources` how many idle sources are
really attached, which the flag is only a claim about. A dispatch is a frame with its snapshot,
suspended at each signal. `Dispatch` takes the snapshot and publishes the format
(the three notifies are one point where handlers run, as nothing happens between
them), then `DispatchRate`, `DispatchPeak`, one `DispatchBlock` for each block.
`Stop` waits for the callback that runs (`pw_thread_loop_stop` joins), clears,
and notifies twice. `start()` that fails goes through `stop()`.

Data is reduced to what the properties tell apart: formats, buffers and sessions
are numbers, and the peak of a buffer is that buffer's number, for which the
maximum means "covers this buffer and the earlier ones".

### Wrapper, Metadata, Proxy

A call that emits a signal in its middle is cut there: what is left of it is a
frame below the handler's (`Rest`), and runs when the handler has returned,
whatever the handler did. `Calls` keeps the application from *beginning* a
session above such a frame (`Registry` explores that with `Interrupts`); a
`sync()` of a wrapper that runs is possible anywhere. `Roundtrip` connects first where the
core is not connected (`pwg-core.c:333`). `DisconnectFor` and `RestartFor` are the
disconnect and the restarted emission as in Registry, and `Reentry` is the same constant.

`Metadata` follows `pwg-metadata.c` call by call. A proxy is the number of the
request that created it, so a destroyed one is told from its successor. The
server has objects with an id, which it reuses, a serial, a name and
properties whose values are the revisions that wrote them. Each cached entry remembers
the object and the proxy it came from (`of`, `via`): what `CacheOfBound`
is about. The roundtrip's `mark` records what was true when `sync()` was called.
`Cached` is `pwg_metadata_cache_change()`, applied before the signal.

`Proxy` has a list of *steps* where the code has a list of statements that may
notify: `Stop` and `Reset` bring the class's epilogue (`NodeEpilogue`...), an
info brings the parts its class looks at (`NodeParts`...). `Perform` runs the
steps up to one whose notify has a handler and leaves the others as a `"rest"`
frame; `Resume` goes on without looking at `running` or `generation` again, as the
code does. `EndSession` is a step of its own, before `Destroy`, because the new
generation is opened outside the loop lock (`pwg-node.c:734-735`): the loop thread may
queue an event in between. The parameters of an answer carry the sequence number
of their request, which `ParamsForSeq` filters by. In `view` each value
is kept with the proxy that told it. In the masks of an info, `"params"` stands for a
change of params (`params_changed`), which implies that the info has some.

The handlers of `notify::running` and `notify::bound` in a start are one point, and
handlers of the list models' own `items-changed` are not modelled.

### ImplModule

A context is the number of the `connect()` that made it. `Disconnect` runs up to
`pw_context_destroy()`; `FreeNext` frees one module after another, with handlers of
`notify::loaded` after each; `DisconnectEnd` is the rest, with the pointers as they
are by then. `Unload` and `UnloadModule` are the halves of `unload()` around
the lock, `LoadModule` and `NewHandle` those of `load_module()`. `misused` records
that freed memory was used. Two constants select the environment: `Reentrant` lets
handlers connect, load and disconnect while a context is being destroyed, and
`Races` lets a module free itself on the loop thread between the halves of a call.

### Values

`Values` is a machine of one step: an input of a set is picked, and the operator
for its kind gives the output. `Params` models a pod as its type, its body size and
what readers look at; the builder as an offset that grows by headers, bodies and
padding in a buffer of fixed size. Readers check the declared total of a pod against the
buffer and not the body against what its type needs, so a body may be shorter than what is
read from it (`pwg-param.c:217-243`, `:809`, `:836`): `Peek` then takes what happens to lie
after the body, for which `Memory` offers several contents. `ReadsWholePods` says that what is
cut off reads as nothing, that nothing parsed depends on that memory, and that no view does
whose pod has the body its type needs. The object type and id and the scalar views of
shorter pods are left open. `Globals` models properties as the pairs of
a dictionary. `Audio` has the frame arithmetic modulo `MaxUint + 1`, the checks of a
chunk, the peak, and the settings of core and stream up to the format that
`start()` offers. It has no NaN samples, no unaligned offsets and no second look at a chunk the
server changes meanwhile (`pwg-stream.c:495-501`). A builder's double is written as a float of
the same value. `DefaultNodes` walks the pairs of a JSON object.

## 3. Runs

| Run | Question | Bounds |
|---|---|---|
| `core` | barrier, token and frame, drain and token, return of `sync()` | 4 requests, 2 connects, 4 nested frames |
| `registry` | sessions, proxies, synchronized list, refinement of `Discovery`, convergence | 2 requests, 2 connects, 4 frames, 1 id, 2 serials, 5 generations, handlers of `notify::connected` may disconnect |
| `registry_reconnect` | synchronized list when such a handler reconnects? (violated) | the same with 1 serial, 4 generations |
| `registry_default_sync` | synchronized list on the default context? (violated) | `DefaultContext` |
| `stream` | scheduling, queue, session and order of what is published, convergence of the rate | 2 starts, 2 formats, 3 buffers, queue of 2, 4 frames, 2 revisions of the rate |
| `metadata` | whose values the cache has, when, and in the end | 4 requests, 2 connects, 4 frames, 1 id, 2 objects, 1 key, 1 change, handlers that start and disconnect |
| `metadata_stop` | does `stop()` always end what it stops? (violated) | the same with 1 connect, 5 frames, handlers that sync |
| `metadata_sync` | does `sync()` always show the values? (violated) | the same with 1 connect, 2 ids, 2 frames, no handlers |
| `proxy` | sessions, proxies, enumerations, convergence of the three classes | 5 requests, 2 connects, 4 frames, 2 revisions, enumerations of 2 items, handlers that start and disconnect |
| `module` | handles, contexts and modules | 4 connects, 4 modules, 8 frames |
| `module_reconnect` | is a connected core one with a context? (violated) | `Reentrant`, 2 connects, 1 module |
| `values` | pure operators against reference definitions | buffers of 128 and 256 bytes, `MaxUint` 15 |

Why these bounds are enough for the interesting cases. Four requests and
four frames hold a roundtrip that timed out, its late answer, and two nested
drains. Two connects hold a session, its loss and the next one, and with one id
and two serials an id that is reused by another global. Announcements of several
ids in any order are covered by the theorem about `Discovery`. Four frames in
`registry` hold a `sync()` whose session a handler ends and which therefore connects once
more; its two requests hold one session with a `sync()`, or two sessions, and the theorems of
section 4 are about any number of both. In `metadata` and `proxy` four frames hold a call of a
handler, that of the handler it triggers, and the disconnect's reset; with two items a
result can be out of order or miss a part. A queue of two blocks with three buffers overflows,
and four frames hold a dispatch inside the handler of a dispatch. Four requests
hold a registry, an object, and the two roundtrips of a metadata `sync()`, or an
object and its successor; one id forces that the successor reuses it. Five requests
hold a registry, an object, an enumeration whose answers are in flight, and
the next one with its roundtrip. In `proxy` the object of a link changes after it
was bound, and that of the other classes is as it was: the code that takes a
changed state is the same `Perform`, over the same parts. Four connects and modules
with eight frames hold modules of two contexts and unloads nested in
the free of others. The builder's buffer is 128 bytes instead of 64 KiB, so
that three controls fill it, and an unsigned int ends at 15.
Deadlock checking is off because a bounded application may stop calling.

Fairness: the loop thread, the server and the main thread's own code (wait loop,
drain, return of handlers) keep running. Dispatch of a queued source is strongly
fair, because one iteration of a context dispatches every ready source of the
priority, so sources of the application cannot starve it. Nothing forces the application
to call anything. `Converges`, `CacheConverges` and `ShownConverges` are about runs that
stay in the main loop and keep the object bound. `Metadata` and `Objects` ask
less: that some step of the two threads or the server is taken as long as one can be
(one weak fairness of their disjunction), which is enough as requests and changes are bounded.
`Stream` assumes that the application iterates its context whenever none of its
calls is on the stack. In `Metadata` and `Objects` calls are made from the main loop, which
the application enters to stay: what may happen without one may also happen in one that has not
dispatched anything yet.

### What the passing runs assume of handlers

Handlers may do anything on the list `HandlerCalls` of the run. In `metadata` and
`proxy` that is to start the wrapper and to disconnect the core; with `stop` as well there
are more states than TLC can visit here, and that handlers stop a wrapper in the middle of a call
is covered by the theorems only. With other values TLC shows what the code does when they do more:

* `MCObjects.cfg` with `HandlerCalls = {"enum"}` and `MaxDepth = 4`: a handler that
  enumerates while an `enum_params_sync()` waits empties the list that the outer call
  will filter (`pwg-node.c:905`), whose result is then incomplete (`EnumComplete`).
* `MCObjects.cfg` with `HandlerCalls = {"sync"}`, `Classes = Changing = {"node"}`,
  `MaxConnect = 1`, `MaxRev = 3` and `MaxDepth = 5`: a handler of `notify::state` that syncs
  dispatches a newer info before the older one writes its error (`pwg-node.c:265`), which stays
  (`ShownConverges`).
* `MCImplModule.cfg` with `Races = TRUE`: a module that frees itself before its
  handle listens is used once freed (`NoMisuse`, `pwg-impl-module.c:225`).
* `MCRegistry.cfg` with `Interrupts = TRUE`: a handler that starts the registry above its
  suspended `start()` leaks a proxy (`ProxyIsOwned`, `pwg-registry.c:511`); one that restarts and syncs
  inside `stop()` sees the old list, and the outer `stop()` then wipes the new
  (`SyncedView`, `pwg-registry.c:560`; with `MaxReq = 3` and `MaxConnect = 1`). With `DefaultContext = TRUE`,
  handlers run on the PipeWire thread while no loop owns the context
  (`EmittedOnMain`, against `pwg-registry.c:416`).
* `Reentry` with `"reconnect"`: a handler of `notify::connected` that disconnects and
  connects again keeps the wrapper from resetting itself, which then runs over a proxy of the lost
  connection (`ProxyIsOwned` of Registry fails as well). `registry_reconnect` below shows what comes
  of it. Metadata and the wrappers of one object have the same handler
  (`pwg-metadata.c:502`).
* Three more definitions state what a comment or a doc says and TLC refutes; they are
  in the modules for that purpose. `Core!LossIsNoticed`: `connected` stays TRUE after the server is
  lost (`pwg-core.h:92`). `Stream!LevelOfSession`: only the graph rate of a snapshot is
  protected against handlers that restart the stream (`pwg-stream.c:293-306`).
  `Stream!NoFormatBeforeNegotiation`: `rate`, `channels` and `audio-format` survive
  `stop()` (`pwg-stream.h:210`).
* `Metadata!ToldByBound` is what one may take the generation for, and TLC refutes it too:
  properties that a destroyed proxy announced carry the generation of the session that goes
  on (`pwg-metadata.c:395`), so they enter the cache after a rebind, and stay if
  `pw_registry_bind()` fails.

### What the violated runs say

* `registry_default_sync`: on the default main context an event can overtake those
  queued before it, after which `sync()` returns TRUE over a list with a global that is
  gone (`pwg-registry.c:198`).
* `registry_reconnect`: a handler of `notify::connected` starts the registry, disconnects
  and connects again. The notify of the disconnect runs no handler until that one has
  returned, and `pwg-registry.c:265` then finds the core connected: the registry keeps
  `running` and a proxy that the disconnect destroyed. A `sync()` on the new connection
  succeeds over a list that is told of nothing any more (against `pwg-registry.h:63-67`).
* `metadata_stop`: `stop()` destroys the bound proxy and notifies `bound` before it
  destroys the registry and clears `running`. A handler that calls `sync()` there iterates
  the main context, and a queued object of the wanted name is bound. The wrapper
  then stops, and stays bound (`pwg-metadata.c:814`, against `pwg-metadata.h:81`).
* `metadata_sync`: the second roundtrip of `sync()` depends on what was bound before
  the first. When the bound object is replaced meanwhile, `sync()` returns TRUE
  without the values of the one that is bound now (`pwg-metadata.c:794-798`, against
  `pwg-metadata.h:63-65`). `SyncedCache` is what remains true: the values of an object
  that was bound at the call, or found by a `sync()` that was called when none was.
* `module_reconnect`: `disconnect()` clears `connected`, then destroys the context. A
  handler of `notify::loaded` that connects succeeds, and returns into the outer
  `disconnect()`, which drops the new context and destroys the new loop: `connected`
  is TRUE and there is neither (`pwg-core.c:291`, against `pwg-core.h:92`).

## 4. Proofs

| Theorem | Says | Assumes |
|---|---|---|
| `CoreProofs!CoreTypes` | `Spec => []TypeOK` | `BoundsAssumption` |
| `CoreProofs!NoDanglingToken` | `Spec => []TokenHasFrame` | the same |
| `CoreProofs!DrainsEnd` | `Spec => []DrainHasToken` | the same |
| `CoreProofs!SyncIsABarrier` | `Spec => []SyncIsBarrier` | the same |
| `RegistryProofs!RTypeCorrect` | `RSpec => []RTypeOK` | the constants' assumptions |
| `RegistryProofs!SessionsAreIsolated` | `RSpec => []SessionIsolation` | and `~Interrupts` |
| `RegistryProofs!ProxiesAreOwned` | `RSpec => []ProxyIsOwned` | and `~Interrupts`, `"reconnect" \notin Reentry` |
| `ViewProofs!RegistryImplementsDiscovery` | `RSpec => ImplementsDiscovery` | and `~Interrupts`, `"reconnect" \notin Reentry`, `~DefaultContext` |
| `ViewProofs!RegistryCatchesUp` | `RSpec => []CatchesUp` | the same |
| `ViewProofs!SyncShowsView` | `RSpec => []SyncedView` | the same |
| `MetadataProofs!MetadataTypes` | `MSpec => []MTypeOK` | the constants' assumptions |
| `MetadataProofs!MetadataOwnsItsProxies` | `MSpec => []ProxiesOwned` | and `"reconnect" \notin Reentry` |
| `MetadataProofs!CacheIsOfBound` | `MSpec => []CacheOfBound` | and `"reconnect" \notin Reentry`, `"sync" \notin HandlerCalls` |
| `MetadataProofs!GoneForgotten` | `MSpec => []GoneIsForgotten` | the same |
| `ObjectsProofs!ObjectTypes` | `OSpec => []OTypeOK` | the constants' assumptions |
| `ObjectsProofs!ObjectsShowOneSession` | `OSpec => []SessionIsolation` | the same |
| `ObjectsProofs!ObjectsOwnTheirProxies` | `OSpec => []ProxiesOwned` | and `"reconnect" \notin Reentry` |
| `DiscoveryProofs!ViewIsFaithful` | `Spec => []Faithful` | none on Ids and Serials |
| `StreamProofs!StreamTypeCorrect` | `Spec => []TypeOK` | `StreamAssumption` |
| `StreamProofs!NothingIsStranded` | `Spec => []NothingStranded` | the same |
| `StreamProofs!RateIsOfSession` | `Spec => []RateOfSession` | the same |
| `StreamProofs!QueueKeepsNewest` | `Spec => []QueueIsNewest` | the same |
| `StreamProofs!FormatIsFresh` | `Spec => FormatFresh` | the same |
| `StreamProofs!FormatsComeFirst` | `Spec => []FormatBeforeBlock` | the same |
| `StreamProofs!LevelsComeFirst` | `Spec => []LevelBeforeBlock` | the same |
| `StreamProofs!BlocksComeInOrder` | `Spec => InOrderUnlessNested` | the same |
| `ModuleProofs!ModuleTypes` | `MSpec => []MTypeOK` | `ModuleAssumption`, `~Reentrant`, `~Races` |
| `ModuleProofs!LoadedModulesLive` | `MSpec => []LoadedIsLive` | the same |
| `ModuleProofs!NothingMisused` | `MSpec => []NoMisuse` | the same |
| `ModuleProofs!ConnectedCoreHasContext` | `MSpec => []ConnectedHasContext` | the same |
| `ModuleProofs!NothingIsLost` | `MSpec => []NothingLost` | the same |

The bounds of the models (`MaxReq`, `MaxConnect`, `MaxDepth`...) are constants of the
theorems as well: what is proved holds for any number of requests, connections and
nested calls. Every inductive invariant below was checked by TLC before it was proved.

**Core: tokens.** That a token has its frame and a drain its token is inductive only
with what ties the two sides of the socket to the stack. `TokenInv` says that a
roundtrip's number is on one side of the socket only and once (`Socket`), that each
frame in `"wait"` or `"drain"` has a number of its own (`Numbered`), that one that has
its answer gets no other, neither from the server nor from what is on the wire
(`Answered`), and that the tokens in the main context are those of the frames that are
due, one each (`Tokens`). A late answer finds no frame and attaches nothing, since
numbers are never used again. The lemmas about Core's actions leave open which other
requests, messages, sources and frames there are, so the wrappers use them too.

**Core: barrier.** `BarrierInv` says that requests wait in the order of their numbers,
and that everything that still waits is younger than each answer on the wire and than
each answer a call has seen. The server's order is what carries it; a lost connection
empties both queues.

**Types.** `RTypeOK` covers Core's variables with the frames, messages and
sources that Registry adds. One lemma for each action of Core and of Registry.
`TypeOK` of Stream includes the limit of the block queue.

**Isolation.** `SessionIsolation` is not inductive: a queued event of the current
generation might come from another proxy. `SessionInv` adds that no queued event
is of a later generation and one of the current generation is from the current
proxy (`EventsOfSession`), that only the running session's proxy is still bound
on the connection, so that no other announces (`ProxyOfSession`), that a
suspended `start()` is the only one and will bind over an empty list
(`StartIsFresh`), and that while a `stop()` has its list still to clear no session runs
or is about to begin (`ClearIsIdle`). This last part is where `~Interrupts` is needed and where
a run with `Interrupts = TRUE` shows that the code depends on its application. The theorem
holds for both kinds of main context, and also where a handler of `notify::connected` keeps the
registry from resetting itself: the generation then stays the same, as does the session.

**Proxies of the registry.** `OwnerInv` adds to the types that a lost connection leaves the
session behind only while `notify::connected` is being emitted (`ResetInEmission`): there
the registry's own handler is still to run, when the emission starts over if not before; and that a registry
pointer of a connected core is bound on that connection (`ProxyIsAlive`). Where handlers of
`notify::connected` do not reconnect before they return, a connect finds nothing of an
older connection (`ConnectIsFresh`). Both assumptions are needed, and both are about the application: with
`"reconnect"` in `Reentry` its handler connects over the dead pointer, with `Interrupts` it
starts a second session above a suspended `start()`. TLC finds both when the constants are set.

**Faithfulness.** `Faithful` needs that no two globals of the server share an id
(`OneToAnId`), which is inductive on its own. The lemmas describe what appending
an announcement and applying the first one do to "the last announcement about
an id".

**The refinement.** `RegistryImplementsDiscovery` maps the session to `open`, the list to
`view`, and what is on its way to `pending`: the announcements of this generation in the
main context, followed by those to this proxy on the wire (`InTransit`). The proof goes in three
stages. First, every step is one of 17 effects on what the
mapping looks at (`StepEffect`), whatever handlers and calls are suspended. Second,
`StepInv` holds: requests wait in the order of their numbers, the server knows a
proxy only after its request and while it exists (`ProxiesTold`), and a session the
server does not know of yet has an empty list and nothing on its way (`Untold`), so that the
server's reading of the bind, where `Discovery` opens, starts from nothing; and all that is
announced is a global `Discovery` knows of (`Genuine`), so that what is applied after a session is lost
is a `Linger`.
Third, effect by effect: reading a message moves an announcement from the front of the wire
to the end of the queue, which leaves `InTransit` as it is (`HandsTransit`), or drops it
with a proxy that is gone; the server's changes append to it; the main context applies
its first (`EventRefines`). `~DefaultContext` is needed where the loop thread would
apply an announcement past the queued ones, the other two where `SessionInv` and `OwnerInv` need
them. `InTransit` says what a queue tells as a function of how much of it is read (`Told`).
That such a function exists and what it yields for a longer, a shorter or an
equal queue are lemmas for any length (`ToldDef` and those below it); they rest on `CountedUp`, proved from the
minimum principle for the order of the numbers.

**Catching up.** `DiscoveryProofs` is instantiated under the mapping, so `ViewIsFaithful`
carries over: what is on its way turns the list into exactly the server's globals
(`RegistryCatchesUp`). Whether it gets there is `Converges`, which TLC checks.

**Synced view.** `SyncedView` speaks of a roundtrip that has seen its token.
`SyncInv` follows one from the call: its mark has all globals of then, up to the
latest serial (`CallsMarked`). When the server answers, `RegistryCatchesUp` says that what
is in front of the answer brings the list to the server's globals (`Reached`: the server
knows the session, or did until the connection was lost); from then on the claim
(`CaughtBy`) is about the part of the queues in front of the answer, and later of the token,
only: with that part applied, what was promised shows, and nothing
behind it takes a global away that still exists or brings one back that has gone. `Staged`
says so of the answer on the wire, of the token in the main context, and of the call that
has seen its token, when the part is empty. `BindIsComing` is for the call made in a session
whose bind the server has not read: its answer comes after the bind, and so after the
announcements the bind brings.

**Stream.** No assumption on `HandlerCalls`, on the queue limit or on the depth of
nested dispatches. The inductive invariant is `StreamInv`. `Scheduled` ties
`dispatch_pending` to the idle source it stands for, which gives
`NothingStranded`. `PendingOfSession` says that whatever waits was observed by the
running session; `FormatFresh` follows, because publication takes only what waits.
`RateOfSession` needs a third part about the suspended dispatches: they
hold a snapshot that may be old. `FramesOfSession` says that one whose revision is
still the current one took its rate in the running session, since each observed
rate and each `stop()` open a new revision. This is why the test at
`pwg-stream.c:296-297` is enough.
`QueueIsNewest` is inductive on its own given the types.

**Stream: order.** `OrderInv` follows a format, a peak and a block from the thread through
`pending` and the snapshots of suspended dispatches to the application. `ThreadRuns`
says that a thread in its callback has a format that is published or pending, since
`stop()` waits for it and takes away what it left; `FormatOrder` then holds at any depth of nested
dispatches. The other two promises are made while no handler dispatches: then there is
one dispatch at most (`Alone`), peaks only grow on their way (`PeakOrder`), each block that
waits has its peak emitted, pending or in the dispatch that has yet to show it
(`LevelOrder`), and the blocks of a snapshot ascend and lie between the last one emitted
and those pending (`BlockOrder`). The delicate case is a dispatch that passes its peak over,
the stream having stopped: its blocks have no level. They are passed over too, because
from there to the end of the dispatch no handler runs that could start the
stream again, and `LevelOrder` says so.

**Metadata.** `MInv` holds for any handlers (`HandlerCalls` is not restricted) and also
when the server has several objects of the wanted name. Its parts about the stack:
below a `start()` suspended in its connect nothing else of the wrapper is suspended, and nothing
is above the wrapper's own handler of `notify::connected` (`Fits`). Types and ownership hold
for whatever `Calls` leaves to the handlers, which is every call but one that begins a session above a
start or stop still suspended. `Owner` then relates
pointers and live proxies: a session ends with its registry, a disconnect with every
proxy, and only while `notify::connected` is being emitted may it hold numbers of proxies that
are gone. This last part is the one that asks for `"reconnect" \notin Reentry`.
`MetadataAssumption` says that ids are numbers (`guint32`), that subject 0 exists (the
core, `PW_ID_CORE`), and that the bounds are numbers.

**Metadata: the cache.** `CacheOfBound` and `GoneIsForgotten` need two more invariants.
`Session` says that a wrapper is bound only while it runs with nothing on the stack that ends its
session, and that one that does not run is about to forget its entries. It holds where
handlers do not `sync()`, because then a `sync()` is always the outermost call (`Sits`) and no
global is dispatched between the parts of a `stop()`; `metadata_stop` shows that this
assumption is needed. `History` follows what the server tells. A proxy number is asked for
once and tells of nothing before the server has read that (`AskedOK`); a number tells of
one object only, in the server, on the wire, in the main context and in the cache alike, and
the registry's of none (`TellsOK`); what belongs to a session came from a proxy younger than its
registry (`EventsOK`). This gives `CacheOfBound`, also when the server uses an id again. For
`GoneIsForgotten`, a session that has heard anything hears of removals (`HeardOK`), and as
long as the bound proxy has told of an object that is gone, its removal is on the wire or in the
main context (`FollowsOK`): nothing takes it from there but the wrapper itself, which
then unbinds. Most steps tell of nothing new and begin nothing; for these all of `History`
follows at once (`Shrinks`, `ShrinksKeeps`). The others are the start of a session, a bind, a
value that is cached, a message that is heard, and what the server sends, which goes to the
socket in any order of its receivers.

**Node, Device, Link.** `ObjectInv` is one invariant for the three classes, over the
lists of steps that `Perform` interrupts. A suspended call has a list of steps left, and
`Sound` says which: a part of an opening, of an info, or of the end of a session in which
`"unbind"` is followed by `"halt"` and `"halt"` by whatever the class clears
(`Ends`). So a wrapper that runs without a proxy, or shows a value of an older object, has
the step that will put it right still on its stack (`Owner`, `Shown`), or the value belongs to an
info whose handlers ended the session (`late`). All this holds whatever handlers of
`notify::connected` do. `ObjectsOwnTheirProxies` needs a second invariant, `Owned`, which asks
that they do not reconnect: a reset is owed only while an emission goes on, and the proxies
that a wrapper of a connected core knows are alive. Queued messages and events are typed
by the class and by what was sent (`ConnectionOK`). What one `Perform` reaches is an induction over
its list. The library's induction theorems, which take an operator, are of no
use here, but the minimum principle `WFMin` takes a set: `Least` and `Induction` follow from
it, `AfterExists` shows that the function `after` that `Perform` defines exists, and `PerformReaches` that what holds before
the first step and is passed on by each holds wherever the list is left.

**Modules.** The invariant is `ModuleInv`. Its core is `Accounted`: the live modules
are those a handle holds plus the one the innermost call is about, between its two
locks (`Pending`), and never both; `Live = Held` is false exactly during those calls.
`HandlesWhole` says that no two handles hold one module, so that one free
event or one `unload()` takes it from all there are. `OneContext` says that there is
at most the context of the core, that all live modules are in it, and that
it outlives `connected` only while a `disconnect()` is suspended on the stack, of which
there is one (`OneDestroy`). This is where `~Reentrant` is needed: a handler
that connects below the suspended `disconnect()` makes a second context, as
`module_reconnect` shows. `StackWhole` says that a call between two locks is
innermost, since no handler runs there; with `~Races` nothing else frees
its module. Handlers of `notify::loaded` may unload anything, to any depth.

Only model-checked:

* liveness (`SyncReturns`, `Converges`, `RateConverges`, `CacheConverges`,
  `ShownConverges`): TLAPS has no support for ENABLED;
* `SyncedCache` of Metadata and `EnumComplete` of Objects: they rest on the order of
  announcements in the queues, as `SyncedView` does, but for several proxies at once
  and with values that depend on when each was bound;
* `Values`, where the inputs are what matters.

RECURSIVE operators are out of the prover's reach; the modules use none.

## 5. Not modelled

See `components` in `PROJECT.json`. `pw_init()`, the error domain and the Python
package keep no state that anything depends on. Of the modelled components:
reference counting (a `dispose()` is a `stop()` that nobody else
observes), GObject property plumbing (`get_property` returns what the getters
return), SPA's own parsers and builders below the calls made here, the samples
of a block beyond their peak, and wording of errors and summaries.
`deliver-audio-blocks` may be toggled at any time, so `Stream` lets every buffer
have it on or off.

## 6. Plan

1. *(done)* `Core`, `Registry`, `Discovery`, `Stream` and their proofs.
2. *(done)* `Metadata`, `Proxy` with `Node`, `Device` and `Link`, `ImplModule`, the pure
   operators with `Values`, and the proofs about `ImplModule`.
3. *(done)* Proofs about Core, the proxies of Registry and Metadata, the wrappers of one
   object, and the order of what Stream publishes.
4. *(done)* The refinement of `Discovery` by Registry, and `SyncedView`.
5. *(done)* Whose values the cache of Metadata has, `CacheOfBound` and `GoneIsForgotten`.
6. Left: proofs of `SyncedCache` of Metadata and of `EnumComplete`, each from an invariant
   about the order in which the wire and the main context hold what one proxy told.
