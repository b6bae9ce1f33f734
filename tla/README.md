# Verification of the gin engine

This directory specifies the web framework at the root of the repository (`gin.go`,
`context.go`, `tree.go`, ...) in TLA+, checks small instances with TLC, and proves
theorems about the specifications with TLAPS. Line numbers refer to the repository at
this commit. `src/` of the repository's tree also holds a copy of the Go distribution
(`go/`); of that, only the parts of `net/http`'s response that gin's writer calls are
modelled.

## 1. The system

| Component | Source | State | Operations | What makes it correct |
|---|---|---|---|---|
| Handler chain | `context.go` 187-216, `recovery.go` | `c.index` (int8), `c.handlers`, the Go stack | `Next`, `Abort`, `IsAborted`, panics and Recovery | handlers run in order, none twice, none left out, none after `Abort`; the index never wraps |
| Response writer | `response_writer.go` | `size`, `status`, and net/http's response under it | `WriteHeader`, `WriteHeaderNow`, `Write`, `Hijack`, `Flush` | one header; `Status` and `Size` say what the client was sent |
| Dispatch | `gin.go` 723-892 | `c.handlers`, `writermem`, `engine.trees` | `ServeHTTP`, `handleHTTPRequest`, `serveError`, `HandleContext`, redirects | every request is answered once, with the status of its outcome |
| Routing tree | `tree.go` | nodes with children, indices, priorities; `skippedNodes`, `params` | `addRoute`, `insertChild`, `getValue`, `findCaseInsensitivePath` | a look-up answers the best registered match, whatever the order of registration |
| Registration | `gin.go` 369-438, `routergroup.go` | `trees`, `maxParams`, `maxSections`, `noRoute`, `allNoRoute`, `group.Handlers` | `Use`, `Group`, `Handle`, `NoRoute`, `addRoute` | a route's chain is its group's middleware and its handlers; the capacities fit every tree |
| Context and pool | `context.go` 103-145, `gin.go` 297-301, 723-736 | the pooled `Context` objects | `reset`, `Copy`, `Get`, `Put` | a request never sees another request's state |
| Keys | `context.go` 275-292, 475-481 | `Keys` under `mu` | `Set`, `Get`, `Delete`, `Copy` | no unsynchronised access |
| Input and binding | `context.go` 561-645, 803-936, `binding/` | `queryCache`, `formCache`, the body | `Query`, `PostForm`, `ShouldBind...` | the caches agree with the request; the body is read once |
| Client IP | `context.go` 968-1017, `gin.go` 478-563 | `trustedCIDRs` | `ClientIP`, `validateHeader` | the answer is the first address not written by a trusted proxy |
| Path cleaning | `path.go` | a lazily allocated buffer | `cleanPath` | the canonical path, within the buffer |
| Static files | `routergroup.go` 175-247, `fs.go` | `c.handlers`, `c.index` | the handler of `StaticFS` | a missing file is answered by the 404 handlers |
| Logger, errors, auth, mode, render, codec, ginS | the files of that name | none, or a flag | | conversions and wrappers |

How they meet: `ServeHTTP` takes a Context from the pool, resets it and calls
`handleHTTPRequest`, which asks the routing tree of the method, assigns `c.handlers` and
calls `c.Next()`. The handlers share the Context: they call `Next` and `Abort`, write
through `c.Writer`, may exchange the chain (static files) or re-enter the engine
(`HandleContext`). A panic unwinds through all of these to Recovery. Registration must be
over before requests are served; the code has no lock for it.

What is hard: the chain's only program counter is one int8 that nested, returning,
aborting and panicking handlers all move; the writer keeps a copy of what net/http
knows, and updates it before net/http has agreed; `HandleContext` resets a Context whose
handlers are on the stack; the routing tree backtracks over a slice whose capacity was
fixed when the Context was allocated; contexts are pooled and may be kept by goroutines,
and `reset` takes no lock; lists of handlers are slices that may share an array; the path
buffer is allocated when the result first differs from the argument; headers that name
addresses are written by the client and by proxies alike. `PROJECT.json` lists each hazard at
its line.

## 2. The modules

| Module | Models | Kind |
|---|---|---|
| `HandlerChain` | `Next`, `Abort`, the file handler, panics and Recovery | state machine, inductive invariant |
| `Pipeline` | what a chain promises, without an index | abstract specification |
| `HandlerChainProofs` | | theorems about `HandlerChain` |
| `ResponseWriter` | gin's writer over net/http's response | operators on a record, and a state machine that calls them in any order |
| `Request` | one request through dispatch, chain, writer, Recovery, `serveError`, `HandleContext` | composition: EXTENDS `HandlerChain`, INSTANCE `ResponseWriter` |
| `RequestProofs` | | theorems about `Request` |
| `RouteTree` | `tree.go`: `addRoute`, `insertChild`, `incrementChildPrio`, `getValue` | a record for each loop and a function over its rounds, a state machine that registers routes, a reference matcher |
| `RouteTreeProofs` | | theorems about `RouteTree` |
| `TreeShape` | the order and number of the children of a node | recursive predicates, EXTENDS `RouteTree` |
| `FixedPath` | `findCaseInsensitivePath` over the same trees | recursive operator, EXTENDS `TreeShape` |
| `Router` | `Engine.addRoute` with its table of trees, and the look-ups of a request on a pooled Context | composition: INSTANCE `RouteTree` |
| `RouterProofs` | | theorems about `Router` |
| `RouterGroup` | `Use`, `Group`, `handle`, `combineHandlers`, `NoRoute`, `NoMethod` over slices in a heap | state machine |
| `Registration` | the same calls over lists as values | abstract specification |
| `RegistrationProofs` | | theorems about `RouterGroup` and `Registration` |
| `ContextPool` | the pool, `reset`, `Copy`, the key store and its lock, several requests and the goroutines they start | state machine, one step per lock, access and unlock |
| `ContextPoolProofs` | | theorems about `ContextPool` |
| `CleanPath` | `cleanPath` and `removeRepeatedChar` byte by byte | state machine, inductive invariant |
| `PathRules` | what they compute, by elements | reference definition, EXTENDS `CleanPath` |
| `CleanPathProofs` | | theorems about `CleanPath` |
| `ClientIP` | `SetTrustedProxies`, `validateHeader`, `ClientIP`, and the proxies a request comes through | state machine with an environment |
| `ConnectionProofs` | | theorems about `ClientIP` and `ResponseWriter`, the two ends of a connection |
| `MC...` | | constants of the runs |

An operator whose name has an underscore (`Abort_NoIndex`) is a mutant: a plausible bug
in the definition that follows it, which the runs must notice. Nothing uses it.

### HandlerChain

The Go stack is `frames`: the handlers that were called and have not returned. Everything
below the last frame is inside its call of `Next`. `pc = "loop"` is the test of `Next`'s
loop, `pc = "body"` a handler that runs. `c.handlers[i]` is `handlers[i + 1]`; the state
right after the dispatcher's `c.Next()` and its `c.index++` is the initial one.

| Action | Code |
|---|---|
| `CallNext` | `c.Next()` in a handler: `c.index++`, then the loop (`context.go` 187-189) |
| `LoopCall`, `LoopNil`, `LoopExit` | one round, a nil handler, the end of the loop (189-195) |
| `Return` | the handler returns into the loop, which increments (191-194) |
| `Abort` | `c.index = abortIndex` (206-208) |
| `StaticServe`, `StaticMiss` | the file handler; a missing file installs `engine.noRoute` with index -1 (`routergroup.go` 228-246) |
| `Panic`, `Unwind` | the deferred function of Recovery: a panic for a broken connection aborts, any other calls the recovery function (`recovery.go` 58-91) |
| `LoopBadIndex` | `c.handlers[c.index]` with a negative index |

What a handler does is any sequence of these, so the model covers every middleware whose
effects on the chain go through the Context. Histories: `ran` (indices of the handlers
called since the chain was set) and `aborted`.

### ResponseWriter

A writer is a record: gin's `size` and `status`, net/http's committed status, accepted
bytes and hijacked flag, and two histories: net/http refused a header (`superfluous`), a `Flush` panicked (`torn`).
Each method is an operator; `HeaderPanics`, `HijackPanics` and `FlushPanics` say
when a call panics in net/http or in the type assertion, and the operator then returns
the state the panic leaves behind. `Flush` is `WriteHeaderNow` and then net/http's `FlushError` (`NetFlush`), which asks
for a header if there is none and uses a buffer that `Hijack` has taken away. `WriterSpec` calls the methods in any
order. Bytes are counted in units of one `Write`.

### Request

`RequestInit` is `handleHTTPRequest` up to `c.Next()`, with the router's answer chosen
among a matched route, an error chain (`serveError`), and a redirect. `Flow` is the chain
without effect on the writer; `SetStatus`, `Render`, `RenderFails`, `AbortWithStatus`,
`Hijack`, `Flush` (also each step of `c.Stream`), `ServeFile`, `FileMissing` and `HandlerPanics` are the calls that also touch the
writer; `HandleContext` saves `c.index` and `c.handlers` in `saved` (the local variables of
the suspended call) and dispatches again; `Complete` is the code after `c.Next()` returns.
A panic drops the suspended calls it passes; it may be the handler's, or (`MayPanic`) that of
`Next` itself when it indexes the chain with a `c.index` that wrapped.

### RouteTree

A path is a sequence of tokens: `/`, a letter, or a whole wildcard of a route. The code
splits edges only between tokens and compares wildcards as a whole, so nothing is lost
but wildcards of which one is a prefix of another (both conflict), escaped colons and
wildcards without a name. A node is a record with the fields of `node`, and its children are nodes.

The code's loops carry a pointer down the tree and change what they pass; here a round of a loop
takes a record to the next one. For `addRoute` and `insertChild` the record holds the node of this
round, the path that is left, and in `up` the nodes above as they are by now (`Down` goes one
further, `End` stops with `done` or `panic`); `Root` puts the tree together from them. A panic
leaves the tree half changed, and a program that recovers goes on with it. For `getValue` the record
holds the node, the path, the parameters, `skipped`, which is `*skippedNodes`, and the value when
there is one; `capacity` is what `cap` gives for the slice. `Visit` is one round of its loop, `Through` the
case in which the path goes on behind the node's own, `Here` the one in which it ends with it, and `GoBack`
the three equal pieces of code that go back to a skipped node. A loop has at most `MaxRounds` rounds.

`Register` calls `addRoute` with any route, so every order of every subset is reached. `Reading` reads
a path by a route, token by token; `Matches` (is all of it read), `Bindings` (the values) and
`Better` (which of two matching routes has the letter where the other has the
wildcard) say what the tree is for without mentioning a tree.

### Router

`trees` is the slice of method trees. `addRoute` appends the tree before the insertion that
may panic and raises `maxSections` after it. `ServeHTTP` is one request: take the idle Context
or allocate one, `reset` it, look the path up in the method's tree, and if
`HandleMethodNotAllowed` is set in the other trees, one after the other over the
same slice of skipped nodes; `idle` is the Context that goes back, with what is left in
the slice. A panic in a look-up passes `pool.Put` and, as it happens outside of the
chain, also Recovery.

### FixedPath

`findRec` is `findCaseInsensitivePathRec`: `LowerChild` and `UpperChild` are the two searches
in `n.indices`, the first followed by recursion and the second by the next round of the loop;
`EndsHere` is the block for an exhausted path, `NoPrefix` the code after the loop.
A letter is one byte, and so is what `rb` holds: the letter that led to a node. `Shifted` takes it out by the length of
the node's path, unless that is empty; over a wildcard it stays. The letter to look for is read from the bytes of the
node's own path, so at an empty node none is read and no child is found. `Upper` gives the letters with two cases.

### RouterGroup and Registration

A handler list is a slice: an array of `heap` and a length. `Appended` is Go's `append`: it
writes into the spare cells of the array if they suffice, and otherwise allocates an
array with as many spare cells as it likes (`0..Spare`). `Made` is `make` and `copy`. `EngineUse`
has the two places in which a rebuild of the 404 and 405 chains may panic and leave the rest undone;
the program may recover and go on. `Reuse` is a program that writes to a list it
has passed to `NoRoute`, whose array the engine keeps. A path is a list of segments.

`Registration` says the same without arrays: a call changes one group, and what was made from
it before stays what it was. `RegistrationSpec` reads every slice through the heap and is checked as a
refinement.

### ContextPool

`serving[r]` is the Context that `ServeHTTP` works with, `on[g]` the one that a goroutine (a request's
server, or the one helper its handler may start) calls. `Keys` is a pointer
into `maps` and `Params` one into `arrays`, since sharing is what can go wrong. A call on the key
store is a step that takes the lock (`Lock`, `RLock`), one or two steps that use the map, the last of which unlocks
(`Make` and `Assign` for `Set`, `Delete`, `Get`). `CopyCalled` is `cKeys := c.Keys`, which comes before
the lock; `Copy` the clone under it. `ServeHTTP`, `HandleContext`, `Ends` and `Panics` are the
Context's life; `reset` takes no lock and so may come between any two steps of a helper that still holds
the Context. A Context that was reset in such a way is in `misused` until a
reset finds nobody else on it, and promises are made for the others only: the doc says
that a goroutine must be given a copy (`context.go` 120-121).

### CleanPath and PathRules

`r`, `w`, `buf` and `trailing` are the code's variables, `pc` says in which loop it is. Each
case of the `switch` is an action; `Copy`, `Back` and `Skip` are one round of an inner
loop. `bufApp` allocates on the first difference. A buffer from the stack and one from the heap are
both zeroed and of the same length, so they are one. `PathRules` computes the result of a path
from its elements, in the words of the doc comment (`path.go` 10-22): it reads byte by byte what the
elements are, knows neither buffer nor write index, and joins them at the end.

### ClientIP

An address is a model value, a network a set of addresses, `Junk` what does not parse. A client sends
any headers; each proxy on the way appends the address of its peer to `X-Forwarded-For`; `Serve` is the
server's call of `ClientIP` on a TCP connection, on a Unix socket, or with an address that does not
parse. `route` is who really took part, which the code cannot know: `LastUntrusted` compares it
with the answer.

## 3. The runs

| Run | Result | Question |
|---|---|---|
| `chain` | holds | order, completeness, abort, index range, `IsAborted` on short chains, termination, refinement of `Pipeline`, and that the invariant of the proofs holds |
| `chain_repeat` | holds | what happens when the index does wrap: no handler runs twice, none after `Abort` |
| `writer` | holds | whether gin's account of the response is net/http's, and which calls net/http refuses |
| `request` | holds | the whole request, with one re-entry through `HandleContext` |
| `tree` | holds | shape of the tree; what is found matches, is the best, does not depend on the order; static routes and routes with one wildcard are found; no redirect leads back, both but for routes with nothing but a slash behind a parameter; what the look-up regardless of case answers |
| `tree_complete` | violated | whether every matching route is found |
| `tree_fixed` | violated | whether the look-up regardless of case always finds a wildcard node where it expects one |
| `router` | holds | routes of the own method only, on new and used Contexts; the slice of skipped nodes is long enough for the own look-up; Allow leaves nothing out |
| `groups` | holds | every chain is what the calls promise over lists as values, and short enough for `Next`; refinement of `Registration` |
| `pool` | holds | no request sees another's data or shares its Context, copies are safe to keep, the maps are used under the lock |
| `clean_path` | holds | the result is the canonical path; no index out of range |
| `client_ip` | holds | the answer is the last machine that is not trusted; trust is as listed |

Bounds. `AbortIndex` is 4 instead of 63, with `MaxInt8 = 2 * AbortIndex + 1` as in the
code (127 = 2 * 63 + 1): the arithmetic that matters is the distance from `abortIndex` to
the wrap and the length of the chains below `abortIndex`. `chain` takes all chains of up to
three handlers over the five kinds; the proofs remove this bound. `MaxNextCalls` bounds how often one handler
calls `Next`; 1 is the documented use, 10 in `chain_repeat` is enough to wrap the index of
`MaxInt8 = 9`. In `Request` two status codes (one that forbids a body, one that does
not), two writes with data, and one re-entry are enough for every order of status,
header, body, panic and re-entry; the route chains hold every kind of handler in every
position that makes a difference (Recovery first, Recovery in the middle, none, a file
handler last).

`tree` registers four routes out of twenty-three, conflicting and malformed ones among them, and
looks up every path of at most four tokens over two letters, and those of five tokens in which no
slash follows another: a split, a
split of a split, a priority move past a sibling, a skipped node under a skipped node,
a route that needs two steps back and each way out of `getValue` need no more. `router` takes three
methods, since a skipped node of one tree can only reach another look-up of the 405
loop with two trees besides the request's own, three routes out of six (two levels of wildcard
siblings need three), and seven paths picked for the ways through them. `MaxRounds` is 9: that no
look-up needs more is part of `BestFound` (`kind # "none"`), and a registration that was cut short
would leave the root a priority above the number of handlers in the tree, which `WellFormed` forbids.
The theorems about the tree hold for every `MaxRounds`.

Of the routes of `tree` two have a capital letter; the paths that are looked up regardless of
case are the clean ones of at most four tokens over three letters, which reach both
cases of a letter at a node, a wildcard beside and below them, and a slash too many or too few.

`groups` makes two groups besides the engine's own and at most five arrays, with lists of up to two
handlers, `abortIndex = 4` and one spare cell: two lists that append into the same array need
one spare cell and two groups, and a chain that is too long needs four handlers (two lists of two). `pool` has two
requests over two Contexts, and one helper at a time: another request's data needs one other
request, a race two goroutines; what two helpers of one Context can do to each other a
helper and its server can. `clean_path` takes every string of up to seven bytes over `/`, `.`
and two letters, enough for a step back over an element after the buffer was allocated and a
trailing slash after it; the theorem removes this bound. `client_ip` has three
addresses, lists of up to two networks, two items from the client and two proxies: a trusted proxy
behind an untrusted one, and forged items in front of both.

What `tree` says of completeness it says for routes with one wildcard that fills a segment,
because `tree_complete` shows that it fails for two, and for trees without a route like `/:p/` (section 4); what `router` says of the capacity it says
for the look-up of the request's own method, for whole-segment wildcards, for a Context
that is not older than the routes, and for trees without what a panicking registration leaves: without
any of the four the look-up panics, as the list below says.

Fairness. `WF_vars(Next)`: one goroutine serves the request and the scheduler keeps running
it; that a handler does not call `Next` for ever is `MaxNextCalls`. In `Request` a
handler could call the writer for ever, so fairness is on `Progress` only: the loop goes
on, handlers return, file handlers and the dispatcher finish. A handler that never
returns is outside: gin has no timeout for it.

## 4. Findings

The runs with a violation refute a sentence of the repository:

* `tree_complete`: with `/a/:q` and `/:p/:q/b`, `/a/x/b` is not found: `getValue` returns from a
  parameter node without trying the skipped nodes.
* `tree_fixed`: with `/a` and `/:p`, a look-up regardless of case panics with "invalid node type":
  the wildcard child is the last child, and the look-up takes the first.

Less than these, the properties' own conditions mark where a promise ends. Each can be
seen by dropping the condition or changing the constant that is named:

* `IsAbortedTruthful` needs a chain of at most half of `abortIndex`: each return through a nested
  `Next` increments the index, so that `IsAborted` becomes true without `Abort`.
* `StatusIsWire` excepts 1xx codes: after `Status(103)` and output, `Status()`
  says 103 and the client got 200. `Flush` after a 1xx status commits to 200 as well.
* `RefusalPanics` excepts `Flush` of a connection that was taken: `Flush` calls net/http's `FlushError` in any case,
  which asks for a header (refused, with a log entry, if none was out) and then panics on the buffer that
  `Hijack` set to nil. With Recovery the handler is cut short and nothing is answered. The same happens in
  `c.Stream` when a step hijacks.
* `StatusReported`, `Answered` and `AbortStopsRequest` have a condition on re-entries: after
  `HandleContext`, `serveError` overwrites the status of a response that is out, and the reset
  undoes an `Abort`, so that handlers run again; if a panic passes `HandleContext`, the inner
  chain stays installed under the outer loop.
* `request` has valid status codes only: net/http panics for an invalid one after the writer has
  marked itself written, so that Recovery cannot send its 500 and the client gets an empty 200.
* `RecoveryAnswers500` is checked with `CanHijack = TRUE`: a `Hijack` that panics for lack of a
  `Hijacker` has also marked the response written.
* `OwnLookupFits` is about up-to-date Contexts (a Context from before the routes were added keeps its shorter
  slice) and is checked for whole-segment wildcards (`/:p`, `/ab`, `/a:p` and a request of `/ab`: two skipped nodes, one slash), and
  as long as no registration panicked: `addRoute` inserts nodes before it panics, and `maxSections` is not
  raised for them.
  With `HandleMethodNotAllowed` the loop for 405 shares one slice among its look-ups: with GET and POST on
  `/a` and `/:p`, a PUT of `/a` panics, and where the slice is long enough a node skipped in one tree
  can make `Allow` name a method without a route, which is why `AllowComplete` says only that none is left out.
* `FixedFound` is about trees in which no wildcard has a sibling (otherwise see `tree_fixed`; the look-up may also
  answer the path it was asked for, which redirects to itself), and not about `/`, for which the
  look-up may answer the empty path: a request of `//` is then sent to `/`, which is 404. A path with its slash
  taken away may also lead to a 404. That a path is found it says only if each catch-all stands behind a letter and a slash (`Findable`):
  the empty node before a catch-all that follows a parameter (`/A/:p/*c`) or starts the tree (`/*c`) gives no letter to look
  for, so that such a route is found in its own spelling by `getValue` and in no other one by this look-up, unless a
  stale `rb` happens to hold the slash. A slash at the end is repaired in all cases only without wildcards: with `/:p` and `/:p/:q/b`,
  `/a/` has a child to go on with and is not sent to `/a`.
* `OwnData` and the last part of `MapsSafe` except Contexts that were reset while a goroutine held
  them: such a goroutine reads and writes the next request's keys, and `Set` may write to a nil map.
* `MissChains` and `ChainsFit` except a program that recovers from "too many handlers" in `Use`, `NoRoute` or
  `NoMethod`: the middleware is then appended and the 404 or 405 chain is not, and
  `engine.noRoute` may be too long for the file handler, which installs it without its own check.
* In `groups` a program gives `NoRoute` and `NoMethod` lists of their own; one list given to both is not modelled
  (the engine only reads it).
* `LastUntrusted` is about `X-Forwarded-For` scanned for a peer with an address. Over a Unix socket without
  a usable header `ClientIP` answers the text of a nil address, `<nil>`. After a list that does not parse, the networks before
  the bad entry are trusted (`TrustAsListed`).
* `NoRedirectLoop` and `CompleteForOneWildcard` except trees with a route that has nothing but a slash, or a slash and a catch-all,
  behind a parameter (`SlashOnly`), for which the code does redirect for ever: with `/ab`, `/a/:q` and `/:p/`, a request of `/a` goes
  back to `:p`, whose child is a slash, and is sent to `/a/`; that path ends at the node before `:q`, where the look-up
  does not go back (`tree.go` 635) although `/:p/` matches, and is sent to `/a` (661). The comment of
  `RedirectTrailingSlash` (`gin.go` 94-97) says that a handler must exist there. The same with `/:p/*c` for `/:p/`, and with `/a:p` for `/a/:q`.
* `NoRedirectLoop` and `WellFormed` are about trees without what a panicking registration leaves: after
  `/:p/*c/`, which panics, and `/:p/a`, a request of `/x` is sent to `/x/` and back.
* `NoRedirectLoop` does not say that a redirect leads to a route: with `/:p` alone, `//` is sent to
  `/`, which is 404.
* `Better` ranks matching routes only: `/user/groups/x` is taken for `/user/:name/*action` beside
  `/user/groups`, although `docs/doc.md` line 160 says that it never is.

## 5. The proofs

`HandlerChainProofs` proves, for every `AbortIndex`, every set of chains, every 404 chain
and every number of handlers, under `SafeUse` (a handler calls `Next` at most once, and
the 404 chain fits on top of a chain that ends in a file handler):

| Theorem | Statement |
|---|---|
| `InductiveInvariant` | `Spec => []IInv` |
| `TypeCorrect` | `Spec => []TypeOK`, a part of `IInv` |
| `IndexNeverWraps` | `Spec => []IndexFits` |
| `CalledInOrder` | `Spec => []InOrder` |
| `NoneLeftOut` | `Spec => []NoneSkipped` |
| `AbortIsFinal` | `Spec => AbortStops` |
| `AbortVisible` | `Spec => []IsAbortedTruthful` |
| `ImplementsPipeline` | `Spec => PipelineSpec` |

`IndexFits` alone is not inductive: that `c.index++` cannot wrap follows from how many
handlers are still to return. The argument has three parts. `CallersWait`: every handler
below the innermost has made its one call of `Next`. `DepthInv`: each frame has moved the
cursor by one, so the stack is never deeper than the chain is long, which is below
`abortIndex`; after the file handler has installed the 404 handlers, `base` frames lie
under theirs. `IndexInv`: once the index is past the chain, the index, the depth and the
outstanding calls together stay at most `MaxInt8`, because `abortIndex` plus a depth
below `abortIndex` does. The last part of `DepthInv` is the stack that a panic leaves below the
`HandleContext` it passed, for `Request`. `AbortInv` and `RanInv` tie the histories to the cursor. There is
one lemma per action; `UnwindInv` covers both ways to panic.

`AbortVisible` needs one invariant more. Without `Abort` the index can grow past the chain only by
returns, and each frame on the stack is good for one, or two before it calls `Next`. `ReturnsInv` says that index and
returns to come stay below twice the chain's length, which is `abortIndex` at most where
`IsAbortedTruthful` speaks.
`ImplementsPipeline` says that the index amounts to a list: `Todo` holds the handlers that
the index has not reached (`Remaining`, from `Cursor`), and every action calls its first,
drops one, drops all or exchanges the list for the 404 handlers, or stutters. The
invariant is needed once: `IndexFits` in the next state, so that an increment does not bring
back handlers that were passed (`NoWrap`).

`CleanPathProofs` proves, for every set of strings and bytes:

| Theorem | Statement |
|---|---|
| `PathInvariant` | `Spec => []IInv` |
| `IndicesInBounds` | `Spec => []InBounds` |
| `ResultClean` | `Spec => []Cleaned` |

`InBounds` says of each read, write and result that it is inside the string or the buffer. It is not
inductive: that there is room for one more byte follows from writing being behind reading.
`Behind` bounds `w` by `r` (by `r + 1` for a path that got a leading slash, whose buffer has one byte more:
`Lead`), strictly where a slash is about to be written between two elements; after `..` the
step back restores it. `Owed` says that the slash appended at the end has its
place: either the string ends in a slash that was not copied, or in a dot that was not.

`ResultClean` compares the loop with the reference of `PathRules`, which reads the string once from left to right:
`Scanned(p)[i]` holds the elements ended within the first `i` bytes and what there is of the next one.
`ReadInv` says, for each place of the code, what the written bytes are in terms of `Scanned(p)[r]`: at
the head of the loop the elements read so far, joined; within a copy those and a slash and the part of the
element already read, which began as a real one (`RealAt`); within the descent after `..` still the last
element or a part of it, but nothing else after the slash at which the descent will stop; `SlashInv` says
when `trailing` is set. There is a lemma per action, and what they have in common is `WriteAppends`: whether or
not there is a buffer yet, `bufApp` appends one byte to the result and changes none before it. That the buffer may be
missing is why `ReadInv` speaks of `Content`, which is the path itself as long as the result is a prefix of it.
`RepeatInv` is the same for `removeRepeatedChar`.
The reference consists of recursive functions, and that they have values is proved too (`Recursion`, from `CountUp`: a set with 0
that is closed under the next number holds all of `0..m`, by its least element that is missing; an
induction theorem of the library cannot be used, as its parameter is an operator).

`ConnectionProofs` proves, for every set of codes that net/http accepts (`ValidCodes`), any
amount of data and underlying writers that can be hijacked or flushed or not:

| Theorem | Statement |
|---|---|
| `WriterInvariant` | `WriterSpec => []IInv` |
| `StatusCorrect` | `WriterSpec => []StatusIsWire` |
| `SizeCorrect` | `WriterSpec => []SizeIsBody` |
| `HeaderOnce` | `WriterSpec => []RefusalPanics` |
| `HijackCorrect` | `WriterSpec => []HijackedClean` |

The four need each other: that nothing but a `Flush` which panics is refused follows from net/http having no header
and the connection while `Written` is false, and from there being a header or no connection once it
is true; that the status does not move away from the wire's follows from
`Written` being true as soon as there is one. `Agrees` says this of one record, and there is a
lemma per method, so that it holds of any composition of the calls. Without `ValidCodes`
`WriteHeaderNow` marks the writer as written and then panics, as section 4 says.

`ContextPoolProofs` proves, for any number of requests, Contexts and goroutines:

| Theorem | Statement |
|---|---|
| `PoolInvariant` | `Spec => []IInv` |
| `ContextsExclusive` | `Spec => []Exclusive` |
| `DataOwned` | `Spec => []OwnData` |
| `MapsNeverRaced` | `Spec => []MapsSafe` |
| `CopiesApart` | `Spec => CopyApart` |

The pool may make a Context at any time, so what has to be kept for `Exclusive` is that it never
makes one that is in use. `Held` ties the three places together: what is in
the pool or held by a request was allocated, and the server of a request works with the Context that the request
holds, so that only the holder can give it back. `Mine` adds what the Context leads to: a map and an array of
its own, with the data of the request that its writer leads to. `Locked` says from where a goroutine is
which lock it holds; with `Mine`, two goroutines on one map are two goroutines under one lock. `Copying` closes the gap
in `Copy`, which reads `c.Keys` before it takes the lock: the server of the request is inside `Copy`, so nobody
resets the Context, and nothing but a reset exchanges the map once there is one. `Filled` is the
same for the two halves of `Set`.

`RegistrationProofs` proves, for every set of handlers, lists and paths and every `AbortIndex`:

| Theorem | Statement |
|---|---|
| `SlicesInRange` | `Spec => []SlicesWithin` |
| `ChainsShort` | `Spec => []ChainsFit` |

`ChainsFit` is what `HandlerChain` assumes of the chains it is given. The code tests the sum
of two lengths before `combineHandlers` copies; that the copy has that length needs every
slice to be within its array, also after an `append` in place and after a program wrote
to a list it gave away: `SlicesWithin`, with a lemma for each of `append`, `make` and
`combineHandlers`.

It goes on from there:

| Theorem | Statement |
|---|---|
| `ListsApart` | `Spec => []ArraysApart` |
| `ListsAreValues` | `Spec => RegistrationSpec` |
| `MissCorrect` | `Spec => []MissChains` |

Two lists may not share an array if one of them is written to: a group's by `append`, the one given to
`NoRoute` or `NoMethod` by its caller (`ArraysApart`; that chains share none among themselves is not
needed). It holds because `combineHandlers` copies, and fails if it appended instead. There is a lemma for
what each of `append`, `make` and `combineHandlers` leaves in the new slice and in every slice that is apart
from it; from these each call is shown to do to the values what the action of `Registration` of the same name does,
also when a rebuild panics half way. `MissChains` then follows from the steps of `Registration`.

`ConnectionProofs` also proves, for all sets of addresses and networks, lists, headers and ways through proxies:

| Theorem | Statement |
|---|---|
| `TrustCorrect` | `Spec => []TrustAsListed` |
| `AnswerCorrect` | `Spec => []LastUntrusted` |

Both follow from `Traced`: `trustedCIDRs` is the parsed prefix of the list, and `X-Forwarded-For` ends with
the route without its last machine (`Forwarded`), whatever the client put in front. The machines behind the last
untrusted one are trusted, so the scan from the right cannot stop before it and must stop
at it. That a list that does not parse has a first bad entry is the well-foundedness of the naturals.

`RequestProofs` proves, for every set of chains, every 404 chain and any number of handlers and
re-entries, under `FinalCodes` (handlers ask for codes that net/http takes for the final status, and
the connection can be hijacked):

| Theorem | Statement |
|---|---|
| `RequestInvariant` | `RequestSpec => []RInv` |
| `OneAnswer` | `RequestSpec => []Answered` |
| `StatusKnown` | `RequestSpec => []StatusReported` |
| `PanicIs500` | `RequestSpec => []RecoveryAnswers500` |
| `AbortStopsThemAll` | `RequestSpec => AbortStopsRequest`, under `SafeUse` as well |
| `ChainsResume` | `RequestSpec => []Resumes`, under `SafeUse` and `PanicsAbort` as well |

The first three properties speak of what the client got; `Honest` adds what the writer knows: it is
marked as written exactly if a header is out or the connection is gone, and its status is one that net/http takes. Each
operation of the writer keeps `Sent`: a status on the wire stays, and `Status()` goes on to report it. `Sent` is
transitive, so a handler's step is a chain of operations. Only `HandleContext` breaks the second half, by
storing the error status over an answer that is out, which is why `StatusReported` ends there. For the default
answer, `Untouched` follows the writer of a request that no handler touches from `serveError` to its tail:
no file handler can be on its stack, since none is in the 404 chains. Without `CanHijack` a failed `Hijack` marks the writer as
written with nothing sent, and a panic caught after it would leave no 500.
`AbortStopsThemAll` rests on `HandlerChain`'s proof: until the engine is re-entered every step of `Request` is one of
`HandlerChain`'s or the tail of the dispatcher (`ChainStep`), so `IInv` holds of the whole request (`ChainInv`).

`ChainsResume` is about re-entries. `HandlerChain`'s `IInv` holds of each activation of `handleHTTPRequest` on its own
part of the stack, so `NestedInv` says it once for the running activation (`Act`, with `frames` cut at
the base) and once for each suspended one (`Waiting`, with the values that `saved` keeps and the frames between two
bases), and the lemmas of `HandlerChainProofs` are used for every activation through `INSTANCE`. A panic that
passes `HandleContext` is the hard case: the chain of an activation that is gone goes on under the loop of an older one,
with an aborted index and a stack of which nothing is known but its depth. `PanicsAbort` excludes one thing there: with
re-entries, a `CustomRecovery` whose function does not abort. Such a chain goes on calling handlers over that stack, and
its returns can wrap `c.index`; the `request` run has such a chain, with one re-entry, and finds nothing.
`NestedInv` was checked with TLC, in `request`'s instance without that chain and with one and two re-entries, before it was proved.

`RouteTreeProofs` proves, for every set of routes and paths (of which `RoutesAssumption` says that they begin with a
slash and that only a slash or another wildcard follows a wildcard), any number of registrations and any `MaxRounds`:

| Theorem | Statement |
|---|---|
| `AddRouteGood` | `addRoute` makes a good tree of a good tree, with the route in it if it returned |
| `TreeGood` | `Spec => []TreeInv` |
| `LookUpSound` | `getValue` in a good tree answers a route of the tree that matches |
| `TreeSound` | `Spec => []Sound` |
| `LookUpOverLeft` | what an earlier look-up left in the slice makes `getValue` miss nothing |

A tree is a value, and a proof about every node of it would be an induction over data, which the provers
cannot do. `Good(A, a, m)` therefore says of a node what a set can witness: there is a set `G` of pairs of a path and a node,
the pair of `a` and `m` among them, such that each node in `G` is in shape (`Local`: what a node of its kind holds, and
that its handlers, if it has any, are those of a route in `A` that is spelled by the path down to it) and has its children in `G` (`Below`).
What is used of it is one level at a time: `GoodOpen` takes a good node apart and `GoodMake` puts one together.
Two things about the code's trees make `Local` more than a type. Only the last child of a node may be a parameter, and only where
`wildChild` is set; and the child with the letter `/` may be the empty node over a catch-all.
Priorities, and that `indices` names the children's first letters, are not needed: a look-up compares
the path of every node it goes to. That is also why the theorem covers trees that a panic left half changed.

A registration changes the tree from the middle. `Ready` says of a round: what has been read is the path `b` down to
its node, the node is good below `b`, and `Around`: the tree that `Root` makes of the nodes above is good with
any good node of the same kind in this place, for the old routes and for these with the new one. So a
panic and a return end alike, with a good node put into a good hole. There is a lemma for each
thing a round does to a node: raise a priority and move the child (`Incremented`), split an edge (`GoodSplit`), add a child
(`Widened`), a parameter (`WithParam`) or a catch-all (`CatchAllPlaced`), or set the handlers (`EndHere`).

A look-up keeps `LookInv`: the path has been read by the tokens down to the node, with the parameters bound so
far (`Stands`), and the same holds of every skipped node and the parameters that were bound there (`Skips`). Backtracking is
sound because `paramsCount` grows along the slice, so that what a skipped node
cuts off was bound after it. At a node with handlers the tokens down to it are the route.

`LookUpOverLeft` runs two look-ups side by side, one over an empty slice without a limit and one over what
is left in a slice with a capacity. A round does the same in both (`VisitAgree`) except for the nodes
skipped, of which the second has the first's behind the old ones (`Beside`), so that it goes back to the first's own nodes first
(`LatestBehind`). They part only where the first ends in a miss and the second goes back to
an old node, or where the second runs out of room.

`RouterProofs` proves, for every set of methods, routes and paths and every setting of the options:

| Theorem | Statement |
|---|---|
| `RouterInvariant` | `Spec => []RouterInv` |
| `RequestsGiven` | `Spec => []RouteGiven` |
| `AllowNamesAll` | `Spec => []AllowComplete` |

`Table` says that each tree is good for the routes that were registered for its method; a registration that
panics keeps it by `AddRouteGood`. That the pooled Context's skipped nodes come from any other tree does not matter
because `reset` empties the slice, and then `LookUpOverLeft` says that the request's own look-up is the one on its own. In the loop for
405 the slice is not emptied, and the same theorem says that no method is missed. The theorems about one tree are
used through `P`, an instance of `RouteTreeProofs` with the history as `accepted`, and the lemmas `Same...`
say that its operators are those that `Router` calls.

`SafeUse`, `ValidCodes` and `FinalCodes` are hypotheses of the theorems, not assumptions about the code:
`chain_repeat` shows what happens without the first (the runtime panics; no handler runs twice).

Model-checked only are:

* `Ends` and `RequestEnds`, which are liveness under fairness.
* `BestFound`, `OrderIndependent` and `CompleteForOneWildcard`. They say that a route is found, not only that
  what is found is one, and so need the converse of `Good`: where in the tree each registered route is, that
  `indices` leads there, and that the path to it is the first one the look-up tries. `BestFound` and
  `OrderIndependent` also say that `MaxRounds` is enough, which takes a measure over the whole tree.
* `NoRedirectLoop`, which compares two look-ups of different paths and needs `WellFormed` for it.
* `OwnLookupFits`, which bounds the nodes skipped by the slashes of the longest route: it needs the depth of a tree, a number
  that only a recursion over the tree defines.
* `WellFormed` and `FixedFound`: the number of handlers in a tree, and the look-up regardless of case, are recursive operators
  (`TreeShape`, `FixedPath`), and TLAPS cannot reason in a module that reaches one.

## 6. Not modelled, and the plan

Left out for good: formatting, logging, encodings, TLS and listener set-up, the Go
distribution beyond the response, the demo. Further:

* Binding: the conversion of a request's text into a struct by reflection. The query and form
  caches are a test for nil and an assignment on one goroutine. `ShouldBindBodyWith` keeps the body
  under a key; the keys are in `ContextPool`, the body is not.
* `SetMode`: two atomics stored one after the other, which choose what is printed and are set before
  the engine serves.
* `Errors`, `Logger`, basic authentication, `ginS`: no behaviour of their own beyond the calls
  that are modelled as a handler's.
* `maxParams` (the look-up makes a longer params slice when the Context's is too short, `tree.go` 545), escaped colons and
  `updateRouteTrees`, unescaping of values, runes of more than one byte in `FixedPath`,
  `X-Forwarded-Prefix` in redirects.

What is left to do is the other half of the routing tree: an invariant that says where each registered route is, from
which `BestFound` for routes without wildcards would be the first to follow.
