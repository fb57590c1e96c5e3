# A verification of shinobi

shinobi is an HTTP micro-framework over Go's `net/http`: a router in front of
`http.ServeMux`, a request context (`Ctx`) and response wrapper, a set of
middlewares, binders, a WebSocket adapter and a graceful shutdown. These
modules model the parts of it in which the order of steps matters, check them
with TLC on small instances, and prove the main results with TLAPS for every
instance. `PROJECT.json` holds the details: components, runs, mutants, the
source lines of every definition, hazards, findings and theorems.

## The system

| Part | State | Operations | Interacts with | What is hard | What makes it correct |
|---|---|---|---|---|---|
| Rate limiter `middleware/ratelimit.go` | map from IP to a ring of time stamps, a mutex, a cleaner goroutine with a ticker | `allow`, `cleanup` | every request's goroutine; refusals are errors of the chain | the clock is read before the mutex; rings wrap; the cleaner deletes what may still count; limit 0 | never more than the limit in a window; a 429 only to those above it; nothing that counts is forgotten, everything else is |
| Chain, `Response`, errors `router.go`, `response.go`, `ctx.go`, `handler.go`, `errors.go` | per `Ctx`: status, written flag, writer, context; the connection | `Handle`, `WriteHeader`, `Write`, `Render`, `WithContext`, `Adapt`, the error handler | all middlewares | copies of the `Ctx` drift apart; panics; deadlines; deferred closes before the error handler | failures are never answered as successes; answers are not touched afterwards; bodies are coded as declared |
| Middlewares `middleware/*.go` | none, or what they put into the `Ctx` | one wrapper around `next` each | the chain | their order | as above |
| Router `router.go`, `shinobi.go` | prefix, middleware slice, shared mux and route list, NotFound handler | `Use With Group Route NotFound Handle Method Mount ServeHTTP` | `http.ServeMux`, the chain | slices share arrays when appended to; conflicting patterns panic; a second way of dispatch with NotFound | routers do not disturb each other; a listed route is reachable |
| Graceful shutdown `shinobi.go` | two channels, a goroutine, a timer, the process's signal handling | `serveGraceful` | `http.Server`, the operating system | signals before, during and after everything else; the time ends between two looks at the connections | always ends; says nil only when it waits for no connection any more; leaks nothing |
| Binders `bind.go`, `ctx.go` | the body, what net/http parsed from it, the struct, a registry of binders | `BindQuery BindForm BindJSON BindXML Bind`, `FormValue`, `FormFile` | the endpoint, net/http's `Request` | a body can be read once; which call comes first decides what later ones find; a map's random order; partial binding; integer widths; what follows a document stays in the body | what is bound is what was sent; a fault is reported; documents are decoded in order, once and whole |
| Upload validation `validate.go` | the file's position | size, type, extension checks | the endpoint | failing reads and seeks, retries, a limit plus one | the verdict is the one the file deserves; the file is at its start after it |
| WebSocket `websocket/websocket.go` | one connection | upgrade, handler, close | the chain, the shutdown | panics and two errors; the layers above still write | the session ends with its handler; nothing else is written to it |
| RealIP, RequestID, CORS, BasicAuth, NoCache, SecureHeaders `middleware/*.go`, `ctx.go` | the `http.Request` a `Ctx` holds, its context, the headers of the response | one wrapper each; `Set`, `Get`, `WithContext` | the chain, the limiter, the logger | their position in the stack: some write into the request that is there, others replace it by a copy | later layers see what earlier ones set; every answer has the headers |
| Static files | none | `File`, `Attachment`, `Inline`, `FileServer` delegate to `net/http` | the chain | for a file it cannot serve net/http deletes headers that layers have set | as the chain |
| Options, accessors | plain fields | assign, read | the chain | nothing of their own | by inspection |

## The modules

| Module | Models | Uses |
|---|---|---|
| `SlidingLog` | what a sliding-window limiter promises: stamps, verdicts and a log of admissions, nothing else | |
| `RateLimit` | `middleware/ratelimit.go` | `SlidingLog` as the specification it implements |
| `RateLimit_proofs` | proofs about `RateLimit` | |
| `Exchange` | what the client sees of one request: headers, body or session, end | |
| `Pipeline` | one request through a chain of layers and back into the error handler | `Exchange` as the specification it implements |
| `Pipeline_proofs` | proofs about `Pipeline` | `Extremes` |
| `Context` | what a request carries through a chain: address, id, credential, form, and the headers of the response | |
| `Context_proofs` | proofs about `Context` | `Extremes` |
| `Binding` | `bind.go` and the calls of `Ctx` that read a body | |
| `Upload` | `validate.go` | |
| `Input` | an endpoint that uses both: an uploaded file must have been found by `FormFile` | `Binding`, `Upload` |
| `Input_proofs` | proofs about `Input` | `Extremes` |
| `Extremes` | lemmas about `Min` and `Max` of the community modules | |
| `Scopes` | what a tree of routers promises: prefixes and independent stacks | |
| `Router` | `router.go`: slices over arrays, registration, dispatch | `Scopes` as the specification it implements |
| `Router_proofs` | proofs about `Router`: stacks and prefixes | |
| `Dispatch_proofs` | proofs about `Router`: patterns and requests | `Router_proofs` |
| `Service` | what `ListenGraceful` promises: a door, connections, a verdict | |
| `Graceful` | `serveGraceful` with `http.Server` and `os/signal` as far as it uses them | `Service` as the specification it implements |
| `Graceful_proofs` | proofs about `Graceful` | |
| `MCRateLimit`, `MCPipeline`, `MCRouter`, `MCContext`, `MCInput` | constants and symmetry for TLC | |

Operators marked *Fault* in a comment next to a definition are plausible bugs
of that line of code; `PROJECT.json` says which property each one breaks.

### RateLimit

State: `requests` is `rl.requests`; `timestamps`, `head` and `size` are the
fields of the buckets (a bucket is named after the request that allocated it);
`now` is the local variable of each `allow()`; `cleaner`, `cutoff` and `ticks`
are the cleaner goroutine, its local variable and the ticker's channel. `home`
and `index` record where a request's stamp went.

`Arrive` reads the clock (lines 62-63). `Fill`, `Slide`, `Refuse` and `Overrun`
are the ways through the critical section (65-89), which is one step because
the mutex covers it. `CleanerWake` receives a tick and reads the clock (30,
92); `Sweep` is the cleaner's critical section. `Tick` advances the clock. A
request waits at most `MaxLag` between its stamp and its verdict; without a
bound on that wait the code promises nothing about windows.

### Pipeline

The chain is chosen in `Init`. The request walks `down` to the endpoint, or to
a layer that answers, and `up` again, where each layer does what stands after
its call of `next` or in its `defer`. `response[k]` is the `Response` of the
`Ctx` made by layer `k`: `Timeout` and `Adapt` copy it by value. `wire` is what
the connection has really got. A `gate` stands for a middleware that may not
call `next`: RateLimit (error, or panic with limit 0), CORS (204), BasicAuth
(401, or a panicking validator). Deadlines and the client's leaving happen at
any time before the request is done. An error is the status that the default
error handler gives it and whether a `MaxBytesError` is in its tree. gzip and
deflate are one coding; whether the closing of a nested flate stream reaches
the connection at once is not distinguished.

The endpoint renders, redirects, serves a file (all of them `Sends`), answers
without content, informs, or upgrades to a WebSocket. `EndpointInforms` sends a
103, as an `http.ReverseProxy` under `AdaptHTTP` does: it is not the last status
(`Final`), but `Response` takes it for that, and the status that follows is
withheld. Only the endpoint informs in the model, not a stdlib middleware that
then goes on. `ServesNone` is net/http answering for a file without serving it:
304, a header alone, or 404 and 416 with a text; before them it deletes
`Content-Encoding` from the headers (`DeleteCoding`), while the writer of a
Compress stays where it is. `wire.dropped` remembers that. `Upgrade` hijacks the
connection past the `Response`, so the `Response` believes that nothing was
written, and the deferred `Close` ends the session on return and on panic.
`Compress` puts in a writer without `Unwrap`, so no upgrade works below one that
accepts.

`Exchange` is the same request as its client sees it: the final status on
`wire`, the coding declared or withdrawn before it, the kind of each part of the
body, the session and the end.
Copies, writers, errors and panics are mapped away; `ImplementsExchange` has no
provisos, it holds for the chains of the two findings too.

### Context

`requests` are the `http.Request` objects in the order they are made, `request`
says which of them each `Ctx` holds. `Set` and `WithContext` append a copy,
`RealIP` writes the address into the object that is there, so a `Ctx` copied
before sees it or not by what it shares. `seen`, `logged` and `header` record
what the layers took and set. `form` is a middleware of the application that
reads a form value; `files` are the temporary files of a multipart form, which
net/http removes after the request, but only those of its own object. An id of
a client is -1, a new one is the number of the layer that makes it; "none"
stands for a string that is absent. The endpoint answers, returns an error, or
lets net/http answer for a file it cannot serve (`FileError`), which takes
`Cache-Control` back. `StripPrefix` (in `Mount`) replaces the request too, but
before the chain begins.

### Binding, Upload and Input

`sent` is what the request contains, `left` what is left of its body, and
`hasForm`, `hasFields`, `hasFiles` what net/http has parsed. `BindQuery` and
`BindForm` start a loop over the fields, one `BindField` each, because binding
stops in the middle. `BindDocument` is the JSON or XML binder, alone or picked
by `Bind` from the registry by any name that the content type contains (the Go
map is walked in random order, hence the choice). A body holds documents one
behind the other (`ends` says where each one ends) and perhaps something else
behind the last. A call of `Decode` takes one document and ignores what follows;
its decoder has read more of the body than that, so the next call begins
anywhere from the end of the document to the end of what could be read (`Takes`,
cut by `JSONMaxBytes`, for each call anew). A document that does not end within
it is an error, unless its kind does not show where it ends, as with a number,
or an earlier call has taken its first part: then the rest may pass (`Partial`).
What `strconv` and the decoders accept is `Readable` and `fault`; net/http's
parsing follows its source as the code uses it. A malformed query, which makes
`ParseForm` fail once as well, is not among the faults. Forms are shorter than
`JSONMaxBytes`, a decoder consumes them whole.

`Upload` follows `Validate` check by check; each read and each seek may fail
and leaves the file where it stands. `MaxSize + 1` wraps at `MaxInt`, which is
harmless: a limit of `MaxInt` cannot be exceeded.

### Router

A slice is an array and a length; `append` writes in place while the capacity
lasts and moves to a larger array otherwise, with Go's growth for pointers of
this size. `clone()` allocates and copies. `With`, `Group` and `Route` clone.
Paths are sequences of segments with a flag for the trailing slash, so
`path.Join` is concatenation; paths that `path.Join` would clean (`..`, `//`)
are not given. `ServeMux` is external: matching, precedence, conflicts (which
panic) and the redirect to a trailing slash follow its documentation for
patterns without a host and with whole-segment wildcards. A panicking
registration leaves the program running, as a `recover` around it would.
`Covers` and `Overlap` compare patterns in three parts each (method, path, end
of the path); a request is compared as if it were a pattern without wildcards.

### Graceful

`main` is the control of `serveGraceful`, `server` that of the goroutine that
runs `start()`. `quit` and `errCh` are the channels of capacity one. A signal
is queued while `relayed` (between `signal.Notify` and the deferred
`signal.Stop`), dropped when there is no room, and ends the process otherwise.
`Shutdown` closes the listener, waits for `Serve` to let it go, and then looks at
its connections now and again (`Poll`). A look closes the idle ones, and the new
ones that have sent nothing for five seconds; with no other left, `Shutdown`
returns nil. Between two looks (`main = "waiting"`) the context may end, and the
timeout is returned then, whatever has become of the connections since: also
when the last request has just been answered. Meanwhile requests end, and arrive
on connections that were accepted before, or that `Accept` still returned to a
loop that had not noticed. A look is one step of the model, although in net/http
the goroutines of the connections run on beside it: for a connection it closes
while a request is being read there the model has "orphaned" (the handler runs,
its answer is lost). A hijacked connection (a WebSocket) is not the server's any
more: `Shutdown` neither waits for it nor closes it. HTTP/2 is not modelled.

In `Service` the listener is a door: unopened until `Serve` has registered it,
open while the server serves, shut from `Shutdown` or a failure on. The mapping
(`Door`) is a function of `shutting` and `server`; that the time is up is
`expired`, that the last look found something is `main = "waiting"`;
connections and the returned value are the same in both. `Service` says which
verdict may follow which look, and that a look touches no request.

## The runs

All passing runs visit all states of their bounds.

| Run | Bounds | What it shows |
|---|---|---|
| `RateLimitLag` | 4 requests, 2 clients, limit 2, window 3, lag 1, clock to 9 | the inductive invariant; the ring keeps the limit; the window and the refusals are right up to the lag; the map forgets only and all of what has expired; `SlidingLog` is implemented |
| `RateLimitExact` | 3 requests, limit 1, window 2, no lag | without lag the window and the refusals are exact; a quiet limiter's map becomes empty |
| `RateLimitZero` | limit 0 | every request panics, the cleaner survives and still empties the map |
| `Pipeline` | chains of up to 3 of 7 layers, one body part | the nine invariants about answers (informational ones and those for files included), errors, panics, codings, sessions and logs; `Exchange` is implemented |
| `PipelineCompressError` | chains of up to 2 | *violated*: an error below Compress is answered 200 |
| `PipelineLateTimeout` | chains of up to 2 | *violated*: a 503 is appended to a complete answer |
| `RouterStacks` | 2 routers, stacks of up to 4 middlewares, 1 route | stacks do not alias, through growth in place (capacity 3 of 4) and by moving; `Scopes` is implemented |
| `RouterDispatch` | 2 routers, 3 registrations over 4 paths, GET and HEAD | listed routes are reachable in every order of registration; what a registration covers is what `Scopes` says: its path below the prefixes, alone or, with a trailing slash or mounted, with the tree below it |
| `RouterParamsBound` | 2 registrations | *violated*: no path values once a NotFound handler is set |
| `Context` | chains of up to 3 of 12 layers, 24 requests | who sees which address, id, credential, form and headers; which temporary files stay |
| `Input` | 3 calls, bodies of up to 4 with up to 2 documents, `MaxBytes` 2, `MaxInt` 3 | what is bound, decoded and refused in any order of calls; verdicts on uploads |
| `Graceful` | 2 connections, 2 signals | nil means drained, a timeout that the last look found something; signals are harmless while it waits; it always returns after a signal or a failure; no goroutine is left; `Service` is implemented |

Why the bounds are enough. In `RateLimitLag` a ring of two slots wraps within
four requests, a bucket can be deleted and replaced while a request waits, two
clients share the map and the clock passes three ticks. Three layers let one
layer stand between two others, which is what every property of `Pipeline` is
about; in `Context` that is a Ctx copy between a `RequestID` and a `Logger`.
Three calls on a request are one that takes the body or the form, one that
finds what is left, and a second that must not be told again; of bodies of four
with a limit of two one is cut, one has more behind a document that fits, one
has a second document, and one has none. In `MaxInt` 3 a
`MaxSize` of 3 wraps. Four middlewares in one stack are the first at which an
append in place is followed by another after a clone. Three registrations are a
route, a conflicting one and a third that is more specific than either; `{id}/a`
and the tree of `a` overlap without being in an order, and GET covers HEAD. Two
signals are one that is taken and one that is not. The theorems do away with
these bounds wherever there is one.

Two connections are one that ends and one that comes or stays between the same
two looks.

Deadlock is not checked in the `RateLimit` runs, where the clock stops at
`MaxTime` and nothing is left to do, nor in `Input`, where the endpoint stops
after `MaxCalls`. Everywhere else the model has no dead end: a served
request and an ended process stutter explicitly.

`SlidingWindow` and `RefusedOnlyOverLimit` are the documented behaviour; both
hold without lag. With a lag of one unit both fail: two requests swapped at the
mutex leave the ring unsorted, and a window admits more than the limit. What
holds with a lag is `SlidingWindowUpToLag` (the window is shortened by twice
the lag) and `RefusedUpToLag`.

Three invariants are stated for the reader and proved, and no run names them
because it checks something they follow from: `RefusedUpToLag` is the guard of
`Refuse` in `SlidingLog`, `NilMeansDrained` and `SignalsAreHarmless` follow from
`Inv` of `Graceful` at once.

Other differences between documentation and code that were met on the way and
have no run: `Response.Written()` does not learn of headers sent through a copy
(`ctx.go:234`, `response.go:33`); a handler mounted under a prefix with a
wildcard is never reached (`router.go:322`, `router.go:188`); `Routes()` omits
what `Handle` without a method and `Mount` register (`router.go:243`,
`router.go:197`); with a NotFound handler a 405 becomes a 404
(`router.go:348`, `router.go:204`). `Logger` logs an error as 200, since the
error handler runs after it (`logger.go:24`), and a WebSocket as well; hence
the proviso of `LogTrueIfAnswered`. `Written()` "reports whether the response
headers have already been sent" (`response.go:33`), but an informational status
counts: after a 103 the handler's own status is withheld and the client gets 200
(`response.go:38`), hence `Final` in the properties of `Pipeline`. For a file it
cannot serve net/http deletes headers (`ctx.go:452`): below Compress the text of
that error is coded and not declared so (`SingleCodingHonest` excludes it), below
NoCache the answer lacks `Cache-Control` (`HeadersOnAnswer` says so).
`JSONMaxBytes` claims "to limit the request body size" (`bind.go:127`), but it
limits what one call reads: a longer body is accepted when its first document
fits. `Render` sends the header before it can fail (`ctx.go:406`), so the text of
the error follows what was sent.

What the other modules establish about the use of the library, as provisos of
their properties: temporary files of an upload stay on the disk when
`RequestID`, `BasicAuth`, `Timeout` or `Adapt` lies above the first reader of
the form (`TempFilesRemoved`). Two `RequestID` layers make two ids, and a
`Logger` with a Ctx copy between itself and the `RequestID` logs none
(`IdAgrees`). Two different `CORS` layers can allow credentials to all origins
(`HeadersOnAnswer`). A fault of an encoded form is told once, to the first
reader, and lost if that is `FormValue` (`FaultReportedOnce`). `BindForm` on a
multipart request binds nothing unless `FormFile` or a first `FormValue` has
parsed it (`BoundAsSent`). What follows a document is ignored and left to the
next call, which may find the rest of something; and a number that
`JSONMaxBytes` cuts is still a number (`DecodedWhole`). `Validate` measures from
where the file stands, so too much may pass after the handler has read
(`VerdictDeserved`).

### Fairness

`RateLimit`: weak fairness on the clock, the cleaner's two steps and each
request's critical section, because goroutines are scheduled and `sync.Mutex`
does not starve; none on `Arrive`. `Graceful`: weak fairness on the main
goroutine, on the server's goroutine (its `Fail` excepted) and on the timer;
none on clients, handlers, signals and failures. Safety needs no fairness.

## The proofs

Each theorem is about the specification of the module with arbitrary constants,
under its named assumptions only: finitely many requests, a natural limit, a
positive window; a positive number of routers, lists, paths and requests that
are sequences, and a segment that no path names; a natural number of signals;
chains of natural length over the kinds of layers; any requests, files and
limits of the types described.

**RateLimit.** The invariant `Inv` is inductive. Its parts say that stamps come
from the clock and are at most `MaxLag` old when used (`StampsInPast`), a ring
that is not full starts at 0 (`RingShape`), every used slot belongs to an
admission and every admission to a slot (`SlotOwned`, `AdmissionStored`), two
admissions through one slot are more than a window apart (`SlotSpacing`), the
ring is sorted up to the lag (`RingOrder`), the map leads a client to its own
bucket (`BucketOwner`), and what it no longer leads to has expired up to the lag
(`ForgottenExpired`, `BucketSpacing`, `CutoffPast`). The counting properties
follow by an injection: two admissions inside a window of one bucket have
different slots (`SlotSpacing`), and two buckets of one client have no common
window (`BucketSpacing`), so there are at most `Limit`. A refusal is justified
because the full ring's head, and by `RingOrder` every slot, is inside the
window. `Implements` maps each step to a step of `SlidingLog` or to stuttering.
`WindowKeptWithoutLag` and `RefusalsExactWithoutLag` are the exact limiter, for
`MaxLag = 0`; `CleanerKeepsUp` relates every bucket in the map to the last tick.

**Pipeline.** All nine invariants are proved for chains of any length and any
number of writes. None is inductive alone; `Pipeline` ends with what each of
them needs. `WayOK` orders the phases. `SentOK` says that no Response, in use or
not, is ahead of the wire with a final status, since a copy starts as its
original is. `SessionOK` adds that a declared coding has its writer in the
Response the next layer finds, so that a session and a coding exclude each
other. `PanicOK`, `FailureOK` and `DeadlineOK` follow a panic, an error and a
503 through the layers that still lie above. `AnswerOK` ties the first answer to
the wire and to the Response it went through; `UntouchedOK` and `LogOK` need it
for Timeout and Logger. `CodingOK` counts the writers of all copies, also when
the coding they were put in for is not declared any more. The nearest copying
layer is a `Max` over layers; the lemmas about it rest on `Extremes`, since the
`CHOOSE` of the community modules says nothing until a greatest element is shown
to exist. `ExchangeImplemented` is the refinement: a step down declares a coding
only before anybody answered (`AnswerOK` with `SentOK`), net/http withdraws one
only before the header, an upgrade finds neither a status nor a coding
(`SessionOK`), every answer, of a layer, of the endpoint or of the error
handler, is one `Send` (`AnswerSeen`: a body gets one part at most, and none
where its status has no body), the deferred `Close` is `HangUp`, and everything
else stutters.

**Context.** All five properties, for chains of any length and any requests.
`CurrentOK` says what the layer at hand finds in its request, through all
copies; `HeadersOK` what is in the headers before anybody answers
(`HeaderReturn` takes care of the one that net/http takes back). `IdsOK` says
that a request copied from one with an id has one: so the Ctx a Logger holds has
the id of the response, when no copy lies between (`LoggedOK`). `FilesOK` says
that temporary files belong to the first request object unless it was replaced
above the first reader of the form.

**Input.** All five properties. Those of `Binding` hold for structs of any
length, any requests and any number of calls. Their invariant relates what
net/http keeps of the form to the calls made so far: the form is looked at once
and for all (`Looked`), its fields are there exactly when the calls came in an
order that makes them available (`FormOK`, `FormAvailable`), and the body is
used up by whoever came first. With it a binder under way finds the value of
each field, so those before the next one are bound and those behind are as they
were (`FillingOK`), and it has had no fault to report. `DecodedOK` says that
every document decoded lies before the place where the body stands, so that the
next one found lies behind it. `UploadInv` is
inductive: `Progress` says what the checks made so far have established, `Shape`
that the file and the limits stay what they are while
the calls of `Binding` go on around them. It gives `VerdictIsDeserved` and
`FileIsLeftAtStart` for all files, limits and integers that wrap.

**Router.** `Inv` says that every router's slice lies in an array that this
router made, within its capacity. `SetStackOwned` proves that an append leaves
such an array with the old content and the new behind it; `OthersKept` that all
other stacks are unchanged; `StepRefines` uses both for every operation.
`Implements` is the refinement to `Scopes`; a registration adds an entry that
`Extends` its path as the trailing slash, or a mount, says.

`Dispatch_proofs` is about the other half, what `ServeMux` makes of the
patterns. `DispatchOK` says that no two patterns registered clash (`Ordered`),
that each request some pattern matches has a most specific one (`Definite`), so
that the `CHOOSE` of `Best` is well-defined, and that what is listed is
registered (`ListedInMux`). It is inductive because patterns that match one
request overlap (`MatchingOverlap`), overlapping patterns that do not clash
cover one another one way, and covering is transitive (`CoversTransitive`): a
new pattern is below or above the most specific one so far (`LeastAdd`). For
`ListedRoutesAreReached`, the request made of a route has, in the place of a
wildcard, a segment that no path names; whatever matches it has a wildcard there
too and so covers the whole route (`OwnLeast`). The rules of `ServeMux` are
assumed as modelled; that the code registers with them what it should is what is
proved.

**Graceful.** `Inv` adds to the properties that the listener is shut from
`Shutdown` on, and that nothing is accepted any more once a look was made
(`ListenerShut`), that after `nil` all connections are closed, taken over,
forgotten or never opened (`DrainedForGood`), that signals are relayed while
`serveGraceful` waits (`RelayedWhileWaiting`), that an error is sent by a
goroutine that does nothing after it (`ErrorIsLast`) and that nothing is open or
returned before its time (`InOrder`). `PromiseKept` is the refinement to
`Service`; it needs all of them: whatever is returned, the door is shut by then,
a look leaves either something to wait for or the verdict nil, and a timeout is
returned only in the first case.

Every invariant, action property and refinement the runs check is a theorem.
Only model-checked: all liveness (`QuietMapEmpties` and the three of
`Graceful`), since liveness under fairness and ENABLED are out of the prover's
reach, as is induction over data and what RECURSIVE operators compute (the
modules have none).

## Not modelled

The text of bodies, errors and logs, and headers other than those `Context`
names; `http.Server`'s own timeouts; TLS; custom error handlers, which may do
anything; handlers that start goroutines (a stdlib middleware that calls `next`
in another goroutine makes `handlerErr` in `Adapt` a data race, and `next` may
outlive the request); registration while serving, which the library does not
support; the content of files; the accessors of `Ctx` and the setters of the
`App`, which read or assign one field each; the programs under `_example/`. A
`RateLimit` window that is not positive panics at start-up and is excluded by
an assumption.

## What is left

A model of `Adapt` with `http.TimeoutHandler`, in
which `next` runs in another goroutine; its properties would be about a race the
code does not guard against.
