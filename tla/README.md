# A verification project for GoImager

GoImager is an HTTP service in Go that resizes, converts, optimizes and crops
images, reports their metadata, and transforms remote images by URL
parameters. This directory models the parts of it where behaviour is hard to
test: the rate limiter that all requests share, the life of the process around
its connections, what the image endpoints answer when external programs come
and go, the reader of EXIF data, the fetch of remote images, signed URLs under
keys that rotate, and what a process that ends leaves to the next one. The
models are TLA+ modules translated from `src/`, checked by TLC on small
instances; their most important properties are proved for every instance with
TLAPS.

Paths below are relative to `src/`.

## The system

| Component | Code | State | Operations | Hard behaviour | Correct when |
|---|---|---|---|---|---|
| Rate limiter | `internal/middleware/ratelimit.go` | `rl.clients` (a bucket per client), `rl.mu` | `NewRateLimiter`, `Allow`, `Middleware` | every request goroutine shares the map; time is read inside the lock; refill, cap and charge | no window of time admits more than burst plus refill; nothing deadlocks; waiting `Retry-After` is enough |
| Server lifecycle | `cmd/server/main.go` | the server, `errCh`, `sigCh`, the shutdown context | `run` | signals at any moment, a listener that fails, a drain with a deadline around requests with their own deadlines | a signal ends the process in bounded time; exit code 0 means drained |
| Image operations | `internal/handler/*.go`, `internal/service/{imageprocessor,optimizer,process}.go` | per request, and the directory of temporary files | `/resize /convert /optimize /thumbnail /process` | external programs that vanish or fail between look-up and run; cleaning up on each error path; rounding at extreme shapes | the bytes match their Content-Type; `/optimize` degrades instead of failing; no temporary file outlives its request |
| EXIF reader | `internal/service/metadata.go` | positions in the upload | `/info` | lengths, counts and offsets a file claims for itself | no slice leaves its block; every file is read to an end |
| Remote fetch | `internal/service/{process,ssrf}.go`, `internal/config/allowed.go` | one shared `http.Client` with pooled connections | the fetch of `/process` | redirects, resolution at dial time, size and time limits | every connection is to an allowed host at a public address; a redirect chain is bounded |
| Signed URLs | `internal/middleware/sign.go`, `internal/sign/sign.go`, `cmd/gensig` | the key list | `VerifySign`, `Canonical`, `Valid` | expiry against the clock, rotation of keys between restarts | what `gensig` signs works until it expires, and nothing else does while a key is configured |
| Configuration | `internal/config/config.go` | `Config` | `Load` | lists and single values from file and environment | the documented layer decides |
| Process with its handlers | `cmd/server/main.go`, `internal/service/imageprocessor.go` | the directory of temporary files, over restarts | drain, exit, crash, restart | a process that ends while handlers run | a clean exit leaves no file; leftovers are bounded and untouched |
| Request pipeline | `cmd/server/main.go`, `internal/middleware/auth.go`, `internal/handler/server.go` | none | routing, timing, auth, limiter, logger; multipart parsing | the order of the wrappers; which paths bypass which | as documented per path |
| Logging, timing | `internal/middleware/{logger,timing}.go` | status and bytes of one response | response-writer wrappers | none shared | - |
| Health, OpenAPI, Swagger UI | `internal/handler/{health,openapi}.go`, `api/` | embedded files | stateless answers | none | - |

How they meet: `run()` builds one limiter and one handler `Server`, wraps every
route in timing, auth, limiter and logger, and lets `net/http` call the chain
on one goroutine per connection. Handlers call the service package directly
and share nothing but the limiter's map, the HTTP client and the directory of
temporary files. Shutdown waits for handlers, but not longer than 30 s, and an
external program started by a handler has no timeout of its own.

`PROJECT.json` lists the hazards of this code by line, with the properties that
would catch each.

## The modules

| Module | Models | EXTENDS / uses |
|---|---|---|
| `WindowLimiter` | what the limiter promises: a sliding window, with no bucket in it | Integers |
| `WindowLimiter_proofs` | its theorem | `WindowLimiter`, TLAPS |
| `RateLimiter` | `ratelimit.go`, the mutex step by step | Integers; `WindowLimiter` by INSTANCE |
| `MCRateLimiter` | small instances of it | `RateLimiter` |
| `RateLimiter_proofs` | its theorems | `RateLimiter`, TLAPS; `WindowLimiter_proofs` by INSTANCE |
| `ServerLifecycle` | `run()` and the connections of `net/http` | Integers |
| `ServerLifecycle_proofs` | its theorems | `ServerLifecycle`, TLAPS |
| `ImageService` | the five image endpoints | Integers, Sequences, FiniteSetsExt |
| `MCImageService` | the requests the runs send | `ImageService` |
| `ImageService_proofs` | its theorems | `ImageService`, TLAPS |
| `Exif` | `metadata.go` | Integers |
| `Exif_proofs` | its theorems | `Exif`, TLAPS |
| `SafeFetch` | what a fetch promises: a bounded walk over safe origins | Integers |
| `Fetch` | `process.go` up to the body, `ssrf.go`, `allowed.go` | Integers, FiniteSets; `SafeFetch` by INSTANCE |
| `Fetch_proofs` | its theorems | `Fetch`, TLAPS |
| `SignedURL` | the keys of `config.go`, `sign.go`, `gensig`, `VerifySign` | Integers, FiniteSets |
| `MCSignedURL` | the deployments the run goes through | `SignedURL` |
| `SignedURL_proofs` | its theorems | `SignedURL`, TLAPS |
| `Service` | processes with their handlers, one after the other | `ServerLifecycle` and `ImageService` by INSTANCE |
| `MCService` | the requests the run sends | `Service` |
| `Service_proofs` | its theorems | `Service`, FiniteSetTheorems, TLAPS; the proofs of both components by INSTANCE |

An operator whose comment describes a mistake (`LockMissing`,
`UncappedRefill`, `NoFallback`, ...) is not used by the model. It stands before
the definition it is a broken variant of, and `PROJECT.json` ("mutants") says
which property catches it when it takes that definition's place.

### RateLimiter

A goroutine goes through `idle`, `lock`, `lookup`, `charge` and then `pass` or
`limited`. `Call` is `AllowHTTP` up to `rl.mu.Lock()`, `Lock` takes the mutex,
`Lookup` reads the clock and the map, `Charge` inserts, refills, decides and
runs the deferred unlock, `Return` ends the request, `Bypass` is `/health` and
the disabled limiter. `clients` is the map, a function on the clients seen so
far. Client keys are values: how `clientIP` cuts `X-Forwarded-For` is data.

Tokens are counted exactly. With a period of `Period` seconds (60 in the
per-minute mode) and a clock of `TicksPerSecond`, every amount of the code is a
multiple of 1/`Unit`, where `Unit = Period * TicksPerSecond`; a token is `Unit`
and a tick refills `Rate`. The rounding of `float64` is not modelled.

Two history variables serve the properties and nothing else: `since[c][s]`
counts the admissions of `c` at `s` or later, and `refused[c]` is the first
refusal since the last admission. The admissions of a window that ends before
now are a difference of two counts (`WindowLimiter!After`).

Properties: `MutexGuards`, `BucketIsTightestWindow` (the tokens are exactly what
the tightest window leaves), `WindowBound` (any window of the past, wherever it
starts and ends), `RetryAfterHonoured`, `RefusalPasses` (the refusals of a
client between two admissions never span the time one token takes, however often
it asks), `TimeNeverRunsBack`, `DisabledAdmitsAll` (proved, not run),
`EveryCallAnswered`, and `ImplementsWindowLimiter`: with `lock`, `lookup` and
`charge` mapped to "waiting" and the bucket's time to `latest`, every behaviour
is one of `WindowLimiter`, where each request is decided at one instant of its
own call by the sliding window over that client's admissions only.

### ServerLifecycle

`main` is the place in `run()`; `errCh` and `sigCh` are the one-slot channels;
`drain` is what is left of the shutdown context. `BeginDrain` is the signal's
case with Shutdown's first act, closing the listener, so `ListenAndServe`
returns into a channel nobody reads any more. `Signal` before `Notify` is the
default action, which kills the process.

The connection actions are `net/http`'s, from how `run()` configures it:
`Accept` starts `ReadHeaderTimeout`, `HeaderRead` starts `WriteTimeout` and
leaves the rest of `ReadTimeout` to the body, a read past its deadline closes
the connection or makes the handler answer 400, and Shutdown closes idle
connections only. `Timeouts` is what the `http.Server` is built with. A handler
takes any time, since it runs programs without a timeout.

Two things of `net/http` are left out: a client that disconnects while its
handler runs, and the moment between the last byte of a header and the
connection counting as active, in which Shutdown still closes it as idle and
does not wait for the handler that starts. What the models say of exit code 0
is said up to that moment.

### ImageService

An image is a format and a size; the quality it is encoded with has no effect on
either and is left out, but for the check that it is a number. A request goes
through the checks of handler and service in the code's order (`HandlerChecks`,
`ServiceChecks`: the first that fails is the answer) and then through its
encoder, one step per look-up or run of an external program and per temporary
file. `Outcomes` lets a program exist at one look-up and not at the next, and
fail at any run. `Answer` is the return of the service with its deferred
removals. Sizes follow `imaging`'s integer arithmetic (external, from its use in
`ResizeImage` and `applyTransforms`): `Fit` rounds down and leaves a side that
became zero to `Resize`, which rounds to nearest and never below one; a source
without area gives an empty image.

What can be decoded is more than what can be encoded: `imaging` registers the
decoders of BMP and TIFF. `Asked` is the format an answer is to have, the
source's own when `/resize` or `/process` is given none, and the check after
decoding refuses it when nobody encodes it. `FormatKept` says both: the source's
format is kept, and a source in a format nobody encodes is a 400, never a 500
or an image in another format.

`SidesBounded` says what the caps of the code amount to. A side that is given is
capped, so fit and fill stay under the cap; the side that stretch derives is the
cap times an aspect ratio, which only a check of the source's own sides bounds:
by the cap squared for `/resize`, which has that check, and by the cap times the
source's longer side for `/process`, which has not.

`/process` starts at the fetched body (the fetch is `Fetch`). Blur, sharpen and
flips keep format and size and are left out; so are the X- headers of
`/optimize`.

### Exif

The content of the file is not modelled: wherever the code reads a number the
model picks any of its width, and where the code compares bytes (a marker, a
tag, a byte order) both outcomes are possible. What is kept is where the code
reads: `spans` holds the slices of the last step as `[lo, hi, of]`, and
`InBounds` says that none would panic. The three passes over IFD0 (camera and
time, Exif pointer, GPS pointer) read the same bytes and are one pass here.
`exifOff` and `gpsOff` are the first pointer of each kind, since both searches
stop at the first. `WorkIsLinear` is the safety behind `ParseTerminates`: every
step uses up some of a budget of nine stages, each with fewer turns than the file
has bytes, so no pointer into a directory already read makes the reader go round.
It counts turns of loops; the code's work is that up to a constant (IFD0 is walked
three times) and the bytes of the strings it copies.

### Fetch

A fetch goes through `connect`, `dial`, `await`, `body` and ends in `image` or
`failed`. `Receive` is `Process` up to `client.Get` with the checks of the URL;
`Redirect` is `CheckRedirect`; `StartDial` and `Attempt` are `safeDialContext`,
which looks the name up when it dials and runs the control hook before each
address; `ReadBody` is the copy and the decoding; `TimesOut` is the client's
timeout, which covers all of it. `pool` is the connections of the shared
transport and `dials` the dials in progress.

What `net/http` does between those is external: a pooled connection is taken
for the same scheme and host (`TakeConn`), a dial goes on when its request has
timed out or taken another connection, and its connection then joins the pool
(`Detached`, `Connected`), a broken exchange is repeated or given up (`Break`),
idle connections disappear (`Evict`). A name resolves to any set of addresses
each time. An address is the kind of range it is in: `ByPredicate` is what the
methods of `net.IP` refuse and `ByList` what the list of networks does; neither
alone covers the ranges `SECURITY.md` names.

`OnlySafeConnections` and `OwnConnection` relate three moments: the check of
the URL, the dial, and the use of a connection somebody else may have made.
`ImplementsSafeFetch`: with the connection mapped to whom it reaches and the
four places of a pending fetch to one, every behaviour is one of `SafeFetch`,
a walk of at most `MaxRequests` requests over allowed, unreserved origins that
delivers an image only of the origin it is talking to. That every fetch ends is
the client's timeout and nothing else (`TimesOut` is possible wherever a fetch is
pending), so no property says it.

### SignedURL

`deployed` is what file and environment said at the last start; `SigningKey`,
`SigningKeys`, `SigningKeysList` and `ValidKeys` follow it into the handler.
`Gensig` signs, `Deploy` is a restart with another configuration, `Tick` is
half a second, so that `time.Now().Unix()` cuts something off. `Verdict` is
`VerifySign`; it changes no state, so it is an operator that the properties
apply to every request a client can put together out of what was signed.

`Intended` restates, from the documentation, which keys shall count: the list in
force, or the single key when the list has none. Against it, `SignedURLsWork`
says that a signed URL works for its whole lifetime in every deployment with its
key, `OnlySigned` that nothing else passes while a key is configured, and
`ExpiryHonoured` that no request made from an expired URL passes a second later.
`OpenIsAnnounced` relates `VerifySign` to the warning of `warnOpenProcess` at the
start: the one is open exactly when the other warned.

One kind of deployment is excepted from the last three by name. Over a
`BlankList`, a list of the file that is in force and has only empty strings, the
code disagrees with the documentation: the list wins over the single key because
it has a length, the filter leaves nothing of it, and `/process` is open although
`SIGNING_KEY` may be set. `KeyMeansSigned` has no such exception, and its run
shows that state.

### Service

The state of `ServerLifecycle` and of `ImageService`, whose goroutines are the
connections: a handler steps only while its connection is in `work` and the
process is alive, and `Finish` is the return of the handler in both. What the
components assume of their constants, `Service` assumes of its own. `Crash`
ends the process at any step, `Restart` starts the next with fresh memory over
the same directory; `left` is what was in it by then. `net/http`'s actions and
`run()` are those of `ServerLifecycle`, unchanged.

`CleanExitLeavesNothing` joins the exit code with the deferred removals, over
drains that end in both ways (and up to the moment of `net/http` that
`ServerLifecycle` leaves out).
`LeftoversUntouched` and `LeakBounded` say what a process that did not end
cleanly does to the ones after it: at most two files for each request in flight,
which nobody takes or removes.

## The runs

| Run | Shows | Bounds and why they are enough |
|---|---|---|
| `ratelimit_rps` | buckets are exact and guarded in every interleaving | 2 goroutines contend for 2 clients at 2 requests a second; a tick is a quarter second, so refills of half a token, refusals with a fraction left and the full second of `Retry-After` occur within 5 instants |
| `ratelimit_rpm` | per-minute mode overrides per-second; refinement; short refusals; every call answered | 2 goroutines, 1 client, a minute of 3 s so that a refill takes longer than a tick and the cap is reached in 5 ticks; no symmetry, as liveness is checked |
| `ratelimit_retry_after` | *violation*: see findings | 1 request a minute, 2 seconds |
| `lifecycle` | honest exit code, bounded stop, bind failure, stalled clients | the code's timeouts in ticks of 10 s (1, 6, 6, 12; drain 3), 2 connections so that one drains while another is busy |
| `lifecycle_drain_kills` | *violation*: see findings | 1 connection |
| `image` | labels, fallbacks, formats, fit, sides, temporary files | 2 concurrent requests of nearly 400 kinds, among them a source that can be decoded but not encoded (BMP), sources with a zero side and stretches of long and flat sources; three temporary names, one fewer than two AVIF requests want, so that creation also meets exhaustion; caps of 5 and 4 in place of 100000 and 65535, with sizes on both sides of each; `cjpeg` not configured, the others unreliable |
| `image_auto_scale` | *violation*: see findings | one request at a time |
| `exif` | no slice out of bounds, linear work, no endless parse | 6 lengths up to 52 bytes, enough for a segment to skip, IFD0 and a GPS directory with rationals; fields of 8 and 5 values, one of them beyond every block |
| `fetch` | safe and own connections, refinement | 2 fetches, so that one can use or inherit the other's connection; 2 allowed hosts of 3, so that a redirect leads to an allowed and to a refused one; 3 kinds of address, one refused by predicates and list and one by the list only; 2 requests per chain in place of 10, so that the last allowed redirect and the first refused one occur; 2 dials at once, one of them left behind |
| `signed_url` | what is signed works until it expires, and only that; an open endpoint is announced | 2 keys, old and new, in 120 deployments that include lists that are empty, blank or mixed; 2 sets of parameters to swap; lifetimes of 1.5 and 2 seconds over 3 seconds, so that expiry falls inside a second and on its boundary; 2 URLs |
| `signed_url_blank_list` | *violation*: see findings | the same deployments |
| `service` | clean exits, untouched leftovers, bounded leak | 2 connections and 5 file names: one process can leave the 4 files it may at most, and a later one finds one name and fails for want of a second; timeouts of one or two ticks, so that drains end in both ways; connections and names are interchangeable, and only safety is checked |

Deadlock is checked, except in `lifecycle*` and `exif`, where the process or
the reader really ends. The other runs have no end: a goroutine can always take
another request, and a process is started again.

### Fairness

* RateLimiter: a goroutine inside `Allow` is scheduled (weak fairness of
  `Lookup`, `Charge`), and `sync.Mutex` hands itself to a waiter that was
  overtaken for too long (its starvation mode), hence strong fairness of `Lock`.
  Nothing makes clients call or time pass.
* ServerLifecycle: the main goroutine and the listening one are scheduled, time
  passes, deadlines of `net/http` fire. Nothing is assumed of clients or
  handlers, so the liveness properties hold with handlers that never return.
  Main sees the end of its drain before the next tick.
* Fetch, SignedURL and Service state safety only.
* Exif: the one goroutine of the request runs; nothing in the reader blocks.

### Findings

* `ratelimit_retry_after`: the 429 always says `Retry-After: 1`
  (`ratelimit.go:83`), which is too short whenever a token takes more than a
  second. `RateLimiter_proofs` shows it is right for limits of at least one
  request a second.
* `lifecycle_drain_kills`: the changelog says in-flight uploads complete at
  shutdown, and names the drain of 30 s next to it; that is shorter than their
  60 s deadlines.
* `image_auto_scale`: "0 = auto-scale" gives an empty image in fit and fill.
* `signed_url_blank_list`: with `SIGNING_KEY` set and `signing_keys: [""]` in the
  file, `/process` is open: unsigned and expired URLs pass, and no warning is
  logged. `README.md:230`, `255` and `386` say every URL must then be signed;
  `config.go:81` prefers the list for its length, and `VerifySign` finds no key in
  it (its comment, `middleware/sign.go:20-21`, calls that disabled).

Noticed while modelling, without a run of their own:

* `README.md:115` and `SECURITY.md:19` promise the native re-encode for a
  missing program; only `/optimize` does that (`OptimizeSurvivesTools`), the
  other endpoints answer 500 or 400 (`imageprocessor.go:182`).
* `SECURITY.md:20` caps the dimensions of uploads; only `/resize` compares a
  source with `MaxDimCap` (`imageprocessor.go:102`), and `MAX_DIMENSION` is read
  and used nowhere.
* `README.md:182` and `api/openapi.yaml:176` say that `/optimize` answers in the
  format of its input when none is given; `NormalizeFormat` turns the missing
  format into JPEG (`optimizer.go:36`), so that a PNG comes back as a JPEG.
* The comment at `ssrf.go:65` says that a host that resolves "in whole or in
  part" to a blocked range is rejected. The check is made of each address that
  is tried, so a host with a blocked and a public address is reached at the
  public one (`Attempt`); no connection goes to the blocked one.
* The signing algorithm of the `README.md` sorts repeated parameters by value;
  `url.Values.Encode` (`sign/sign.go:38`) keeps their order, so a signer that
  follows the text is refused when it repeats a parameter out of order.

## The proofs

All theorems hold for every value of the constants under the named
assumptions of the modules, which type them and, in `Service`, make the
connections finitely many.

**RateLimiter_proofs.** The inductive invariant `IInv` joins the type invariant,
`MutexGuards` and `DisabledAdmitsAll` with four strengthenings. `LocalsInv` ties
a goroutine's locals to the shared state while it holds the mutex: `now` lies
between the bucket's time and the clock, and `ok` still tells whether the client
is in the map. `HistoryInv` says that no admission is dated after its bucket and
no bucket ahead of the clock. `BucketsExact` is `BucketIsTightestWindow` in the
form the lemmas use (`Exact`). `RefusedInv` says that the bucket of a client
refused since its last admission has only filled up since that refusal and still
holds less than a token, so that little time has passed. The steps that matter
are `Charge`'s: `RefillExact` shows that a refill keeps the tightest window
tight, with the new window at the cap, and `TakeExact` that an admission takes
one token from every window. From `IInv` follow `TypeCorrect`,
`MutualExclusion`, `TightestWindow`, `RetryAfterEnough` (for at least one
request a second), `RefusalIsShort` (at any rate: a refusal leaves the fraction
of a token in the bucket), `DisabledIsOpen`, the action property
`BucketTimeMonotone`, and the refinement `ImplementsWindow`, where
`EnoughIsFits` shows that the token test and the sliding-window rule decide
alike. `WindowIsBounded` is not proved of the bucket but inherited: the limiter
implements `WindowLimiter`, and `WindowLimiter_proofs` proves the bound there.

**WindowLimiter_proofs.** The rule of the sliding window looks at windows that
end now; `WindowIsBounded` is about windows that end at any past moment. The
invariant therefore carries the bound for every pair of moments, and that no
admission is dated after its client's latest, so that an admission only adds to
the windows that reach up to it, which are those the rule has just checked.

**ServerLifecycle_proofs.** `ExitCodeHonest`, for any connections and timeouts.
`CleanExitIsDrained` alone is not inductive: code 0 also comes from
`ErrServerClosed`, so `ExitInv` adds that it is only in the channel when main no
longer reads it, and that code 0 means the process is over. `TypeCorrect` needs
that a connection reading its header has no more time left than the header is
given (`TimesInv`), since the rest of `ReadTimeout` is handed to the body.

**ImageService_proofs.** `TempFilesCleaned`, for any requests, goroutines and
tools: the invariant is `TempFilesOwned` with the type of the places, and each
encoder step either hands its files on or removes them. About the answers,
`AnswerInv` says that what a finished request holds `Fits` it (a refusal, a 500
that `/optimize` gives only for what Go cannot encode, or an image labelled as
what it is) and that a program is only run for the format it makes (`OnPath`).
Each way to answer has a lemma; `HonestLabels`, `OptimizeAnswers` and
`TypeCorrect` follow. A request at an encoder, or with an answer that is no
refusal, has passed all its checks (`AnswerInv` again); `Passed` spells out what
that says of its fields. `SourceFormatKept` rests on it, since a request that
passed asks for a format somebody encodes, and so does `SidesCapped`:
`ScaledBound` bounds a derived side by the given one times the source's,
`ResizeSides` and `FitFillSides` bound each mode, and one lemma for each kind of
request turns that into what its checks leave. `BoxRespected` is arithmetic:
`Shrunk` bounds the side `imaging.Fit` derives by the box and by the source, and
shows that what is rounded away comes back as one pixel.

**Fetch_proofs.** The invariant joins the three safety properties with what the
checks have established at each place of a fetch (`Stages`) and with
`DialsOwned`: every dial is for a vetted URL, and one that is still awaited is the
only one of its fetch and for the URL it is at. That is what lets a finished
dial hand its connection to its owner. From it follow `TypeCorrect`,
`SafeConnections`, `ConnectionIsOwn` and the refinement `FetchIsSafeWalk`.
`CheckCovers` is the one fact about addresses: what the dialer lets through is
in none of the documented ranges. `ImagesAreSafe`, an action property stated in
the proof module, says what all this is for: the step that delivers an image
reads it over a safe connection for the URL that was checked last.

**SignedURL_proofs.** `KeysAsDocumented` shows that the layering of `config.go`
and the filter of `VerifySign` end in the intended keys, for all sources but a
`BlankList`, where they end in none; the theorems carry that exception. The
invariant adds to the types that `exp` is the second of the intended expiry;
`WholeSeconds` is the arithmetic of cutting off the fraction. From them
`UnexpiredAccepted`, `AcceptedWasSigned` and `ExpiredRefused`; `OpenAnnounced` needs
the layers only.

**Service_proofs.** The invariant puts the exit code of one component
(`ExitPart`), the files of the other (`FilesPart`) and the link between them
(`ConnPart`: a handler that has taken a request is on a connection in `work`, as the
composition has it) together. `HandlerStep` sums up what a handler may do to the
directory (take a free name, leave it, clean up its own), so that each server
and handler action is looked at once. `CleanExitIsClean` needs all three parts:
no request in flight means no connection in `work`, hence no handler, hence no
file. `LeakIsBounded` adds that `encodeAvif` has one file until it makes the
second (`Few`) and counts by an injection from files into owners (`TwoEach`); it
assumes finitely many connections.

The second half carries the components' own theorems over. `SameServer` and
`SameHandler` show that a step of the service is a step of the modules the other
proofs are about, or changes none of their variables; so their invariants hold
within a process by the lemmas proved there, and only `Crash` and `Restart`, which
are steps of neither, need an argument here. The directory is the one place where
a component's invariant does not carry over: `TempFilesOwned` is false once there
are leftovers, and `LeftoversUntouched` stands in for it. `TypeCorrect`,
`ExitCodeHonest` and `AnswersSurviveRestarts` follow: all that `ImageService`
promises of its answers holds in a process that drains, crashes and finds the
files of earlier ones.

**Exif_proofs.** `NoReadOutOfBounds`, `TypeCorrect` and `ReadingIsLinear`, for
files of any length and any field values. Most slices are checked in the step
that takes them. The entries of a directory are checked once, before the loop,
which is what `DirectoryFits` carries from entry to entry. That check also
bounds the turns of the loop by the length of the file, which is what
`ReadingIsLinear` needs of it; the rest is that the directories are opened in
one order.

Only model-checked: the liveness properties `EveryCallAnswered`, `SignalStops`,
`ListenFailureStops`, `StalledClientReleased` and `ParseTerminates`.
Fairness and `ENABLED` are beyond the prover, and the abstract specifications
state safety only. What `ParseTerminates` needs besides a reader that runs is
proved, as `ReadingIsLinear`. Every safety property of a passing run has its
theorem.

## Not modelled

* The request pipeline (`run()`'s wrappers, `auth.go`, multipart parsing): a fixed
  chain without state of its own. Its two stateful links, the limiter and
  `VerifySign`, are modelled each in its module.
* The rest of the configuration: each field is overwritten by the next source on
  its own; only the signing keys combine two fields and two lists.
* The logging and timing wrappers and the static endpoints (health, OpenAPI,
  Swagger UI): no state beyond one response.
* Packaging and CI.

Within the modelled components: pixels and the quality of their encoding,
`float64` rounding, the parsing of client keys, what EXIF values mean,
percent-encoding of queries, the cryptography of HMAC (ideal here), the size of
a fetched body (its cut at `MaxFileSizeMB` is one of the failures of
`ReadBody`), TLS, and the codecs inside the external programs.

## Plan

Most important behaviour first.

1. `RateLimiter` over `WindowLimiter`: done; safety, refinement and the bound on
   any window proved.
2. `ServerLifecycle`: done; types and exit code proved.
3. `ImageService`: done; types, temporary files, labels, formats, sizes, caps
   and the fallback of `/optimize` proved.
4. `Exif`: done; types, bounds and linear work proved.
5. `Fetch` over `SafeFetch`: done; safety and refinement proved.
6. `SignedURL` with the layers of the key configuration: done; safety proved.
7. `Service`, the composition of 2 and 3 over restarts: done; its own safety
   proved, that of its components carried over.

What could follow: the safety core of the liveness properties of the drain (what
counts down, and that nothing counts up again), as `WorkIsLinear` is for `Exif`;
the pipeline composed with `RateLimiter` and `SignedURL`, so that what a refused
request costs its client is a property; the layers of `ALLOWED_DOMAINS`.
