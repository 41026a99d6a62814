# Verification of the stream transcoder's LL-HLS core

TLA+ models of the Go program in this repository (`internal/`, `cmd/streambridge`),
the TLC runs that check them on small instances, and the theorems about them that
TLAPS proves for every instance. Paths below are relative to the repository;
`store.go` is `internal/hls/store/store.go`.

## 1. The system

The program turns WebRTC rooms into Low-Latency HLS. A native library (not in the
repository) receives the media, encodes it and hands fMP4 fragments, one by one, to
a Go callback; the Go side assembles them and serves players over HTTP, and is
driven by a controller over gRPC.

    controller --gRPC--> server.Server --cgo--> native library
                            |                        | muxer thread: goSegmentCallback
                     Register/Unregister              v
                            v              store.Store --owes--> store.Notifier
                     httpserver.Server <--reads---/                |
                            ^    \--- sleeps on, with a deadline --/
                     players (playlists, parts, segments)

| Component | State | Operations | Where the difficulty is |
|---|---|---|---|
| Media store (`store.go`, `types.go`) | part accumulator, current segment, window of completed segments, next sequence number, ended | SetInit, AddFragment (finalizePart, finalizeSegment), Finalize, GetPart, HasPart, HasPartOrSegment, GetCurrentMSN, GetSegment, Snapshot | parts, segments and the window are cut from one byte stream by truncated durations; broadcasts are made after the unlock |
| Notifier (`notifier.go`) | newest announced part or segment, ended; a condition variable | Broadcast, BroadcastEnded, WaitFor, OnContextCancel | lost wakeups, deadlines that pass between a test and a sleep |
| Blocking handlers (`internal/httpserver/server.go`) | one goroutine per request | servePlaylist, servePart, serveSegment, serveInit, servePartFromDisk | several locks in sequence, each answer stale when the next is taken |
| Session registry (`internal/server/server.go`, `internal/httpserver/server.go`) | sessions, stores and memStats by id; grace timers | CreateSession, DestroySession, AddInput and the other per-session calls, RegisterSession, UnregisterSession, Close | a handle looked up under a lock and used after it; timers against re-registration; partial failure |
| Native binding (`internal/webrtchls`) | session handles, callback map | CreateSession, Destroy, SetSegmentCallback, goSegmentCallback | callbacks in flight while a session is destroyed |
| Playlist generator (`internal/hls/playlist`) | none | Generate, GenerateWithSkip, GenerateDiskPlaylist | skip arithmetic, durations against the advertised target |
| Disk writer (`disk_writer.go`) | written segments; files | WriteInit, WritePart, WriteSegment, Finalize | failed writes, a crash between two files |
| fMP4 parser (`internal/hls/segmenter`) | none | ParseMoofFromBytes and the box walk | sizes and offsets read from the data |
| Configuration (`internal/config`) | the configuration | Load, LoadOrDefault, applyEnvironment, Validate | precedence of sources |
| Legacy session state (`server.go:80-415`) | - | unreachable from the router | - |
| Entry, CLI client, examples | - | flags, logging, thin gRPC clients | order of shutdown |

What makes each correct: the **store** neither loses, repeats, reorders nor renumbers
media, whatever the durations, and ends with everything in completed segments; the
**notifier** names the newest media, only advances, and never leaves a request asleep
over media that is there; the **handlers** answer no request before its media exists,
deny no part that was hinted at, and return when their time is up; the **registry**
gives every session one store that outlives it by the grace period and no more; the
**recording** on disk is playable after any crash; the **playlist** never advertises
what cannot be fetched, and can be put together from delta updates; the **parser** reads
what the muxer wrote; the **process** runs as configured and ends when asked.

## 2. Plan

| Order | Module | Content | State |
|---|---|---|---|
| 1 | `Store` | store and notifier, one action per operation | done |
| 2 | `LiveStream`, `StoreLive` | abstract live stream, and the store's refinement mapping to it | done |
| 3 | `BlockingReload` | handlers, condition variable, watcher goroutines over `Store` | done |
| 4 | `StoreProofs`, `ContentProofs` | the store's invariants and its refinement of `LiveStream`, for every value of the constants | done |
| 5 | `Sessions` | registry, binding, grace timers, Close; the native library external | done |
| 6 | `Segmenter`, `Playlist`, `Delivery` | the fragment parser; the live playlist and what it lists; both around the store, with a reloading player | done |
| 7 | `Archive`, `Recording` | abstract recording; files of a session, failed writes, a stop at any step, a directory used again | done |
| 8 | `Configuration`, `Startup` | precedence and validation; the process from its flags to its exit | done |
| 9 | `ReloadProofs`, `SessionsProofs`, `RecordingProofs` | the handlers, the registries, the recording and its refinement of `Archive` | done |
| 10 | `ParserProofs`, `DeliveryProofs`, `StartupProofs` | what the parser reads; what a reloading player gets; configuration, ports and the end of the process | done |

## 3. What is modelled

**Store.** A store record holds the fields `Store.mu` guards; `fragments` is the history
of what the muxer delivered. A fragment's bytes are its number, so a `[]byte` is a
sequence of numbers and losing, repeating or reordering media is visible. (An empty fragment
and a negative part index of a request cannot be said in it.)
Seconds are ticks, of which `TicksPerMs` make a millisecond, because finalizePart truncates a
part's duration to milliseconds and every later decision uses the truncated value. The code
adds seconds in float64 and rounds at every step. What that loses is far below a tick and
tells only where the true sum is the very number it is compared with or cut at: a sum of
PartDuration may fail `>= PartDuration` (store.go:134), and one of whole milliseconds may
truncate to one less (157: 1.005 s, 90450 units of a 90 kHz clock, becomes 1004). Which sums
do depends on how they were added up, so at such a `Boundary` it is a choice: an accumulator
keeps in `lost` which of the two uses reads it a tick too short (`SumRead`). Every method
runs under `s.mu`, so each is one action; the broadcast it owes is made after the unlock,
so `owed` keeps it and `Broadcast`/`BroadcastEnded` are actions of their own. The muxer is
one thread: the next `AddFragment` starts after the previous one's broadcast. `Finalize`
is called once, after the muxer is gone (`DestroySession` destroys the native session
before it unregisters it). A store with a disk writer adds only file writes.

| Code | Model |
|---|---|
| AddFragment 99-144 | `AddFragment`, from `Accumulate` and `FinalizePart` |
| finalizePart 149-193 | `FinalizePart` (`AppendPart`, `IsFull`, `PartNews`) |
| finalizeSegment 198-232 | `FinalizeSegment`, `TrimWindow` |
| Finalize 238-264 | `Finalize` (`FlushPart`, `FlushSegment`) |
| HasPart, HasPartOrSegment, GetCurrentMSN | operators of the same names |
| Notifier.Broadcast, BroadcastEnded | `Broadcast`, `BroadcastEnded` |

**LiveStream** is what a player may rely on, with nothing of how cuts are decided;
`StoreLive` maps the store to it. Its `Window` is `PlaylistWindow - 1`, which is what the
code keeps (section 6).

**BlockingReload** runs the handlers `servePlaylist` and `servePart` next to the store. A
request's steps are the stretches between two lock operations: read the current MSN, look
for the target, enter `WaitFor`, test the context, test the news (both with `n.mu` held),
sleep, serve. `OnContextCancel`'s goroutine is `watcher`: armed, about to broadcast, off.
The 400 check is made where the MSN is read; the code makes it two lines later on the value
read there. Playlist targets are any the client likes; part targets are the one the
playlist hints at, read from the store at some earlier moment.

**Sessions** is the layer above: the gRPC server's `sessions` and `memStats`, the HTTP
server's `stores`, the binding's handles and callback map, the grace timers, and `main`
ending the process. A native session, its store and its callback id are made together, so
one number names all three, and numbers grow. The steps are what other goroutines can see
in between: CreateSession and DestroySession hold the gRPC mutex (`mu`) throughout but take
the HTTP server's and the callback map's mutex one statement at a time, and the muxer
threads, the timers and the other calls run in the gaps. Nothing of a store is kept but
whether it was finalized and how much it was fed; this module shows what `Store` takes for
granted, that no AddFragment comes after Finalize.

| Code | Model |
|---|---|
| CreateSession (server.go 106-194) with RegisterSession (httpserver 536-579) and SetSegmentCallback | `BeginCreate`, `CreateNative`, `Register`, `Hook`, `Install`, `DropStore`, `RecordStats` |
| DestroySession 197-249 with Session.Destroy and UnregisterSession | `BeginDestroy`, `Unhook`, `StopNative`, `ClearHandle`, `FinalizeStore`, `ArmTimer`, `ForgetStats` |
| AddInput, RemoveInput, SetMute, SetVideoOn, WriteID3Tag, GetSessionInfo | `Lookup`, `ReadHandle`, `EnterNative` |
| goSegmentCallback and the closure of RegisterSession | `FindCallback`, `FeedStore` |
| the AfterFunc of UnregisterSession | `TimerFires` |
| GracefulStop, Server.Close | `Stop`, `BeginClose`, `PickSession`, then `Unhook`, `StopNative`, `ClearHandle` by main, `EndClose` |

Of the native library is assumed that creating a session and installing a callback may fail,
that it calls back from one thread per session, and that destroying a session waits for that
thread. Its header says that destroying "frees all session resources", which it cannot do
under a running callback.

**Segmenter** is the parser as operators over a fragment's boxes, next to a muxer's side
written from ISO/IEC 14496-12 (the definitions mapped as external): which optional fields a
`tfhd` and a `trun` carry, in what order, and what a reader should find (`Written`). Bytes are
32-bit words and boxes, each with whether its declared size fits. `Conforms` is what the
standard asks of a track: what its fields leave out is the same for all its samples.

**Playlist** generates the live playlist from a store record, as a record of tags: skip,
media sequence, segments, parts, hint; an entry carries the media its URI stands for, so
that `serveSegment` and `servePart` can be compared with what was listed. **Delivery** puts
the parser in front of the store and a player behind it: the callback of RegisterSession by
file name, and reloads, full or delta, whose result the player keeps (`held`: the playlist,
and its age in ticks of the media that came since, as the store counts them; wall-clock time
is no shorter where the library's clock has at most 90,000 units a second, for the muxer
delivers live media). A file has the `clock` of its stream, the units of time in a second,
which the code does not look up: the callback has the parser assume 90 kHz. The player is external and does what RFC 8216bis says: asks for a
delta update only while its playlist is no older than half of CAN-SKIP-UNTIL, and takes the
skipped segments from what it has, by their position.

| Code | Model |
|---|---|
| the box walks, findChildBox, parseTrun, parseTraf, parseMoof, ParseMoofFromBytes | `Seen`, `FirstSeen`, `Defaults`, `EntrySize`, `ParseTrun`, `ParseTraf`, `ParseMoof`, `ParseMoofFromBytes` |
| generate (generator.go 24-132) | `Generate`, from `TargetDuration`, `SkipUntil`, `CappedSkipUntil`, `SegsToKeep`, `SkippedCount`, `MediaSequence`, `PartTags`, `SegmentTag`, `Hint` |
| the callback of RegisterSession (httpserver 556-568) | `EmitInit`, `EmitPlaylist`, `EmitMedia` (of the fragment `Parsed`) |
| servePlaylist without blocking, serveSegment, servePart | `Reload`, `ServeSegment`, `ServePart` |

**Recording** is the store with a disk writer. A call of the store that cuts a part or a
segment leaves the writes it owes in `pending`; `os.WriteFile` is two steps (truncate, fill),
either may fail, and the process may stop between any two. The directory outlives the
session, and the next one of the same id finds it as it was. **Archive** is the promise of
the playlist file, that it names a growing prefix of the stream and is final once sealed,
which `Recording` implements.

| Code | Model |
|---|---|
| RegisterSession, NewDiskWriter, SetDiskWriter | `OpenSession` |
| SetInit, AddFragment, Finalize with a writer | `TakeInit`, `TakeFragment`, `FinalizeSession`, `Announce` with the writes of `FinalizePartWrites`, `FlushWrites` |
| DiskWriter.WriteInit, WritePart, WriteSegment, Finalize, writeFile | `WriteInit`, `WritePart`, `WriteSegment`, `WriteList`; `OpenFile`, `FillFile`, `FailToWrite` |
| servePartFromDisk, ReadPart | `ServePartFromDisk` |
| Server.Close, a crash | `Stop` |

**Configuration** is the pure part of `config.go`: a configuration maps fields to values, a
file or an environment is such a map of fewer fields, texts that do not parse and NaN are
values of their own. **Startup** is `main` as a program counter, with the goroutine that
waits for a signal and the two that listen for HTTP, over a table of who has which port.
`grpc.Server` is external: GracefulStop closes the listener, waits for the calls and lets
Serve return nil; before Serve, it makes Serve fail.

| Code | Model |
|---|---|
| Default, Load, LoadOrDefault, applyEnvironment, Validate | `Default`, `Load` with `Overlay` and `Effective`, `LoadOrDefault`, `Validate` |
| main 116-258 | `Configure`, `Prepare`, `Listen`, `StartHttp`, `NewServer`, `WatchSignals`, `StartHealthCheck`, `Serve`, `ServeReturns`, then the deferred `Close`, `Stop`, `Return` |
| httpserver.Start, startHealthCheck | `ListenHls`, `ListenHealth` |
| the signal goroutine, setupSignalHandlers | `TakeSignal`, `CallsDone`; `Abort` |

## 4. The runs

| Run | Instance | Question |
|---|---|---|
| `store` | part target 4 ms, segments 5 ms, 2 ticks/ms, fragments of 1.5 and 4 ms, key or not, window 3, 6 fragments | is the byte stream cut right, numbered right, announced right, and does it implement `LiveStream`? |
| `reload` | two symmetric requests, 5 fragments = 2 segments of 2 parts and one part, window 2, targets up to segment 4, part 1 | no lost wakeup, no early answer, no false 404, no sleeper without an alarm |
| `reload_live` | two requests, 2 fragments, targets up to segment 1 part 0 | are sleepers answered, under fairness? |
| `reload_end` | as `reload`, 4 fragments | expected violation, section 6 |
| `window` | as `store`, one kind of fragment | expected violation, section 6 |
| `sessions` | two ids, two handlers, three sessions, one fragment each | do the registries and the library agree, is nothing fed to an ended store, do ended streams stay for their own grace period? |
| `sessions_live` | one id, two handlers, two sessions | do all calls return, are ended stores evicted, under fairness? |
| `stale_handle`, `close` | one id, one session | expected violations, section 6 |
| `recording` | two sessions in one directory, 4 fragments of 1.5 or 3.5 ms, part target 2.5 ms, segments of 3 ms, window 2, one failing write each | is what the disk playlist lists on disk, at every moment at which the process may stop; is a finished recording whole; do the files implement `Archive`? |
| `delivery` | seven emitted files (five forms of a fragment, one on a clock of 30 units a second; damaged ones), segments of 1.75 s, window 6, 6 fragments | are fragments read as written, do delta updates rebuild the window, is what is listed or hinted at served? |
| `startup` | four files, four environments, three values of -port, two of -hls-addr, any of four ports taken | does the process run as configured, serve or give up, answer on the health check's port, and end when asked? |

Bounds. Six fragments of `store` make up to three segments, so the window of two fills and
slides, and Finalize meets every combination of empty and half-full accumulator and segment;
1.5 and 4 ms make parts of one to three fragments, truncation by a tick, segments that
overshoot, and sums that are the part target and a whole number of milliseconds, on which
float64 may lose either. In `reload` a fragment is a part so that
all steps go into interleavings: the window slides twice, which a request that looked at a
hint long ago can meet; targets reach two past the last segment, so both sides of the 400
check occur. `reload_live` is small because liveness checking cannot use symmetry; it keeps a
part that is not the last of its segment, a segment end and an end of stream. In `sessions`
three sessions on two ids put a second session on an id while the first one's timer, callback
or call is pending, and still leave one for the other id; one fragment is enough for a
callback to be at any point when its session goes. `sessions_live` keeps one id, where all
the contention is.

In `recording` a part has one or two fragments and a segment one or two parts, so four
fragments make up to four segments of which memory lists one; two sessions meet every state
of a directory a predecessor can leave. In `delivery` segments of 1.75 s are advertised as 1 s,
so an update may skip 6 s, which is four segments, one less than the window: six fragments
fill the window, slide it and let updates skip. On the clock that counts frames, two seconds
are 60 ticks, and the store takes hundreds of them for a part. In `startup` the gRPC port may be
that of the health check, by the environment, or be out of range, by the flag.

Deadlock is not checked: a stream that ended with every request answered is a legitimate
end, and so is a process that was closed.

Fairness (`ReloadFairness`) is weak for the steps a running goroutine takes and strong for
those that take `n.mu`, because a `sync.Mutex` in starvation mode is handed over in arrival
order, so a goroutine that waits for it gets it. None is assumed of clients, timeouts, the
muxer, or the end of the stream. In `Sessions` likewise for the gRPC mutex, and strong for
`StopNative`: the library ends a session's thread at some moment when it is not in a
callback. `time.AfterFunc` runs its function eventually; controllers, media and the signal
to stop owe nothing. In `Startup` weak fairness of main, of the goroutines, of gRPC calls
(which return, by `HandlersReturn`) and of the five seconds' timer; a signal need not come,
and an HTTP request need not return before the process ends. The reflection service
(main.go:231-233), where it is enabled, has calls that last as long as their clients like, and
GracefulStop waits for them without a deadline: there `asked ~> Ended` rests on the client.

## 5. What is proved

Each theorem is for every value of the constants: any durations, window of at least 1,
number of fragments, requests, ids, callers, sessions, emitted files, configuration layers
and ports. The assumptions are the named ones of the modules:

- `StoreAssumption`, `RecordingAssumption`, `ReloadAssumption`, `SessionsAssumption` (the last
  two say, of names only, that no request or caller is called "free" or "main");
- `DeliveryAssumption`: ticks are of the clock the parser assumes (a choice of unit; the files
  may be of any clock); `EmittedAssumption`: the store's
  fragments include those the emitted files parse to, and each file holds the tracks it is said
  to hold, in a moof with nothing before it that hides it (`HoldsItsTracks`; a damaged file
  holds none, and none of its sample tables can be reached); `SecondAssumption`: a segment has
  at least a second, which Config.Validate asks for;
- `LayersAssumption` and `PortsAssumption`: a file or an environment sets known fields to
  values of their types (an environment also to blanks or texts that do not parse), and every
  port that can be asked for is in the table of ports.

Where a theorem also needs `NoneTooShort` (every fragment is longer than a millisecond), it
says so.

| Module | Theorem | Property |
|---|---|---|
| `StoreProofs` | `TypeCorrect`, `WindowConsecutive`, `NotifierCurrent`, `NotifierAdvances`, `OvershootBounded`, `EndedSealed`, `WindowSlides` | `TypeOK`, `WindowIsConsecutive`, `NotifierIsCurrent`, `NotifierOnlyAdvances`, `OvershootAtMostOnePart`, `EndedMeansSealed`, `PlaylistOnlySlides` |
| `ContentProofs` | `StreamWhole`, `SegmentTiled`, `IndependentTruthful`, `DurationsDrift`; `StoreIsLiveStream` (given `NoneTooShort`) | `StreamUnbroken`, `SegmentIsItsParts`, `IndependentIsTrue`, `ReportedDurationsDrift`; `ImplementsLiveStream` |
| `ReloadProofs` | `ReloadTypeCorrect`, `ServedIsThere`, `NoLostWakeup`, `SleeperHasAlarm`, `HintKept`, `ReloadIsStream` | `ReloadTypeOK`, `ServesOnlyWhatIsThere`, `NobodySleepsOverMedia`, `ExpiredSleeperHasAlarm`, `HintedPartIsNotDenied`, (the store is that of `Store`) |
| `SessionsProofs` | `SessionsTypeCorrect`, `RegistriesInAgreement`, `CallbacksLive`, `NoFragmentAfterTheEnd`, `StreamsStay`, `EndedStoresHaveTimers` | `SessionsTypeOK`, `RegistriesAgree`, `CallbacksAreOfLiveSessions`, `NothingAfterTheEnd`, `StreamsEndBeforeTheyGo`, (an ended store has a timer) |
| `RecordingProofs` | `RecordingTypeCorrect`, `ListedRecorded`, `PartsOnDisk`; `RecordingFinished`, `RecordingIsArchive` (given `NoneTooShort`); `SessionsAreStreams` | `RecordingTypeOK`, `ListedIsRecorded`, `AvailableIsOnDisk`; `FinishedIsComplete`, `ImplementsArchive`; (a session's store is that of `Store`) |
| `ParserProofs` | `ParserTotal` | (of a file of any content, with any timescale, it returns a duration and a flag) |
| `DeliveryProofs` | `DeliveryTypeCorrect`, `ReloadedWhole`, `ListedServed`, `HintNext`, `SkipsFarEnough`, `ReadAsWritten`, `DeliveryIsStream` | `DeliveryTypeOK`, `ReloadShowsTheWindow`, `ListedStaysServed`, `HintIsTheNextPart`, `SkipsOnlyPastTheBoundary`, `ParsedAsWritten`, (the store is that of `Store`) |
| `StartupProofs` | `StartupTypeCorrect`, `ConfiguredAndServing`, `EndsInOrder` | `StartupTypeOK`, `RunsAsConfigured`, (exit status 0 only after the library was released and no call is under way) |

**The store.** All theorems about it rest on `StoreInv`. `Windowed(store)` is not inductive
alone: finalizeSegment completes whatever the current segment is, and Finalize decides by
its duration whether to call it, so `Sound` adds that a segment without parts has no
duration. Each internal operation has a lemma from `Sound` (or `Filled`, a store that can be
given a part; or `Sealable`, one whose segment has a part) to what it establishes, and
`OwedIsLater` strengthens the notifier's half: the owed broadcast is later than the last one.
To this the other modules add one fact each, again preserved operation by operation:

- `Short` and `Long` (no segment but the last of the stream is short, none overshoots by more
  than a part), and `Timed` and `Sealed` (a part that lasts more than a millisecond counts at
  least one, so Finalize sees it). `EndedMeansSealed` is false of shorter fragments, which is a hazard of section 1's
  truncation and why the property has that condition.
- `Whole`: accumulator, current segment and window are one run of consecutive fragments.
  `Unbroken` speaks of first and last bytes of neighbours, so it must be known that none is
  empty; `WithBytes` and the first conjuncts of `Whole` add that.
- `Tiled` and `Truthful`, about the parts within a segment.
- `Accurate`: what parts and segments report against the media time of their fragments, up to
  a millisecond per part less (`MillisecondsShort`), whichever sums float64 loses on. A run
  of fragments lasts the difference of two values of one function, the media time of the first
  n fragments, so no sum over data has to be rearranged. The invariant says it of every function
  that satisfies the recursive equation and that there is one; a delivered fragment extends the
  function by a value, so neither its totality nor its uniqueness needs induction.
- `Grows` and `Trims`: a step of the view is a growth of the current segment, and then at most
  one segment less. Finalize completes one segment at most, because after a part that filled
  its segment the next one has no duration.
- `Seals` and `LeavesOpen`, the same for the mapped state: each operation seals the open
  segment of the abstract stream or leaves it open, and so is a step of `LiveStream`.

**The handlers.** `ReloadInv` says what each program counter knows. A handler sees the store
through two windows, the store's lock and the notifier's record; `Covers` brings both to one
question, asked of the newest media. A handler between its look at the store and its sleep
may find that its media has come meanwhile, and then the owed broadcast covers it: that is
the whole argument for no lost wakeup, and it holds after the end of the stream too.
`Hinted` says of a hinted part that it is the next of the current segment or in every segment
of its number, which a stale hint keeps while the window slides.

**The sessions.** `SessionsInv` has `Numbered` (session numbers, native sessions and callbacks
correspond), `InOrder` (numbers are handed out in order), and `InHand(c)`, the facts a handler
between two statements of CreateSession or DestroySession relies on; `OthersAgree` says that
the registries agree on every id but the one in the mutex holder's hand. `GraceInv` adds
that a store is registered under one id (`StoresAreOwn`), without which ending one session
would end another's store under an id that has no timer; with it, an ended store has its timer
or a handler about to start it, which is what `EndedStoresAreEvicted` needs of safety.

**The recording.** `RecordingInv` ties the writes to the store: `Follow` says of the writes an
operation owes that they list exactly the segments it completes, so that the list on disk,
with what is still pending, has the completed segments of the store (`Complete`). The numbers
of `Row` then make every entry safe: a later write has another name, and a file a predecessor
left has another session's number (`Kept`), so neither is taken for a listed segment.
`FinishInv` adds the end: the write that seals the playlist is the last one, made when the
store is ended, nothing is owed and the list is complete; with `EndInv` the list is then the
whole stream, and each version of the playlist file is a step of `Archive`.

`PartsInv` is about every part the store can serve: while a writer records, its file is
whole and has its media, or the write failed, or the write is still owed and the only one of
that name; a part is announced only when its write is no longer owed.

**The player.** `HeldInv` relates the playlist it holds to a newer store. `Listing`: its segments
are numbered from its media sequence and it skips none. `Follows`: where the store still has a
segment or part of that number it is the listed one (`SegmentsStand`, `PartsStand`), and the
hinted part does not exist yet and comes right after the last listed fragment, or exists and
does (`Awaits`). `Paced`, found when `ReloadShowsTheWindow` turned out not to follow from the
numbers: every segment completed since brought at least a nominal segment of media, so a
playlist no older than half of CAN-SKIP-UNTIL lacks at most four segments, and an update that
skips any lists at least four; one segment may have begun before the playlist was made, and
one more may be short when the stream has ended. `SkipsFarEnough` sums the list: an update that
skips any lists at least four segments, and while the stream lives each lasts a nominal
segment, so the sum is at least as many times that (`AddedAtLeast`).
`HintIsTheNextPart` is conditioned on the playlist listing media (or the stream having
had none): with a window of 1 a playlist lists no completed segment, and between two segments
it has a hint and nothing the hint could come after.

**The process.** `ConfigInv` carries the configuration from Configure on; that each field then has
the value of the first layer that sets it is proved field by field (`FieldOf`), so for any
number of files and environments. `ProcessInv` says who holds what at each statement of main: the
gRPC port from Listen to the signal, the library from NewServer to the deferred Close, no
goroutine before main started it; exit status 0 therefore means that all was given back.

**The parser.** `ReadAsWritten` is about sums and tables of any length, so it takes induction.
The library states induction for a predicate, which the provers cannot instantiate;
`ParserProofs` states it for a set. `LeastNumber` gets the least element of a set of numbers
from the well-foundedness of strict inclusion on finite sets, applied to the intervals 0..n;
`Induction` is the usual consequence, and each use names the set of numbers for which the
statement holds. With it: `Added` is defined and is a number (`AddedType`), depends only on its
terms, adds up over a split (`AddedLater`, `AddedAtLeast`), and the table a muxer writes has its
i-th entry at the place the parser computes (`EntriesAre`, `PlaceWithin`). Then the parser is
followed outwards: `TrunRead` (a run's duration is the sum of its samples', its flag the first
sample's), `DefaultsRead`, `TrafRead` (several runs), `MoofRead` (the first track that has a
duration, though others follow), `FileRead` (whatever boxes come before); `NothingRead` for files
without tracks. Where the proof failed the code indeed read something else: `Readable` excludes a
video whose durations are only in `moov`, one of duration 0, and the forms listed in section 6.
`DatedInv` says of a delivered fragment that it is what the parser made of the file delivered
last. So much is of units of time; that they last as long in the store as they should only for
the 90 kHz clock is the last step (`SameTimeIs`), for every clock a track may have. `ParserTotal` assumes nothing of the file but that it consists of boxes and words: whatever
the flags claim, only durations that are there are added, and a box or run is chosen only from a
set that has one.

**One store.** `ReloadIsStream`, `DeliveryIsStream` and `SessionsAreStreams` say that the modules
built around the store only take its steps, so the theorems about `Spec` hold in them (in
`Recording`, for each session from its new store on).

Only model-checked: liveness (`MediaReleasesWaiters`, `ExpiredRequestsReturn`,
`EndedStoresAreEvicted`, `HandlersReturn`, `StartsAndStops`), which the proof system does not do.
The safety some of it rests on is proved: `NoLostWakeup`, `SleeperHasAlarm`,
`EndedStoresHaveTimers`, and in `SessionsTypeCorrect` that the mutex is held only by a handler
that has steps left to take.

## 6. Disagreements between code and text

- `reload_end`: Finalize wakes everybody but does not set `Notifier.ended` when it flushed
  something, so a request for a later segment sleeps on to its timeout (503), against
  store.go:253-255 and server.go:588-593.
- `window`: `PlaylistWindow - 1` completed segments are kept, against config.example.yaml:45.
- `stale_handle`: a call that found its session before DestroySession took the mutex uses
  the native handle after it was destroyed; libwebrtc_hls.h:231 declares it invalid.
- `close`: `Server.Close` finalizes no store, so a stopped process leaves no final playlist,
  against disk_writer.go:16 and README.md:19. GracefulStop has let the handlers return by
  then, but no session is destroyed through DestroySession.

Met while modelling, and taken into the models as the code has it:

- main.go:71 and 198: health check and LL-HLS server want the same default port, each in a
  goroutine. If the health check is first, no HLS is served though main.go:204 logs that it
  is, and `/healthcheck` answers all the same. `StartsAndStops` claims only that somebody
  answers.
- main.go:255: a signal between Notify and Serve ends in zlog.Fatal, exit status 1 and no Close.
- config.go:112: without a readable file the environment is not applied, against README.md:101
  and CONFIGURATION.md:34-41; `FollowsThePriority` states what holds.
- config.go:244: a segment duration of NaN or +Inf passes Validate.
- generator.go:37: the target duration is `int(SegmentDuration)`, the comment above it asks for
  the ceiling of segment plus part; segments are longer than advertised (`delivery` has 1.75 s
  under a target of 1 s).
- generator.go:57-61 has the media sequence number move with a skip, 71-74 does not; the code
  follows the latter, and `ReloadShowsTheWindow` shows that this is right.
- Once the stream has ended, its last segment may be short, and a delta update may skip past
  the advertised boundary; `SkipsOnlyPastTheBoundary` is of live streams.
- fragment_parser.go:280: a version 1 composition offset is read as 8 bytes (it has 4);
  per-sample flags are not read for the keyframe flag, and of several runs the last one's
  decides; the default duration of `trex` in `moov` is not read, and a video of duration 0 is
  passed over for the next track. `Readable` names the forms for which `ParsedAsWritten` holds.
- store.go:157: `int64(duration * 1000)` of a float64 sum is not the truncated duration where
  that is a whole number of milliseconds: a part of 1.005 s may be reported as 1004 ms.
  `ReportedDurationsDrift` therefore allows a whole millisecond per part.
- fragment_parser.go:306-307: "timescale must equal the H.264 encoder's FPS value (the
  fragmenter sets time_base = {1, fps}, so the timescale embedded in the moov box equals fps)",
  but server.go:565 passes 0, which parseMoof takes for 90000; the callback keeps init.mp4 without
  looking for its timescale, and ExtractVideoTimescaleFromInit, which would, is called nowhere.
  If the comment is right of the library, two seconds of 30 fps (60 units) are read as
  60/90000 s, and a part of 0.2 s takes ten minutes of media.
  Which clock the library uses is not in the repository, so the models take any:
  `ParsedAsWritten` shows that the units and flags are read as written, and that the store's time
  is the media's just when the clock is of 90 kHz.
- store.go:186: the part file of a segment's last part is written too, against the comment.

## 7. Not modelled

The native library (external; section 3 says what is assumed of it; in particular whether
it flushes fragments while a session is destroyed, which would be dropped because the
callback is already out of the map), TLS and routing, logging, memory statistics' values, the recovery of panics, the CLI and the
examples (thin gRPC clients without state), the unreachable legacy session state, and code
nothing calls: Config.Save, FragmentParser.Run, ExtractVideoTimescaleFromInit, elst_fix.go.
Wall-clock fields of parts and segments are left out, and so are the disk playlist's
durations and the wording of both playlists.
