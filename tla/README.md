# togewire: specifications and proofs

togewire follows a Spotify account and streams what it plays, as one Ogg/Opus stream, to
any number of browsers. Tracks are fetched (librespot, else yt-dlp), cached on disk and
streamed from there; a *togedemon*, a capture client on another machine, may push live
audio instead. This directory specifies the parts of the program whose correctness depends
on order: what is shared, who changes it, and what another task may have done in between.

Run a model check with `tlc -config X.cfg M`, a proof with `tlapm M.tla`.
Paths below are those of the repository (`src/...` is the crate); line numbers are in
`PROJECT.json`, which maps every definition to the code it stands for.

## 1. Inventory

The server is one process: tokio tasks on several threads, shared state behind
`parking_lot` mutexes that are never held across an await (`download_lock`, an async
mutex, is the exception). Everything below interleaves at every await and every unlock.

| Component (source) | State it keeps | Operations | What makes it correct |
|---|---|---|---|
| Track cache (`cache.rs`) | entries, eviction queue, running total, limit; `_metadata.json`; the files | `get_path`, `track_path`, `put`, `evict_if_needed`, `set_max_mb`, `clear`, save, load | queue = entries; total = sum; within the limit; LRU order; a restart loses nothing saved; a lookup answers with the right audio |
| Track preparer (`audio/prepare.rs`) | `in_flight`, `failed` cooldowns, `download_lock` | `prepare_track`: lead, follow, fetch, record | one leader per track; no wasted download; cooldowns stand; every caller is answered |
| Playback control (`server/workers.rs`, `server/mod.rs`) | `current`, the monitor's locals, the togedemon slot, `player_enabled` | monitor poll, `spawn_prepare`, togedemon push, admin player switch, broadcasts | the stream follows Spotify; the newest togedemon wins; silence ends; pages learn the generation |
| Stream pipe and pump (`server/stream.rs`) | the pipe with its prefix and broadcast channel, generation, listeners, `playing_file` | `swap_pipe` (`play_track`, `play_live`, `stop`), `send`, `subscribe`, `pump_ogg` | each page exactly once and in order; a retired pipe ends its producer and its listeners |
| Stream copies in memory (`server/stream.rs`) | files in `/dev/shm`, `prewarming` | `prewarm`, `prepare_stream_temp`, `ensure_stream_temp`, prune | a copy that can be opened is whole; at most `MAX_TEMP_COPIES` of them; every prewarm takes its mark away |
| Listeners and sockets (`server/mod.rs`, `server/websocket.rs`) | `PEERS` (counts per address), `State.listeners`, `ws_clients`, `listening` flags | stream and socket admission, upgrade, release, player gate, clear, shutdown | what is counted is what is open; no address exceeds its places; what is cleared or shut down ends |
| Togedemon feed (`server/mod.rs`, `bin/togedemon.rs`) | SSE subscription; the client's connection and silence clock | the feed, the client's reconnect loop | a Spotify that sounds goes live, whatever the client last heard of the server |
| Spotify session and client (`spotify.rs`) | cached token, rate-limit cooldown, pending pairing, `token_refresh` | authorised requests, refresh, 401 retry, pair, disconnect | no refresh token is wasted; a disconnect lasts; every request ends |
| Configuration (`config.rs`) | the settings, the session among them, and their file; `WRITER` | get, update-and-save, init | the file holds what memory holds, unless a save failed |
| librespot fetcher (`audio/librespot_src.rs`) | session, auth cooldown, refused formats | fetch, reset, plan check | a disconnected account leaves no session behind, unless its tokens are in hand again; refusals are held against their own account; no lapsed plan ends the process |
| yt-dlp fetcher (`audio/ytdlp.rs`) | binary, cookies file | search, download with retries, self-update | every retry loop ends |
| Encoding (`audio/mod.rs`) | none | ffmpeg, rsgain | external programs |
| Admin login and set-up (`server/auth.rs`, `server/mod.rs`) | attempt window, set-up token, pending hash | login, set-up, confirmation | the window limits guesses; the password in force was entered twice |
| Player page (`player.js`) | audio element, noted generation, listening flag, pause timer, socket | listen, leave, messages, reconnection | shows and plays what the server does; is counted as what it is |
| Start-up and shutdown (`main.rs`) | `AppState.shutdown` | signal, drain, next start | every long-lived connection ends |
| Admin page, parsing | none that is shared | forms, pure functions | unit-tested in place |

How they interact. The monitor asks the cache for the path of the current track
(`get_path`), calls `play_track`, and spawns a prepare task for what is missing. A prepare
task goes through the preparer, whose fetchers land a file in the cache directory and call
`put`; it then starts the file if its track is current and nothing plays. A togedemon
connection takes a slot, replaces the pipe, pumps its body into it, and on its end stops
the stream and falls back to the cache. The admin switch disables the player, empties the
slot and stops the stream. Every replacement of the pipe bumps a generation that
broadcasts carry to the pages, which reconnect when it changed.

What is hard about it. (a) *Check, unlock, act*: nearly every decision about the pipe is
made from state whose lock is gone when the pipe is swapped. (b) *Two critical sections
where one is meant*: slot and pipe, configuration and limit, message and its sending.
(c) *Crash points* between file system, memory and metadata. (d) *Long waits* (a download,
a 60 s follow, a body that sends nothing) after which what was read is stale. (e) *Accounts
kept in two places* (queue and map, total and entries, in-flight and leaders). The
`hazards` list of `PROJECT.json` has each at its line, with the properties that cover it or
the reason why none does.

## 2. Modules

| Module | Models | Composes |
|---|---|---|
| `TrackCache` | the cache with its directory, metadata file, the one fetch at a time, admin requests, clock, crashes | - |
| `MCTrackCache` | its instance for TLC | TrackCache |
| `TrackCacheProofs` | theorems | TrackCache |
| `FetchPolicy` | abstract: what the preparer promises | - |
| `Preparer` | `prepare_track` by any number of tasks | refines FetchPolicy |
| `PreparerProofs` | theorems, the refinement among them | Preparer |
| `Playback` | monitor, prepare tasks, togedemon connections and admin switch over the one pipe | abstracts the cache to "which tracks have a path", the preparer to its outcome |
| `MCPlayback` | its instance for TLC, with the casts | Playback |
| `PlaybackProofs` | theorems | Playback |
| `Delivery` | abstract: what a listener is promised | - |
| `Pipe` | swaps, pumps, prefix, broadcast, listeners | refines Delivery |
| `PipeProofs` | theorems, the refinement among them | Pipe |
| `SpotifyAuth` | `access_token`, `send_authed_json`, pairing, disconnect, `config::update`, with Spotify and crashes | abstracts the callers to requests |
| `SpotifyAuthProofs` | theorems | SpotifyAuth |
| `Connections` | stream and socket requests, `PEERS`, the socket map, the switch, shutdown and restart | abstracts what streams carry (`Pipe`) and what sockets say (`Playback`) |
| `MCConnections` | its instance for TLC | Connections |
| `ConnectionsProofs` | theorems | Connections |
| `Librespot` | the session, cooldown and refusals of the librespot fetcher, against admin handlers, plans, and the token cache with its refreshes | abstracts the tokens of `SpotifyAuth` to the account they are of; fetches one at a time from `Preparer` |
| `Ytdlp` | the yt-dlp fetcher's loops, the updater, the user's cookies | fetches one at a time from `Preparer` |
| `StreamCopies` | prewarm and play over the directory of streaming copies | abstracts the pipe (`Pipe`) and the cache to "the file may be gone" |
| `Setup` | login and set-up forms, attempts, the pending hash, restarts | - |
| `MCParts` | one instance for TLC with four casts | Librespot, Ytdlp, StreamCopies, Setup |
| `PartsProofs` | theorems about each of the four, and that their composition is a behaviour of each | MCParts |
| `Updates` | what the server tells pages and togedemons, and loses | abstracts `Playback` to what a frame says |
| `PlayerPage` | one page: socket, audio element, button, `/stream` requests | extends Updates |
| `Togedemon` | one capture client: feed, mirror, waits, push | extends Updates |
| `MCClients` | the composition of the three, its instance for TLC | Updates, PlayerPage, Togedemon |
| `ClientsProofs` | theorems | MCClients |

### TrackCache

Each public operation of `Manager` holds one mutex from start to end, so concurrent calls
cannot interleave; a crash can still fall inside one, a fetcher works on the directory
without the mutex, and files may vanish. Hence operations are split at the points those can
tell apart: `GetVanished`/`Remove` (the `stat` of the path, then the removal with its
deletion), `Put` then `EvictOldest`\* `EvictDone`, then `Save`. `lock` says what the
holder does next, `subject` whom it puts or drops. A lookup hit within
`TOUCH_PERSIST_SECS` (`GetRecent`) changes nothing that is modelled of the cache, one
beyond it (`GetTouched`) moves the entry and saves. A fetch is `TrackPath` (first name that
is free *on disk*), `Rename`, `Measure` (size and time, before the mutex), `Put`. `Save`
either replaces the metadata file or fails and is ignored, as in the code. `Restart` is a
crash at any point, with the load that follows: entries whose file is there, queue sorted by
stamp with ties in any order. `Bytes` turns the sum of sizes into a cardinality, so that it
needs no recursion. `saveOk` and `used` are history variables for properties.
Audio is abstracted to the track it belongs to, a file name to `<<stem, index>>`.

Properties: `OrderIsPermutation`, `TotalIsSum`, `WithinLimit` (accounting);
`LruWithinGate` (how far the order may stray from true LRU); `FreshSurvives` (a put does
not evict its own track, unless too large by itself); `RestartKeeps`. A claim the code does
not keep: `OwnAudio` (section 4).

### Preparer, FetchPolicy

One action per lock or await of `prepare_track` and `execute_prepare`. Roles, the queue of
the fair `download_lock`, the cooldown map, the guard (`Unflag`, then the drop of the sender
that wakes the followers, `Notify`) are explicit; a download is one nondeterministic outcome.
A cooldown's length is not modelled, only which of the two it is and that it runs out
(`Expire`). A caller whose track is cached returns at once and is left out: it changes
nothing. `FetchPolicy` has three variables and says: one download at a time, never of a
track that is cached or still owes a cooldown, each failed one leaves a cooldown.
`ImplementsPolicy` maps `owed` to the tracks with a cooldown *or with a failure about to be
recorded*, and `fetching` to the track of the task between `StartFetch` and its end. It
would fail without the second look at cache and cooldown under `download_lock`.

### Playback

Every task is a program counter; each critical section of the code is a step. `Shared`
holds what several tasks run: `maybe_play` (`MaybeLive`, `MaybeEnabled`, `PlayTrack`), the
quiet path (`QuietLive`, `Stop`), `switch_track`, and a broadcast (`Tell` builds the message,
`Send` queues it). `via` records what a task came for, which decides where it goes on.
Generations are abstracted to *who carries the current one* (`knows`): a swap empties the
set, so no counter needs a bound, and the model has no bound at all beyond its sets.
`pump_ogg` is two states: awaiting header pages ("headers"), in which it looks at nothing
but the body, and "pump", in which each page checks the pipe.

The account (`SpotifyChanges`, `SpotifySeeks`) and the cache losing tracks are an
environment that may act at any time. `cast`, chosen at the start and never changed, says which
tasks and tracks take part in a behaviour; it is how one run holds several small instances, and
the theorems hold for every `Casts`. Left out: broadcasts caused by listeners (they change
nothing but what pages know, and only towards knowing), a page whose queue of 256 messages is
full, failed polls (nothing but the poll interval), prewarming, shutdown.

Properties: `TypeOK`; `InStepAlone` (once all is at rest and the monitor has seen the account, a
file streams only if it is the track that plays; it is promised here for the monitor alone);
`TokenMatchesSlot`; `MutedPushEnds`, `SilenceEnds`, `GenerationIsTold` (liveness). Claims the
code does not keep: `InStep` with a prepare task, `NewestWins`. One consequence of `pump_ogg`
that no property states: while it awaits header pages it notices neither that its pipe was
retired nor that the player is off, so a connection that passed the gate just before the admin
switched off holds the slot for as long as its client sends no audio. `MutedPushEnds` therefore
speaks of connections that pump.

### Pipe, Delivery

The succession of pipes with the pump of each and the listeners of `GET /stream`. An item is
what is sent at once: item 0 the headers, item k the k-th page. Both critical sections under
the prefix's mutex are two steps (`StoreHeaders`/`SendHeaders`, `StorePage`/`SendPage`;
`AddClient`/`Subscribe`), so that it is the mutex (`PrefixFree`, `StateFree`) which makes
delivery exact and not the grain of the model. The burst is kept as its first page; how many
old pages a new one pushes out depends on their bytes and is left open (`\E k`), which covers
every size. A channel retains `Backlog` items; a slower receiver goes on with the oldest one
(`Lagged`), as tokio's broadcast does. A retired pipe is closed once its pump has returned
(`Closed`), and a body ends when it has read what is left.

`Delivery` says, of each listener: it joins the current pipe, hears the headers once and
first, then each page once and in order, and skips only when it lags. One consequence of the
code is visible in its `Lag`: a listener that joined before the headers were sent and lags by
the whole backlog never hears them. Properties: `TypeOK` (with the cap; proved), `ListenersCounted`,
`RetiredBodiesEnd`, `ImplementsDelivery`. The counts per address that `handle_stream` also
keeps are in `Connections`.

### SpotifyAuth

A task is a request of the monitor or a fetcher, or a handler of the admin page. Its program
counter follows `send_authed_json` (token, wait, sent, then one of the replies), `access_token`
(`token_refresh` is `refresher`) and `config::update` (`WRITER` is `writer`; memory changes with
the snapshot in `Update`, the file in `SaveOk`, or not, in `SaveFails`). `Invalidate` changes
memory without `WRITER`, as the code does. A token is told apart by its grant, a refresh token by
`<<grant, rotation>>`; Spotify (`latest`) accepts one rotation per grant and may replace it with
every refresh, also when its reply is lost (`RefreshLost`). A cached token that has expired is as
good as none (`CacheExpires`), and the second look under `token_refresh` and the look at the
session are one step, since only the holder of that lock fills the cache. What a pairing learns
of the plan belongs to librespot. `Crash` may happen anywhere, any number of times, and reloads
the file. `unsaved`, `excused` and `signedOut` are history variables.

Properties: `OwnTokensHonoured` (the program never sends a refresh token that Spotify
has rotated, unless its successor got lost, could not be saved, or the user revoked the grant);
`DiskFollows` (file and memory hold the same session between updates); `EveryRequestEnds`.
A claim the code does not keep: `DisconnectHolds`.

### Connections

A request is a program counter: gate (`Arrive`), place (`TakeSlot`, `TooMany`), then the body of a
stream or the upgrade and `handle_socket`. `peers` holds the three counts of `Peer` for every
address; an address without an entry counts nothing, so the removal of an entry is no step of
its own. `Minus` is the plain subtraction of the two refusals, `Saturating` the one of the ends.
The sender that `handle_socket` keeps until it has sent the current track is why a socket whose
entry is cleared in state "opened" closes only after `DropSender`. `HasPlace` looks at the size of
the socket map although the socket enters it later (`Insert`): the map may grow beyond
`MaxSockets` by as many upgrades as are under way, in the model as in the code, and no property
denies it. `shutting` is the cancelled token, at the moment the server has stopped taking
requests; what is cut off earlier is covered by the pages' own leaving. After a shutdown the
process ends as soon as no request is being answered (`Restart`): upgraded sockets are no longer
the server's and end with the process or before.

Properties: `CountsMatch`; `ClearedSocketsEnd`; `ShutdownEnds`. `TypeOK`, with the caps of addresses
and streams, is proved.

### Librespot

The fetch is a program counter through `prepare_inner`, `ensure_session` (`held` is the session
mutex, kept from `Acquire` until `Leave`), `fetch_track_inner` (`Download`: which formats were tried is
abstracted to whether the account was refused one), and the two steps after an authentication
failure, `StartCooldown` and `DropSession`. A handler of the admin page is one too: `ClearToken`,
`Disconnect`, `ResetSession`, `ResetCooldown`, `SwitchOff` are what `handle_admin_disconnect` does, one
after the other; `Pair`, `ClearToken`, `HandlerAsks`, `PlanAnswer`, `SwitchByPlan` are `complete_pairing`
with `sync_librespot_for_subscription`; the pairing is saved before the cached token is cleared, and
stays in memory if the file cannot be written.

A token is the account it is of, and comes from `cachedToken`, whoever is paired by then. The cache
is filled by a refresh in three steps, `StartRefresh` (the stored tokens are read), `SaveTokens` and
`CacheToken`; one runs at a time (`token_refresh`), for whichever caller, and disconnects and pairings
go on meanwhile. A caller that waits for a refresh finds its token in the cache or goes without one;
that it holds the token when the cache is emptied right after is the same as having found it before.
The plan is asked with a token had for that request (`AskPlan`, `HandlerAsks`), and a 401 empties the
cache and asks again. So a stored token may be of an account that is paired no more, and the tokens of
connection and plan check may be of two accounts. `excuse`, `cleared`, `exited` and `left` are history
variables: `excuse` says why the check under way may be of no use, and `left` names the accounts
that are disconnected for good. Not for good is an account that `access_token` was refreshing, or had
put into the cache again, when `clear_session` removed it from the configuration: that one can come
back, in the configuration (`AuthDisconnect`, section 4) and in the session.

A reset waits for the mutex, so it comes before or after a connection and never in it; which is why
`SessionForgotten` holds even if a fetch has the token of the disconnected account when the reset
is asked for. `ExitExcused` leaves three ways to the exit: a plan that lapses between check and
connection, an account that is paired or removed while the plan is asked for, and a token that was
stale when the fetch got it.

Properties: `SessionForgotten`, `ExitExcused`, `RefusalsAreOwn`, all proved. What the model shows and no
property denies is in section 5.

### Ytdlp

Both loops of `fetch_track` (`flat_dump` and `download_to_cache`) are one, told apart by `phase`. A run
that fails says a set of `complaints`, any set, any time; `judge` takes them in the order of the code
(sign in, update, 403). `update` is entered from the loop and from `keep_updated` (`PeriodicStart`),
under the lock of `UPDATES` (`holder`); `checked` and `renewed` are its two times, as being within
`UPDATE_GAP` or not. `asked` is `ASKED`: the hour for which the cookies are used, with those of this
loop apart, since a loop ends well within an hour of its own asking. `ensure_tools` takes the same
lock to download yt-dlp or Deno; Deno may be missing at any time, and has no variable, since nothing
else looks at it. The user adds cookies or takes them away at any moment. Left out: what yt-dlp
prints, search and scoring, and what is written back into the cookies file.

Property: `AttemptsBounded`. It counts the removals of the cookies, because a user who takes them
away and puts them back in the middle of a loop makes `WantsSignIn` true again; nothing else does.

### StreamCopies

A task is one run of `prewarm` or `play_track`, split at every await and at every operation on the
directory that another task can see. A copy is `<<file, variant>>`, `copies` the finished ones in the
order of their last write, `scratch` the files being written and `written` those whose encoder has
ended well; a scratch file is named for its task (`random_hex`) and its target. `lowDataNormalized`
builds its normalized copy by the nested call (`inner` and the states that begin with it), and frees
it afterwards (`Freed`), whoever else may use it. A source that is gone makes `Start` impossible and
`Fails` possible, and a play then falls back on the cached file. The admin may change the settings
at any time, `shutdown` removes the directory under running tasks, and a restart ends them all.

Properties: `WholeCopies`, `PrewarmingMatches`, `MemoryBounded`, all proved.

### Setup

A login form is a program counter with a wait for bcrypt in it: "login", "hash" or "confirm", and the
two awaits after a confirmed set-up. A hash stands for its password. `Forgive` is
`clear_failed_attempts`: what is under way at that address counts no more (`counted`, a history
variable, as are `wrong` and `repeated`). `Confirmed` sets the hash in memory whether or not the save
succeeds, as `config::update` does. `WindowOver` is the end of the window and the eviction from the
full map of addresses alike.

Properties: `GuessesBounded`, `EnteredTwice`, both proved.

### Updates, PlayerPage, Togedemon, MCClients

`Updates` is the server as its clients see it: the state a frame is built from (`current`, `gen`,
`hasTrack`, `live`), the channel of the one page's socket (`mailbox`, which loses a frame when full),
and the feed for a togedemon (`events`, which loses its oldest). `Become` is a change of the stream
with its broadcast: a reaction of the monitor, or of a push, is one step here, while `Playback`
takes it apart. A seek tells nobody while a live stream plays, or while the track is paused, if its file
is cached: the code overwrites the change it has noted. `handle_socket` is three steps, since a
broadcast may come after the sender is in the map (`Connect`), before or after the first frame is built (`BuildSnapshot`) and before it is queued
(`SendSnapshot`).

In `PlayerPage` a handler of the page is one step, as in a browser. A `/stream` request is answered
with the pipe that is current when it arrives, so `connected` (`connectedStreamGen`, taken from the last
frame) and `pipe` may differ. In `Togedemon` the loop of `main` is `pc`, the other thread `mirror`; a
push ends by silence, with the stream it records, or with its connection, and each end leads where
the code's result leads (a wait that the mirror cuts short, at once, or a rest). `foreign` and `old` in
the page say that a frame came from an earlier run of the server, `cut` that a request was refused or
cut off.

For the page, a push goes live, also in the place of another one, or goes off (`Pushes`). The admin's
switch is left out here: it closes every socket and refuses new ones and streams until it is on again,
which to a page is the loss of a socket that does not come back; its order against pushes and the
monitor is in `Playback`, its sockets are in `Connections`.

Properties: `TallyFollows`, `SkipIsSafe`, `PageShows`, `ListenerHears`, `SoundGoesLive`. The last three
speak of what is so from some point on, when nothing happens outside of the code any more; the
states in which a page stays silent all the same are named in `Stranded` and described in section 5.

## 3. Runs

| Run | Instance | Question | Why the bounds suffice |
|---|---|---|---|
| `TrackCache` | two tracks, sizes 1 and 3, limits 2 and 4, gate 2, clock to 2, one file name per track, one admin request at a time, one crash | accounting, order, limit, recency, persistence | one track fits each limit, one exceeds the smaller alone, both together fill the larger exactly; the clock passes the gate exactly once; a second crash starts from a state that the first could also start from. Tracks that share a file name and the ` (idx)` suffixes are in `CacheOwnAudio` (same constants, `MCSameStem`, indices 0..1), and the proofs of accounting, order and limit hold for every `Stem` and `MaxIndex` |
| `CacheOwnAudio` | same, one shared stem | violation: other track's audio | |
| `Preparer` | three tasks, two tracks | roles, cooldowns, refinement, every caller returns | a leader, a follower and a leader of another track (or a new leader of the same one) at once; two tracks are needed to make `download_lock` contended between leaders |
| `Playback` | five casts: the monitor over two tracks; over one track the monitor with one togedemon, with a prepare task, with the admin; two togedemons and the admin without tracks | in step, tokens, muted pushes, silence ends, generation is told | two tracks are "the one before" and "the one after"; each other writer of the pipe races the monitor by itself, and comes and goes without limit; of togedemons one is live or superseded and one arrives, and either may be the newer |
| `PlaybackStale` | monitor, prepare task, two tracks | violation: old track streams on | |
| `PlaybackNewest` | two connections, no admin | violation: newest connection muted | |
| `Pipe` | three pipes of three pages, two listeners with room for one, backlog 2 | delivery, ends, count, refinement | a pipe before, the current one, and one after; headers and three pages exceed the backlog, so lag happens, with items left over; listeners meet only in the mutex and the cap, and the cap is reached |
| `SpotifyAuth` | one request task, one admin, one grant, one rotation | tokens, file and memory, requests end | the admin's task sends a request too after a pairing, so two tasks meet at both locks; a token, its successor, and a revoked grant are the three kinds there are. A second grant multiplies the states beyond the time a run has, and only `save_spotify_auth` could tell it from the first |
| `AuthDisconnect` | same | violation: the session returns | |
| `Connections` | two streams, three sockets, two addresses, two places each, one listener, one socket, three requests at once (`Crowd`) | counts, caps, cleared sockets, shutdown | a third request from one address is refused, so is a second listener (from the other address, with a place of its own), and a second and third socket may be upgraded past the cap together; requests come again without limit, the admin's too, though only one at a time is between its switch and its clear |
| `Parts` | four casts. Two accounts and two handlers of the admin page; yt-dlp with one removal of the cookies per loop; two tasks, two files (one above the bit rate of low data), one copy allowed; two forms, two addresses, two passwords, two attempts | sessions, exits, refusals; retries; copies; guesses, set-up | an account is left while another is paired, by two handlers at once; a second removal repeats what the first did; one task builds what the other builds, reads or prunes, and with one copy allowed every second one is pruned; two forms at the limit of two, from one address or from two |
| `Clients` | two casts, a page and a togedemon; up to four events of Spotify, two clicks, one fault, five in all; channels of one | tally, skipped connections; page shows, page hears, sound goes live | channels of one lose a frame or an event whenever two come together; a click and its opposite; a fault may be the loss of the socket, of the feed, of a stream, a refused push or a restart of the server, each with four other events around it |

Only `Parts` uses symmetry, of the accounts and of the handlers of the admin page, since it checks
invariants alone; the other runs check liveness or have sets whose members differ. Deadlock is
checked in every run but two: in `Parts` the process may have been ended by librespot-core, and in
`Clients` everything may come to rest when the bounds on what happens outside are used up.
`NoLibrespot` is FALSE in the run of `Preparer`, which allows both sources; TRUE only removes
steps.

### Fairness

`Preparer`: weak fairness for each task's own steps: tokio polls a ready task and the lock is
fair. It includes the end of a download: a librespot session that hangs for ever is excluded
by it (a listed hazard, since the code has no overall timeout there). The 60 s timeout of a
follower is *not* fair, so followers are released by their leaders alone.
`Pipe`: weak fairness for what a pump does without input, for the headers of a file (a file
never keeps it waiting) and for the reading of a listener; none for the input of a togedemon, for
a source's end or for swaps.
`Playback`: weak fairness per task; strong fairness for `PeriodicTell`, since
`WS_PROGRESS_INTERVAL` elapses again and again while the monitor polls and a page is
connected. A listener that is not there needs no telling. No fairness for the account, for
connecting, for the body of a togedemon (it may send nothing for ever), for the admin, or
for a download's end.
`SpotifyAuth`: weak fairness per task, replies included (the HTTP client times out after ten
seconds) and for the end of the wait of a 429; strong fairness for the two locks: tokio's mutex
is FIFO and `parking_lot`'s is fair every half millisecond, so whoever waits gets them although
others take them again and again. None for the admin, Spotify's user, expiry or crashes.
`Connections`: weak fairness per request, the end of an upgrade included (hyper finishes or drops
it); none for pages (they may stay for ever), the admin's switch or the signal. The second half of
`handle_admin_player` has none either: `ClearedSocketsEnd` starts where the map is cleared.
`Clients`: weak fairness for the server's tasks (the progress broadcast of every second, the socket's
start), for the handlers of the page (its socket opens, frames are read in order, a request
arrives) and for the threads of the togedemon (its waits have a timeout, a push arrives); none for
the end of a retired body, for `Prepared`, the pause timer, the feed's connection, Spotify, clicks or
faults. It is fair to single actions, so each such step is taken in the end if it stays possible.
`Parts` has no liveness property and no fairness.

## 4. What the checks found

- **`CacheOwnAudio`** (documentation of `get_path`, `cache.rs:71`): `track_path` picks the first
  name free on disk. If a file vanished and its entry was not looked up since, another track
  of that artist and title takes the name, and the first track then answers with its audio.
- **`PlaybackStale`** (`workers.rs:32`): `spawn_prepare` reads `current`, then `has_track`, then
  plays; if the monitor moved on in between, the old track streams until the next change.
- **`PlaybackNewest`** (`mod.rs:582`): the slot is swapped under its lock, the pipe after it; of
  two connections arriving together the older may swap the pipe last. `MutedPushEnds` shows
  that this heals: the muted handler ends at its next page.
- **`AuthDisconnect`** (`workers.rs:45`): `clear_session` does not take `token_refresh`. A refresh
  whose reply is under way saves its token after the disconnect, and `save_spotify_auth` creates
  the session anew, in memory and on disk.

## 5. What the models show and no run denies

The code takes no stand on these, or they are the other side of one of its choices. Each is a
behaviour of a module.

- *Orphaned file.* A crash between the rename of a finished file and the save of its entry leaves a
  file that the load ignores, the sweep of scratch files does not match and eviction never sees
  (`cache.rs:129`, `:182`, `:253`; `TrackCache`: `Rename`, `Restart`).
- *Cooldown lifted.* A request that was sent before the 429 of another and succeeds after it resets
  the shared cooldown, although the comment at `spotify.rs:434` speaks of every caller
  (`SpotifyAuth`: `TooManyRequests`, `Succeeds`).
- *Disconnected session back.* A refresh under way at a disconnect saves and caches its token, and a
  fetch that passed `use_librespot` before, or a later one once a plan check has switched librespot on again, connects the
  account anew after the reset (`Librespot`: `SaveTokens`, `CacheToken`, `AskToken`; `SessionForgotten`
  speaks of accounts that are disconnected for good).
- *Revoked session kept.* When Spotify refuses a refresh, the account is unpaired but librespot's
  session is not reset, and a fetch goes on with it until it breaks, also after another account has
  been paired (`Librespot`: `Revoked`; `SessionForgotten` speaks of disconnects). A fetch of an old
  account that fails on authentication after a new one was paired sets the cooldown for both and
  drops the new session (`librespot_src.rs:92`).
- *Exit.* librespot-core ends the process if the account is not Premium when it connects; the check
  before it narrows the window and cannot close it. Nor need it be of that account: a fetch that asks for
  a token between the two steps of a pairing (`spotify.rs:244`, `:250`) connects the old account after a
  check that may be of the new one (`ExitExcused`).
- *Silent play.* A play whose copy was pruned between its check and its opening stays silent, with
  `has_track` true, until the next track (`stream.rs:246`; `StreamCopies`: `Open`).
- *Stranded page* (`PlayerPage`: `Stranded`). A page notices a stream it should be on only by a new
  generation. So it stays silent, while the server plays, when a live stream was paused and resumed
  without a new generation; when its request was refused or cut off (also by the limit of six
  hours) within one; and when a restarted server happens to be at the generation it has noted.
- *Old track shown.* A page that reconnects after the track is gone gets no first frame and goes on
  showing it (`websocket.rs:23`; `PageShows` speaks of a track that is there).
- *Busy client.* A togedemon whose server says playing while no Spotify sounds on its machine cuts
  every wait short and searches for a sink in a loop (`togedemon.rs:79`).
- *Set-up.* Two browsers that set up at the same time may overwrite each other's password, which was
  then still entered twice; a failed save leaves the password in memory until the restart.

## 6. What is proved

All for arbitrary sets of tracks, tasks, connections, sizes and limits, from the named
assumptions of each module (sentinels are not members, process sets are disjoint, sizes and
limits are natural numbers, sets that are counted are finite) and from nothing else. The bounds that
a run gives its clocks, pages, grants and outside events are constants too, so the theorems hold for
any of them.

`TrackCacheProofs` - `TypeCorrect`, `QueueIsPermutation`, `TotalNeverDrifts`,
`EvictionSuffices`, `EvictionIsLru`, `FreshTrackSurvives`, `CrashLosesNothing`. Neither the queue nor the total is inductive by itself: `Put` and `Remove`
subtract a size with `max(0)`, which loses nothing only if the total is the sum, and
`Retain` removes one position, which suffices only if ids are distinct. `IInv` is
`Shaped /\ Counted /\ WithinLimit`: types with the permutation and `Held` (while the mutex
holder is about to drop a track, it is still an entry); total = sum, with the finiteness of
the bytes; and the limit, which needs both: when the queue is empty no entry is left, so the
total is 0 (`EmptyQueue`). Lemmas give the length, range and distinctness of `Retain`,
`Append` and `Tail`, and the cardinality of `Bytes` when an entry comes, goes or only
changes its stamp. Three more invariants stand on this one. `Lru`: a track's stamp is no
later than the last use of any track behind it in the queue, so a hit within the gate, which
moves nothing, puts it ahead by less than the gate; a restart keeps this since it sorts by
stamp. `FreshIsLast`: the track being put is last in the queue, so when its own loop reaches
it, it is alone, and the total that exceeds the limit is its size. `Persisted`: while the
mutex is free and the last save succeeded, the saved metadata hold every entry.

`PreparerProofs` - `TypeCorrect`, `OneLeader`, `NothingWasted`, `CooldownStands`,
`Implements`, `NobodyIsStranded`. The invariant behind them ties `holder` to the one task inside
`download_lock`: only it is between "recheck" and its end; the checks it has passed so far
still hold, because cooldowns are written by tasks whose track is in flight, hence by
nobody else for this track, and the cache gains tracks only from the lock's holder.
`Implements` proves that initial states and every step map to `FetchPolicy`.
`NobodyIsStranded` is the half of `EveryCallReturns` that needs no fairness: whoever waits, waits for
somebody who is there. A follower has a leader that prepares its track or is about to drop the
sender (`Followed`), a leader that wants `download_lock` is in its queue exactly once (`Queued`), and
the lock is held from inside (`Inhabited`).

`PlaybackProofs` - `TypeCorrect`, `TokensAgree`, `AloneInStep`. Of tokens: between taking the slot and releasing it, a
connection is in the slot exactly while its token is not cancelled, and a taken slot belongs to a
handler that will release it. It is what the comment at `mod.rs:582` relies on; the invariant
adds what a handler may be doing (`via`) and that a connection which has not yet taken the slot
is neither in it nor cancelled. Of the monitor: `InStepAlone` speaks of rest, and its invariant
`Alone` of every step on the way there. When nobody else takes part, all others stay idle and the
slot stays empty (`Solitude`), and the monitor is on its `Course`: a file that streams is the track
the monitor knows, and that track plays (`Steady`), except in two places. From a new track to the end
of `switch_track` the old file may stream, which `Stop` or `PlayTrack` ends before anything is told;
from a seek to the comparison of the playing flags a file may have been started for the new flag or
stream on for the old one, which `Flip` settles. Why `PlayTrack` starts the right file is `Agrees`
and `Follows`: the snapshot it works from is still what the monitor has noted. There is one lemma for
each step of the monitor, and `CastStays` says that no other step moves what the invariant reads.

`PipeProofs` - `TypeCorrect`, `CountIsRight`, `Implements`. The invariant says how far store and
send may be apart (`PumpInStep`), where the burst may begin (`BurstInStep`), and, for a
listener, that what it has yet to read of its prefix is a run of pages up to the item before the
one its receiver reads next (`RunUpTo`, in `ClientInStep`). That run is what makes the prefix
and the broadcast join without a gap or a repetition; it is established by `Subscribe`, which
needs the prefix copied by `AddClient` to be still up to date, hence the mutex.

`ConnectionsProofs` - `TypeCorrect`, `TallyIsRight`. The tally alone is not inductive: the caps need
it and it needs the types, and that a place is given back at most once needs a socket that
listens to be open (`ListenersOpen`), since `Unmap` forgets it otherwise. Two lemmas carry the
argument: `Gain` and `Lose` say what `Plus`, and `Minus` or `Saturating`, make of the tally when one
connection enters or leaves what is counted; in `Lose` the count is positive because that
connection is in it, so no subtraction is ever cut off at zero. All other steps move a request
between places that are counted alike (`StaysCounted`).

`SpotifyAuthProofs` - `TypeCorrect`, `LocksExclude`, `FileFollows`, `TokensAreHonoured`. `Locks`
says that each of the two locks names the one task inside it, or nobody (hence `LocksExclude`: no
lock is left taken, and no circle of waits, since who holds `WRITER` waits for nothing), and `Jobs` what a task carries at
which step. For the file, `Snapshots`: the task between `Update` and its save holds what memory holds,
since only `Invalidate` changes memory without `WRITER`, and it changes no session. For the tokens
the invariant `Honour` follows the latest rotation of a grant through everything that may hold it: memory
(`AuthGood`), the file (`DiskGood`), the reply that a task has yet to store (`Arrived`) or to save
(`Lands`), and a pairing under way (`PairsFresh`). A token in memory is accepted,
or its successor has arrived with the holder of `token_refresh` (`Good`), or the grant is excused; the
file may be behind until the save under way has ended. A crash is the step that needs most of it:
it drops memory and every task, so the file must hold a good token, or what was lost must have been
unwritten (`Unwritten`), which excuses it. `Issued` says that Spotify knows every rotation that is anywhere.

`ClientsProofs` - `TypeCorrect`, `TallyIsRight`, `SkippingIsSafe`, `NoFutureIsKnown`. `Page`: a
socket that is not open has no frames and no tally (`Closed`), so the one that opens starts level, and
from then on the last frame is what the page does. `SkipIsSafe` needs to know where a noted generation
comes from: no frame on its way (`Announced`) and nothing the page has kept (`TrackNoted`) is ahead
of the server, what an earlier run of it said set apart; and `AudioNoted` places the pipe that the page
hears by the generation it has noted: at that one or later while it hears, before the current one once
it has ended. So a note of the current generation leaves no pipe but the current one. Of the server's
steps it takes no more than that the generation never goes down and is what is told (`Grows`).

`PartsProofs` - theorems about each part, then about their composition.
*Librespot*: `FetcherTypes`, `SessionIsForgotten`, `ExitIsExcused`, `RefusalsStayOwn`. Each
property needs what is true of a fetch on its way there. `Forgotten`: a token is carried only
under the mutex, so a reset, which needs the mutex, finds none, and an account in `left` is neither paired
nor in the cache nor being refreshed, so no token of it can be had until it is paired again. `Excused`: a refresh runs only while the cache is empty,
so as long as a check has no excuse the cache and the refresh hold nothing but tokens of the account
of the fetch, the one the plan is asked with among them; once the check is done, that account is
Premium unless its plan changes. `Own`: what is refused belongs to the account of the session, and
a download goes on with that session or with none beside it.
*Login and set-up*: `FormsTypes`, `GuessesAreBounded`, `PasswordWasRepeated`. `Registered`: at every
address, wrong answers and open attempts together are registered. It is about a cardinality, so each
step says how the set of open attempts changes; a success empties it (`ForgiveRegistered`). `Repeated`
adds to the property that the saved hash was entered twice too, which a restart goes back to.
*Stream copies*: `CopiesTypes`, `CopiesAreWhole`, `PrewarmingIsExact`, `MemoryIsBounded`. `Whole` says
that a scratch file about to be renamed is complete; a step of another task cannot touch it, because
names start with the task. For the set, `Purpose` ties the states of a task to what it runs for. For
the bound, `Fits` counts the copies against the limit and the tasks that have yet to prune: a rename
adds at most one to both sides, because no two copies have one name (`Listed`), and a prune takes
from the copies before its task leaves the count. `Owned` gives every scratch file the task that
writes it.
*yt-dlp*: `YtdlpTypes`, `AttemptsAreBounded`. `Excusable` counts, at every point of the loop, the
runs so far against the reasons there have been (`Reasons`: the update, the 403, one sign-in and one
more for every removal of the cookies), with one reason in hand where a run is about to start.
*Together*: `PartsRefine` shows that a step of one part leaves the variables of the others alone, so a
behaviour of `MCParts` is a behaviour of each; `TypeCorrect` and `AttemptsAreBounded` of the
composition follow from it.

Only model-checked: the liveness properties, which rest on fairness and so on ENABLED, out of the
prover's reach: `EveryCallReturns`, `MutedPushEnds`, `SilenceEnds`, `GenerationIsTold`,
`RetiredBodiesEnd`, `EveryRequestEnds`, `ClearedSocketsEnd`, `ShutdownEnds`, `PageShows`,
`ListenerHears`, `SoundGoesLive`. Every invariant, action property and refinement that a passing run
checks is proved. No module uses a recursive operator.

## 7. Assumptions and what is not modelled

- The wall clock never goes back (`now_unix`); with it, stamps would order wrongly.
- One fetch at a time: all fetches are under `download_lock` (shown by `Preparer`).
- A metadata file that does not parse is treated by the code as an empty cache; not modelled,
  since it is written to a temporary and renamed.
- `track_path` goes on to any index; the model stops at `MaxIndex`.
- Bit rates, loudness, ffmpeg, rsgain, search and scoring, HTML and wording: no state of their own.
- *Admin page*: forms and polling. The requests it sends are in the modules of what they change.
- *Spotify parsing*, `types.rs`: functions from JSON to values, without state; the replies are
  Spotify's, and a model of them would repeat the field names.
- The audio network protocol is librespot's; the capture process and the formats of `pactl` and
  `pw-dump` are those of the togedemon's machine.
- The metadata and host caches of the Spotify client hold values that are asked for again.
- The address behind forwarded headers is a pure function of a request (`ClientIp` in `Connections`).
- One togedemon in `Togedemon`, one page in `PlayerPage`; several togedemons are in `Playback`, several
  listeners in `Pipe`, several sockets in `Connections`. Pages do not meet but in what these count.

## 8. Plan

Done: all components whose correctness depends on order, as listed above. What remains, in order:

1. Proofs: the half of the other liveness properties that needs no fairness, as action properties: a
   muted push stays cut off until it ends, a cleared socket gets no sender back, a retired pipe gets
   no page (for `MutedPushEnds`, `ClearedSocketsEnd`, `RetiredBodiesEnd`).
2. `Playback` with the shutdown and with the end of a push's drain; `Pipe` and `Playback` composed
   for a file whose pump fails: `has_track` stays true and nothing retries.
3. Pure: poll interval, client address, against reference definitions over bounded inputs.

Runs of new modules share instances with `casts` where they can, so that one run stays one
question.
