# Verification of remotectl

remotectl is a remote-desktop system. An **agent** (`agent/`, Go) runs on the
controlled machine, a **viewer** runs in the Flutter app (`app/`) or in a browser
(`client/`), and a **relay** (`server/main.go`, Go) introduces them: it
authenticates agents, lists devices, accepts viewers and passes their
signalling. Video, input and chat then go over a WebRTC peer connection. The
Flutter app can also host the agent as a child process.

This directory holds TLA+ models of these programs, configurations that
model-check them with TLC, and theorems about them that TLAPS proves.

## 1. Inventory

| Part | State it keeps | Operations | Interacts by |
|---|---|---|---|
| Relay hub (`server/main.go`) | `Hub.agents`; per agent connection `viewers`, `send`, `closed`; per viewer connection `agent`, `send` | `handleAgent`, `handleViewer`, both `readPump` and `writePump`, `addViewer`, `removeViewer`, `Agent.close` | WebSocket messages, send channels, `Hub.mu`, `Agent.mu` |
| Token store and admin API (`server/main.go`) | token map, configuration file, login sessions | `verifyHMAC`, `saveTokens`, tokens create/update/delete, login | HTTP handlers, file |
| Agent core (`agent/main.go`) | connection, `send`, `sessions`, `rtcPeers`, `chatDCs`, `pendingIce` | reconnect loop, signal goroutine, `run`, `dial`, `authenticate`, `readPump`, `writePump`, `startRTC` and its callbacks | relay messages, WebRTC callbacks, five mutexes |
| Capture pipeline (`agent/main.go`, `agent/pipeline/`) | `g_running`, `g_encoder`, `g_pic_in`, capture thread, `gFrameCh`; back-off of the pump | `encodePump`, `drainPipeline`, `Start`, `Stop`, capture thread | C globals under one mutex, a channel, a context |
| Chat and files (`agent/main.go`, `chat_service.dart`, `hosted_chat_service.dart`) | ack completers, `fileRx`, files on disk, messages shown | `_sendBytes`, `detach`, `handleChatDCMessage`, `saveChatFile`, `sendFileFromPath`, host's `_handle` | DataChannel, lines on stdin and stdout |
| Viewer session, browser (`useRemoteSession.ts`, `ControlPage.tsx`, `crypto.ts`) | refs to socket, peer connection, data channels and key; state, error and stream of the page | `connect`, `disconnect`, unmount, the cases of `onmessage`, `onclose`, `onerror`, `sendInput` | relay messages, WebRTC callbacks, event loop |
| Viewer session, Flutter (`remote_session.dart`) | socket, peer connection, crypto session, state, timer | `connect`, `disconnect`, `_onMessage`, `_handleRtcOffer`, `sendInput` | relay messages, WebRTC callbacks, event loop |
| Device history (`ControlPage.tsx`, `ConnectPanel.tsx`) | list in memory of each tab, list in `localStorage`, form and dialog | `loadHistory`, `saveHistory`, `handleRemoveDevice`, submit | `localStorage` shared by tabs, the session's state |
| Remote screen, browser (`RemoteScreen.tsx`) | toolbar and its timer, swap, touch gesture, long-press timer, virtual keyboard, latched modifiers | mouse, key and touch handlers, `toggleKeyboard`, `sendSpecialKey` | DOM events, timers, input events to the agent |
| Admin page (`AdminPage.tsx`) | login token, agents, token table | `handleLogin`, `fetchTokens`, polling, add, update, delete | HTTP requests answered in any order |
| Hosting app (`agent_service.dart`, `main.dart`) | agent process, status, log | `start`, `stop`, exit handler, the two quit paths | child process, window events |
| Input (`agent/input/`, remote screens) | keys, buttons and modifiers that are down; pointer gestures | `Inject`, gesture handlers | input events, system calls |

**What is hard here.** The relay and the agent are goroutines around mutexes that
are released between a decision and its effect: a count and the message that
carries it, a lookup and the registration, the end of a connection and the
replacement of it. Every channel to a writer drops when it is full. Connections
are replaced while goroutines of the old one still run (relay: two handlers of
one device; agent: `startRTC` and `encodePump` of the last run against the maps
and the pipeline of the next). Shutdown races with reconnecting. Capture threads
die silently. File transfers wait for acknowledgements that may be lost, late or
meant for another window. The Dart and browser code gives up the event loop at
each `await`. PROJECT.json lists these hazards with their lines.

**What makes each part correct.**

* Relay: a live, registered connection can be found by viewers; each message
  stays in the session it was sent in; nothing of a viewer reaches an agent that
  was not told of it; viewer maps leak nothing; dead connections disappear.
* Agent: only present viewers can inject input; departed viewers leave nothing;
  every accepted ICE candidate reaches the peer once; a viewer gets its offer; a
  dead connection is replaced; a stop signal stops.
* Pipeline: no thread encodes with a closed or shared encoder; ended pumps leave
  nothing running; dead capture is retried; a cancelled pump ends. The code keeps
  the first and the last of these only as long as the start of one connection does
  not cross the stop of the one before (section 4).
* Chat: "done" means received in full; files on disk are whole; no silent wait;
  every transfer settles; saved files stay, but for two of one name that end at once.
* Viewer session: one session at a time owns the socket, the peer connection and
  the screen; none survives `disconnect` or leaving the page; an input reaches the
  machine it was made for; a wait ends once it is answered or cut off.
* Device history: each tab keeps the list it made; a write replaces the whole
  list; the device on the screen is in it.
* Tokens: the file and the map agree as far as the disk lets them; the page shows
  the table of the server and leaves a login the server forgot.
* Remote screen and input: what is down on the remote machine is down under the
  hand; a touch is one gesture; a latched modifier is seen.
* Hosting app: at most one agent process, none after quit; the status is that of
  the process of the moment.

## 2. Modules

| Module | Models | Checked by | Proved in |
|---|---|---|---|
| `Relay` | hub, handlers, channels and writers of `server/main.go` | `MCRelay` | `RelayProofs` |
| `DeviceDirectory` | abstract: who owns a device, whom a viewer is bound to | `MCRelay` (refinement) | `RelayProofs` |
| `AgentCore` | the connection of the agent and its per-viewer state | `MCAgentCore` | `AgentCoreProofs` |
| `ChatTransfer` | file transfer, viewer to agent to disk to hosting app | `MCChatTransfer` | `ChatTransferProofs` |
| `Pipeline` | capture pump and x264 pipeline, Linux and Windows | `MCPipeline` | `PipelineProofs` |
| `BrowserSession` | the viewer session of the web client, its key agreement and its input paths | `MCBrowserSession` | `BrowserSessionProofs` |
| `RemoteScreen` | mouse, keyboard, touch and virtual keyboard of a session, with the keys Windows leaves down | `MCRemoteScreen` | `RemoteScreenProofs` |
| `DeviceHistory` | saved devices, form and dialog of the web client in several tabs | `MCDeviceHistory` | `DeviceHistoryProofs` |
| `TokenAdmin` | the admin page, the admin handlers, the token map and its file | `MCTokenAdmin` | `TokenAdminProofs` |

Each component module also defines a few slips (`BlindAgentWithdraw`,
`HastyStopJoin`, ...): forms of one of its operators that a plausible bug would
give it. They occur in no specification; each property is tried against one of
them to see that it can fail.

### Relay

An element of `Agents` is one agent connection (one `*Agent`), an element of
`Viewers` one viewer connection; a device that reconnects uses another element.
`aPC` and `vPC` say where the handler goroutine is: every critical section under
`Hub.mu` or `Agent.mu` is one action, and what follows the unlock is another
(`AgentPublish` / `AgentRegistered`, `ViewerAdd` / `ViewerAnnounce`,
`ViewerRemove` / `ViewerAnnounceLeft`, `AgentReject` / `AgentRejectClose`, the
three parts of the deferred function `AgentNotify` / `AgentWithdraw` /
`AgentClose`). `aSend` and `vSend` are the channels; `Offer` is `sendJSON` and
drops when full. `AgentReadFails` and `ViewerReadFails` are enabled at any time
in `readPump` (the peer goes, a deadline passes). HMAC and password checks are a choice between
acceptance and refusal. A message is its type and viewer; the field `from` of a
viewer message is a ghost that names the connection that sent it. `aTold` is the
last viewer event the remote agent has read, with its count, and the ghost
`aChange` the event that changed `Agent.viewers` last. `missed` is a ghost: the viewers
whose channel was full when `agent_offline` was sent to them.

`DeviceDirectory` is what the relay promises: one owner per device, an owner
that was superseded or left never comes back, and a viewer is bound once, to the
owner of the moment. The refinement mapping is `owner <- agents`,
`session <- vAgent`, and `retired` is the set of connections that were
published and are not the hub's entry.

### AgentCore

`loop` is where `main`'s reconnect loop and `run` are, `epoch` numbers the
successful dials, and `send`, `writer` and `alive` are per connection, since
`writePump` captures its connection and channel while `enqueue` uses
the channel of the moment. `start[v]` is the `startRTC` goroutine of a viewer,
cut at each critical section and each `enqueue`; `reader` is the `viewer_left`
case, which takes three mutexes in turn. `Return` is the reset of the three maps
between connections. What can be received is what the relay and an honest viewer
send: joined first, an answer per offer heard, left last. Cryptography, SDP and
ICE are choices of success or failure; a candidate is counted. `hasty` is a
ghost that records the viewers that left while their `startRTC` was running.

### ChatTransfer

Each stretch of `_sendBytes` between two awaits is an action; `HandleAck`,
`Detach`, `ChannelCloses` and `AckTimeout` fall between them. The two directions
of the DataChannel are sequences. `saver` is a `saveChatFile` goroutine
in two steps, the look at the name and the write; the write may fail and leave a
file with part of the chunks (`SaveFails`). All files have the same name,
the case that matters: the first takes it, a file that finds it taken takes a name of
its own, made of the time (`time.Now().UnixMilli()`; two such names are assumed to
differ, so two files within one millisecond are outside). `got` is a ghost: all chunks the
agent accepted. `raced` is another: files that looked at the name before one of them
had written it.

### Pipeline

One pump per run of the agent (`pump`), one capture thread and one encoder per
successful start. Critical sections under `g_mu` are single steps; the check of
`g_running` at the head of the thread's loop, `pthread_join` and the clean-up
after it are outside. A run does not wait for the pump of the run before
(`go a.encodePump`), so the pumps of two connections are anywhere at once: one may ask
for a start while the other waits in `pthread_join` (`Channel` comes before `Start`, as
`gFrameCh` is replaced even when C refuses). `windows` chooses the build: there
the stop may stop waiting after 3 s (`StopGivesUp`). Two ghosts name what can go wrong
then: `crossed`, the last start came before the stop before it was done, and
`forsaken`, the threads a stop gave up waiting for. Pixel formats, keyframe requests and
diagnostics are left out. How long a back-off lasts is left open, and with it the kick by
which a viewer's channel cuts one short.

### BrowserSession

A session is one call of `connect` that gets past its checks, and has a number. The
refs of `useRemoteSession` (`ws`, `pc`, `e2ee`, `inputDC`, `inputMoveDC`) hold
such a number or `Null`; the socket, the peer connection (`peer`), its channels
(`chan`) and the key go by the number too, so that a handler of one session that
writes or reads a ref of another is seen. `KeyOffer`, `KeyDerived`, `KeyAnswered`
are the three stretches of the `key_offer` case between its awaits (`kx` says
where it is), `RtcOffer`, `RemoteDescriptionSet`, `RtcAnswered` those of
`rtc_offer` (`rtc`), `SendSealed` and `Sealed` those of the fallback of
`sendInput`. `CloseEvent` clears both refs whatever they hold, as `onclose` does;
`lost` is a ghost that records the sockets forgotten that way, and the properties
that this breaks are stated for the behaviours in which it has not happened. `late` is
another: the sessions whose key was derived when a later session had begun, so that it
may have replaced the key of that one. A `connect` whose `new WebSocket` throws
(`ConnectThrows`) is a session without a socket. The
relay and the agent behave as in `Relay` and `AgentCore` seen from one viewer:
accepted, then a key offer, then an offer, or dismissed, or closed, at any time, or
never anything at all.
Keys are abstract: `DeriveSessionKey` gives one key per session, and only that key
opens what it sealed.

### RemoteScreen

`held` is what is physically down under the hand, `down` what the remote machine
takes to be down; both change by the same events only while the video has the
focus. `KeyDown` and `KeyUp` are the keyboard cases of `inject` in
`inject_windows.go`: modifiers first, then the key if it has a code, and all of
them released together. `slips` is a ghost that names the ways in which the two
can come apart (focus lost, the swap of Ctrl and Cmd, Ctrl+Alt+Delete, a button
released off the video, the end of the session). A touch is `fingers`, `far` (how
far the first has moved), and the refs of the component; `gesture` is a ghost of
what it has done. A long-press timer that is overwritten without being cleared
goes on as `strayTimer`. `cancelled` records a `touchcancel`, which the component
does not handle. Coordinates, the wheel, paste and the hint are left out, and so is
the right click of a long-press timer that is still set when the screen is taken away
(the clean-up at `RemoteScreen.tsx:75` clears only the timer of the toolbar; at most
600 ms).

### DeviceHistory

`store` is `rc_history` in `localStorage`, `history[t]` the list a tab has in
memory. `Connected` is the effect of `ControlPage` on `connected`, `RemoveDevice`
the confirmed dialog; both write the tab's own list over the whole store
(`Write`). The session is seen by its state only, and that moves in the order
`ScreensInOrder` of `BrowserSession` allows: `Connected` and `SessionFails` may come
in any state once an attempt was made, since a late handler, or a socket the refs
have forgotten, brings them even to a page that is idle. `log` is a ghost, what the tab did since it loaded, from which
`Remembered` computes the list it ought to have without mentioning a list.

### TokenAdmin

`flight` lists the requests under way in the order they were sent; the server
serves them in any order (`Serve`), the page hears the answers in any order
(`Answer`) or not at all (`Lose`). `Apply` is a handler's critical section,
`CopyTokens`, `ReadConfig`, `Truncate`, `WriteConfig` are `saveTokens` step by
step (`os.WriteFile` truncates, then writes). Each step that asks the disk may fail:
the read and the open leave the file as it was (`GiveUpSave`), the write leaves some of
its lines (`Parts`), and the handler answers 201 or `ok` all the same, as the code
ignores the error. `Rewritten` is what the rewriting of the YAML text does to the
file: the token lines are replaced, everything else that was read is kept. `Restart` is
a crash with the start after it: sessions are gone, the map is what the file says.

One page is modelled with all it keeps. Other pages may be open with logins of their
own; of those there are the requests that change a token (`OthersWrite`,
`OthersAnswered`), which the server takes like those of this page. What such a
page shows is the same module again.

The ghosts name the races outside which the properties hold: `overlapped` (two saves
at once), `cutShort` (a write of the file failed, or a crash fell between truncating
and writing), `unsaved` (the last save could not read or open the file) and `behind`
(an answer that the table needs was lost or overtaken, or another page has changed a
token since; tokens are not polled).

Assumed of the file: there is one (without `-config`, `saveTokens` returns `nil` at line
882 and nothing is kept over a restart); its tokens are one block without a blank line
or a line at column 0, as `saveTokens` writes it (a hand-edited block with such a line
would end there for `saveTokens`, and the rest of it would stay behind the new block);
identifiers and secrets come back from `%q` as they were.

## 3. Runs

| Run | Instance | Shows |
|---|---|---|
| `relay_safety` | 1 device, 2 agent connections, 1 viewer, one kind of signalling each way, capacities 2 | types and channel bounds, `LiveAgentIsReachable`, `SignallingIsIsolated`, `ViewersAreHeardInOrder`, `NoGhostViewers`, `CountSettles`, and the refinement of `DeviceDirectory` |
| `relay_liveness` | the same with fair handlers, signalling from the agent only, capacities 1 | `DeadConnectionsDisappear` (a dead agent leaves the hub, a closed viewer its agent's map), `MembersHearOffline` (a viewer in the map hears `agent_offline` unless its channel was full at that moment) |
| `relay_offline` | 1 agent connection, 1 viewer | finding: a viewer is never told that its agent is gone |
| `agent_reconnect` | 1 viewer, 2 connections, 1 candidate each way, capacity 3 | safety of the maps across reconnects, `CancelledDialsOnce`, `OfferReachesViewer`, `DeadConnectionIsReplaced` |
| `chat_transfer` | 2 files of 0 to 3 chunks, window 2 | `WhatIsReportedIsWhole` (done means received; a saved file stays, whole, unless one that raced with it takes its name), `WindowIsHandedOver` (no more than a window unacknowledged, no wait without a cause), `EveryTransferSettles`, `DoneReachesTheHost` (the host shows what was done, and has it on its disk, unless the disk refused it or a file that raced with it took its place) |
| `pipeline` | 2 runs whose pumps overlap, 2 starts, delays 2 to 3, both builds | `EncoderUsedAloneWhileOpen` (but for a start that crossed a stop, and threads Windows gave up), `NothingLeftRunning`, `CaptureIsRetried`, `CancelledPumpsEnd` |
| `browser_session` | 2 sessions, 1 input | `OneSessionLives` (one socket and one peer connection, none once the session is ended, the screen and the error are those of the last session), `InputGoesWhereShown`, `OnlyUnansweredWaits` (a page that stays `connecting` threw at the address or was sent no offer) |
| `device_history` | 2 tabs, 3 devices, 2 passwords, lists of 2, 3 writes | `HistoryIsKept` |
| `screen_input` | 2 keys, one of them without a code, 3 modifiers and a button, 3 held at once; 2 fingers | `KeysFollowTheHand`, `TouchDoesWhatItShows` |
| `admin_table` | 1 device, 1 secret, 3 requests under way, 2 writes of this page or others, failing saves, 1 login, 1 crash, no polls | `FileFollowsTheMap`, `QuietPageShowsTheTable` |
| `admin_login` | 3 logins, 3 requests, 1 poll of a login at a time, 1 crash, no writes | `KnownLoginStays`, `DeadSessionIsNoticed` |
| `admin_save` | 2 writes, no crash, no polls | finding: two saves at once lose the rest of the file |

**Why the bounds are enough for the cases that matter.** Two connections of one
device are a replacement and the late clean-up of the replaced one; the relay
compares an entry only with the connection at hand, so a third adds no new
comparison. Viewers of an agent meet only in its map and its channel; for the
safety properties the proofs cover any number of both. (That counts overtake each other
takes two viewers: `CountSettles` is proved for any number.) Capacities of 2 let each
channel be full with one message per source; in `relay_liveness` capacities of 1 make
it full with a single message, so that `agent_offline` is dropped as well as heard.
The agent's viewers meet only in its channel and the reader, so
`agent_reconnect` takes one viewer through two connections; capacity 3 holds all
that one viewer is sent (`key_offer`, `rtc_offer`, one candidate), because
`OfferReachesViewer` is about channels that are not overrun: a full channel
drops the offer and nothing sends it again (PROJECT.json, hazard at
`enqueue`). Three chunks with a window of two make a full window, a
part window and a transfer that is no multiple of it. Two runs and two
starts are a stop of one connection and a start of the next in any order, and a restart
by the watchdog in either; what a pump does depends on whether another one is there, not
on how many (with three starts the safety properties were checked once, over 10.8
million states, which is too long to repeat each time; the proofs have no bound). Delays
2 and 3 stand for the 3, 6, 12, 24, 30 s of the code: the doubling passes the cap and is
cut.
Two browser sessions are one whose handlers and events come late and one they can
disturb; a ref holds one of the two, and no handler compares three. An input in
either session takes each path. A list cut at two with three devices makes an
entry fall out, and three writes let one tab overwrite the other and be read
again. Three keys held at once are two modifiers and a key (Ctrl+Alt+Delete) or a
modifier, a key and a button; a third finger does what a second does. Three
requests under way are two writes and a list, or answers of three logins in a row.
`admin_table` has one device and one secret: saves write the whole map, and
what they mix up is one save with another, not one device with another. It has no polls,
as they ask for the agents and not for the tokens; `admin_login` has them, where their
answers matter.

Deadlock is not checked: in each instance the numbered connections, files,
sessions or starts are used up and the system may then stop.

**Fairness.**

* Relay: handler goroutines run, and `ReadMessage` fails once the socket is
  closed. Nothing is assumed of peers or of the writers: a peer may
  stop reading for ever. A handler is not held up by that, as `sendJSON` does not
  block, so dead connections disappear all the same; but it drops instead, and a viewer
  whose channel is full does not get `agent_offline` (`missed`).
* AgentCore: the loop, the signal goroutine, `startRTC` and the writers run.
  `ReadMessage` ends on a closed connection, and on one whose writer has ended,
  since only pongs move the 60 s read deadline. A successful dial is not assumed.
* ChatTransfer: event loops and goroutines run, timers fire, and the app reads
  the output of the agent. The operator and the network are free.
* Pipeline: pumps and capture threads run, the display answers or fails, and
  the 5 s watchdog fires. A start may fail for ever, connections come and go freely,
  and a join returns only when its thread has ended (or, on Windows, gives up).
* BrowserSession: the browser opens or fails a socket and reports its end,
  promises of an open peer connection and of WebCrypto settle. Nothing is assumed of the
  user, nothing of the relay and the agent (section 4 has two ways in which they never
  answer), and nothing of a promise on a closed peer connection, which may never settle.
* TokenAdmin: the interval of the page fires; the server handles requests and
  their answers come back again and again (strong fairness, since a crash, a lost
  answer or a full bound may disable a step in between). Single requests and
  answers may be lost for ever.

Elsewhere weak fairness suffices: each of these steps stays enabled
until it is taken or its purpose is gone. `DeviceHistory` and `RemoteScreen` are
driven by the user and have no liveness.

## 4. Findings

Two runs end in a violation of what a comment of the source says:

1. **`relay_offline`**: `handleViewer` looks the agent up, and registers the viewer
   with it later. If the deferred function of the agent's handler runs in
   between, the viewer is connected to a dead agent and never hears of it.
2. **`admin_save`**: `saveTokens` reads the file and rewrites it without a lock, and
   `os.WriteFile` truncates first. A second save that reads in between sees an
   empty file and writes nothing back but the tokens: the admin password and all
   other settings are gone at the next start.

The following were met while modelling. The models have these steps, and the
properties are stated for the behaviours without them or name the exception:

* Viewer counts are computed under the mutex and queued after it (`main.go:309` of
  the server), so with two viewers an agent can be left with a stale count, and a
  full channel drops an event. `CountSettles` says that the count is wrong only
  after one of these: its premise is that the agent heard the event that came last.
* A viewer whose channel is full when its agent goes away never hears `agent_offline`
  (`server/main.go:745`), and nobody repeats it (`missed`).
* The device is visible to viewers before `registered` is queued
  (`server/main.go:658`), so `viewer_joined` may come first, which the agent takes
  for a failed authentication.
* `viewer_left` does not wait for `startRTC` (`agent/main.go:553`), which may then put
  its peer connection and chat channel into maps nobody cleans; `hasty` names
  these viewers.
* The signal goroutine closes the connection of the moment once
  (`agent/main.go:1455`); one that is being dialled is served first.
  `CancelledDialsOnce` says it is one at most.
* The test for an existing file and the write are not atomic (`agent/main.go:682`):
  of two files of one name that end together one survives, although both are reported
  to the host as saved and the comment at 681 says "Avoid overwriting an existing file
  with the same name" (`raced`). A write that fails leaves the part it has written.
* The pump of the last connection is cancelled, not waited for (`agent/main.go:1009`).
  The `Start` of the next may find the pipeline running, which the comment at 1002-1004
  means to exclude. Or it comes while `Stop` waits for its thread: that thread finds
  `g_running` set again, goes on, and takes the encoder of the new start next to the new
  thread; `Stop` stays in `pthread_join` for as long as the new run lives, or, when the
  thread ends after all, frees `g_pic_in` under the new one (`crossed`). On Windows
  `Stop` gives up after 3 s and closes the encoder of a thread that still runs
  (`pipeline_windows.c:296`, `forsaken`).
* The close event of an old socket clears the refs to the new one
  (`useRemoteSession.ts:204`): the new socket lives on with nobody to close it, the
  sealed input path is gone, and `disconnect` does not reach it (`lost`).
* The key of an earlier session that is derived late replaces the key of the present one
  (`useRemoteSession.ts:92-95`). Inputs on the sealed path then cannot be opened by the
  agent, which drops them, until the next `connect`; none is ever carried out by another
  machine (`late`).
* A page may stay `connecting` for ever: when the address makes `new WebSocket` throw,
  when the relay or the agent sends no offer (a full channel drops it, and `startRTC`
  returns silently on an error, `agent/main.go:419-435`), or when the socket is closed in
  order before the offer, since `onclose` (204) leaves the state alone.
* A handler that was overtaken at an await and then fails shows its error on the
  page of the next session (`ErrorIsOwnOrLate`).
* With the swap of Ctrl and Cmd on, a modifier's own event carries the other one,
  which its keyup does not always release; a key that goes up without the focus,
  a button that goes up off the video, a Ctrl+Alt+Delete and the end of a session
  leave keys down (`slips`).
* A `touchcancel` leaves the long-press timer set (`RemoteScreen.tsx:188`), and the
  next touch overwrites it without clearing it, so that it is a right click in
  the middle of another gesture (`cancelled`). The timer also outlives the screen: the
  clean-up at line 75 does not clear it.
* A 401 that answers a request of an earlier login drops the present one
  (`AdminPage.tsx:82`; `KnownLoginStays` allows just that), and a list that is
  overtaken leaves the page with an old table until the next fetch (`behind`).
* Each tab writes the list of devices it has in memory over the whole of `rc_history`
  (`ControlPage.tsx:28`), so what another tab saved is lost and what it removed may come
  back; `HistoryIsKept` permits that between tabs.
* Tokens are fetched after a change and never polled, so a page does not see what another
  page changes until it asks again (`AdminPage.tsx:95-101`, `behind`).
* The handlers ignore the error of `saveTokens` (`server/main.go:964`, 987, 1002) and
  answer 201 or `ok`: the change is in the map and gone at the next start (`unsaved`). A
  write that fails half way leaves a broken file (`cutShort`).

## 5. Proofs

All theorems hold for every value of the constants that satisfies the
assumptions named in the component modules: finite sets of viewers, positive
capacities, `None` outside the sets, bounds in `Nat`.

* **`RelayProofs`**. `RelayInv` joins the type invariant, four of the safety
  properties and two facts that make them inductive: `HandlersBound` (a handler
  past its checks knows its device or agent) and `HubMatchesHandlers` (the hub
  lists a connection under its own id, and only while it serves).
  `SignallingIsIsolated` needs `NoGhostViewers`, as the agent's `readPump` looks
  a viewer up in its map, and `SilentUntilAnnounced`, as binding a viewer must not
  invalidate a queued message. Each lemma (`TypeStep`, `MapStep`, `ChannelStep`)
  has one step per action. `RelayImplementsDirectory` maps every step to
  `Register`, `Leave`, `Bind` or a stutter.
  `CountsSettle` needs a second invariant on top of `RelayInv`, since the count is
  read under `Agent.mu` and queued after the unlock. `ChangeCounts`: the event that
  changed a map last is one of a viewer bound to the agent, whose handler still
  holds the count it read with that change, the size of the map unless a rejected
  viewer has yet to leave (`AllListed`). `EventsCarryCounts`: every viewer event,
  queued or read, carries the count of the handler that made it, unless that viewer
  has since left. An agent that heard the event of the last change therefore has
  the size of the map. No bound on viewers and no fairness is needed.
  `AgentsHearInOrder` adds `ToldEvents` (what the agent heard last is a viewer event
  or nothing) and `SilentOnceLeft` (in its channel, and from what it heard last on, no
  message of a viewer follows its `viewer_left` and no `viewer_joined` follows a message
  of that viewer), and with `SilentUntilAnnounced` gives `ViewersAreHeardInOrder`. It
  proves what `AgentCore` assumes of the relay: a viewer joins first and leaves last,
  but for the messages a full channel drops.
* **`AgentCoreProofs`**. `AgentInv` has nine parts. The properties fail to be
  inductive because stale entries do exist, between the loss of a
  connection and the reset, and while `viewer_left` is half done; `ReadyPlaced`,
  `LeftCleaned`, `CandidatesKept` and `DialsLeft` say where. Proved:
  `OnlyPresentViewersAreReady`, `SettledViewersAreForgotten`,
  `CandidatesReachThePeer`, `OneDialAfterCancel`, `AgentTypesCorrect`.
* **`PipelineProofs`**. No premise is made on when a run begins or how long a stop
  waits. `PipelineInv` says that the pipeline runs exactly while one pump drains it or
  is about to stop it (`OnePump`), that every other open encoder and the picture belong
  to a stop that will close it (`EncodersOwned`), that so does every live thread unless
  Windows gave it up (`ThreadsOwned`), and, as long as no start has crossed a stop, that
  the last thread is the only one and has its own encoder and picture (`CalmThread`).
  The parts need each other: that a stop may be waiting for the thread of an earlier start
  is what `CalmThread` must exclude, and that it will still close the encoder is what
  leaves nothing behind in the end. From it follow `CaptureIsExclusive`,
  `EndedPumpsLeaveNothing` and `OnlyOthersRefuseAStart`, an action property that no run
  lists: a start is refused as "already running" only over the pump of another connection.
  `PipelineTypesCorrect`.

* **`BrowserSessionProofs`**. `SessionInv` says that the socket ref is that of
  the last attempt or empty, that a session which has not begun has no trace
  (`Begun`), that nothing was asked on a socket before it opened
  (`UnopenedIsUnasked`) and that the key ref survives while the socket of the last
  session is open, as its own key or that of a session whose key was derived late
  (`KeyKept`). A sealed input is proved by `SealedInOrder`: key,
  session and socket can only come in this order, so that an input that is opened
  was sealed and sent by one session. `OneSessionAtATime`, `InputsGoWhereShown`,
  `SessionTypesCorrect`. From the same invariant follows an action property that no
  run lists, `ScreensFollowTheUser`: what a step may do to the screens. That a page
  that was left by `disconnect` stays `idle` or fails, and never shows a picture
  again, needs that an idle page has no live socket and no live peer connection
  (`OnlyTheAttemptLives`), since a late `ontrack` would set `connected` whatever the
  state is.
* **`RemoteScreenProofs`**. `ScreenInv` adds to the two properties that only a
  button can be held without being down (`OnlyAButtonUnheard`), that a timer which
  runs has a finger (`TimersHaveAFinger`) and what the gesture has done so far
  (`FingersAreCounted`, `GestureSoFar`). What is proved of gestures and timers is about
  touches since which none was cancelled: a stray timer is outside it. `NoKeyIsLeftDown`, `TouchesAreOneThing`,
  `ScreenTypesCorrect`.
* **`TokenAdminProofs`**. `AdminInv` says of each request under way that it goes
  by a login that was made, and of a refused one that its login is forgotten for
  good (`FlightHonest`, from which `LoginsAreKept`), that saves which did not
  overlap are alone (`OneSave`), and what a save at each of its steps has read and
  the file holds, unless a write failed or the last save gave up (`SaveProgress` with
  `Follows`, from which `FileKeepsTheMap`). The steps of the
  page are brought to one lemma (`CarriedInv`): requests of before in new places,
  and new ones. `AdminTypesCorrect`.
  The second half is about the table. That of a page that waits may be anything, so
  `TableInv` says what is to come: a write whose answer is missing, or else a list
  under way that is current or known to be late, and every list that is out of date
  is followed by such a one. A write of another page marks the table as `behind` and the
  lists under way as late (`OthersTable`). Answers change the places of requests; `Moved` keeps
  their order. `QuietPagesAreRight`.
* **`ChatTransferProofs`**. The two properties are far from inductive: a sender
  may end a window on any acknowledgement with its id, and the agent saves when a
  chunk says it is the last. `ChatInv` says of each transfer what of it is in the
  channel (`Stream`: received are the first chunks, on their way the next ones in
  order, and none before its `file_start`) and where its window stands
  (`Windowed`: it began with all before it received, at a multiple of `Window`, and
  there is at most one acknowledgement, only when its last chunk has come). The
  heart is `AckIsForWindow`: the agent's counter asks for an acknowledgement at the
  end of the sender's window and nowhere else, which needs a few facts about `%`
  (`InsideWindow`, `WholeWindow`). Steps about other transfers go by two lemmas,
  `StreamKept` and `WindowKept`. Of the disk, `DiskInv` says that whatever stands at the
  path of a file is its own or raced with it. `ReportsAreTrue`, `WindowsAreHandedOver`,
  `TypeCorrect`, for any number of transfers, chunks and windows.

* **`DeviceHistoryProofs`**. `Tracked` relates what a tab did (`log`) to its list:
  a strictly decreasing function leads from each place of the list to the save in
  the log it stands for, and its values are exactly the saves that count
  (`Remembered`). The argument is `SaveTracked`: after a save, those that count
  later than the `x`-th remembered one are the new save and the `x - 1` before it
  (`LaterAfterSave`), so what `saveHistory` cuts off is what `Remembered` calls
  pushed out, and nothing that was pushed out or removed comes back.
  `RemoveTracked` does the same for a removal, `RebuildTracked` for a page that
  reads the list of another tab. They rest on facts about sets in order
  (`EnumerationCounts`, `FirstOfEnumeration`) and on `WithoutAlong`, which says what
  filtering a list leaves. `HistoryInv` adds the types, that the store is one tab's
  list and that the device on the screen is in front. `HistoryTypes`,
  `SavedDevicesAreKept`, for any number of tabs and any `MaxHistory`.

The assumptions on constants that are not bounds: there is a tab
(`TabsAssumption`, without which nobody holds the list in the store), `None` is
outside the sets it is added to, and the kinds of signalling a viewer sends are
none of the relay's own three events (`KindsAssumption` of `Relay`; `readPump` of
the viewer passes only the types of its own switch).

Every safety and action property of the passing runs is proved. Only model-checked:
all liveness properties (TLAPS proves neither fairness arguments over ENABLED nor
leads-to here): `DeadConnectionsDisappear`, `MembersHearOffline`,
`OfferReachesViewer`, `DeadConnectionIsReplaced`, `EveryTransferSettles`,
`DoneReachesTheHost`, `CaptureIsRetried`, `CancelledPumpsEnd`, `OnlyUnansweredWaits`,
`DeadSessionIsNoticed`; and the two runs that end in a violation.

## 6. Not modelled, and why

* Cryptography (`session.go`, `crypto_service.dart`): library calls; the models
  keep what the code decides by their success or failure. Of `crypto.ts`,
  `BrowserSession` has which key opens what; nonces and encodings are left out.
* Landing page, translations, layout, logging, TLS, flags and embedded files: they
  keep no state a property could be about.
* Coordinates, the wheel, paste and the clipboard of the remote screen; injection
  on macOS and Linux (the state of modifiers is modelled after Windows).
* Platform calls (still capture, notifications, process spawning): no state.
* Build scripts.
* Left by the plan below: the Flutter viewer session and its screens, the hosting
  app with its agent process, chat text and the files an agent sends, the macOS
  pipeline.

## 7. Plan

Done:

1. `Relay`, `DeviceDirectory`: checked and proved.
2. `AgentCore`: checked and proved.
3. `ChatTransfer` (viewer to agent): checked and proved.
4. `Pipeline` (Linux, Windows): checked and proved.
5. `BrowserSession`: checked and proved.
6. `TokenAdmin`: checked and proved.
7. `RemoteScreen`: checked and proved.
8. `DeviceHistory`: checked and proved.

Left, in this order:

9. `ViewerSession`, the Flutter session: as `BrowserSession`, with the 15 s timer.
10. `HostedAgent`: `start`, `stop`, exit handler, the quit paths and the agent
    process. At most one process, none after quit, the status settles.
11. `ChatText`, agent files and the viewer's inbound side, next to `ChatTransfer`.
12. `PipelineDarwin`: delegates of an old stream against the start of a new one.
13. `Signalling`: the composition of relay, agent and viewer session over one
    device with an abstract specification (a viewer is offered, connected or told
    why not).
