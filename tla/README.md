# TLA+ verification of usque-android

usque-android is a Cloudflare WARP client: a Go core (MASQUE over QUIC or
HTTP/2, and WireGuard), a gomobile bridge (`src/android/usque_android.go`), and
an Android application in Kotlin (`src/android/usque-vpn`).  This directory
holds TLA+ models of its core logic, the TLC configurations that check them,
and TLAPS proofs of what matters most.

## 1. Inventory

| Component | State | Operations | Talks to |
|---|---|---|---|
| Tunnel bridge (`android/usque_android.go` 60-470) | `state` (running, cancel, callback, status, lastError) under `state.mu`; one goroutine and one `AndroidTunDevice` per successful start | `StartTunnel`, `StopTunnel`, `GetTunnelStatus`, `statusCb`, the goroutine's exit | the app (calls, callbacks), the two maintain loops |
| MASQUE maintain loop (`api/tunnel.go`) | the current connection, two forwarders per connection, `errChan`, `packetBufferPool` | dial, forward, lose, close, sleep, retry | the bridge (`StatusCallback`), the TUN device |
| WireGuard tunnel (`api/wgtunnel.go`) | the device, `wgWatchdogState`, the last handshake | set up, poll every 2 s, end | the bridge, wireguard-go |
| MASQUE connection setup (`api/masque.go`) | none of its own | one dial | quic-go, connect-ip-go |
| Android VPN service (`UsqueVpnService.kt`) | `isRunning`, `instance`, `vpnInterface`, setup threads | start command, disconnect, destroy, `onDisconnected` | the bridge, Android |
| Activities | screen state, the threads that call the bridge | polling, lists, toggles | the service, the bridge |
| Configuration store (`config/config.go`, account part of the bridge, `cmd/register.go`, `cmd/enroll.go`) | the global `AppConfig`, one file, neither guarded | load, save, register, register WireGuard, change the license | Cloudflare API |
| Cloudflare API client (`api/cloudflare.go`, `api/account.go`), models | none here; at the server devices, their keys and licenses | one HTTP exchange each | network |
| Endpoint scanner (`internal/scanner`) | the scan slot, jobs and results shared by workers | scan, stop, rank | the app's scan callback |
| MASQUE port probe (`internal/scanner/masque.go`, with the fetch and the bursts of `tunnel.go`) | one tunnel per SNI, or one for all workers of a port sweep, and the connection swapped in under it | probe ports, probe SNIs | the network |
| Strategy engine (`internal/strategy`) | the probe slot, the candidates of a run, profiles in a file | probe ladder, SNI test, save and forget profiles | scanner, probe |
| DNS (`dns_android.go`, `internal/dns.go`) | a race of dials, a race of lookups | resolve | network |
| Desktop commands (`cmd/`), tuning and helpers (`internal/`) | accepted connections, a pool of copy buffers | proxies, port forwards, front ends over `api` | `api`, `config` |

What is hard in this code is mostly **overlap**.  `StopTunnel` cancels a
context and returns without waiting; the goroutine it cancelled goes on writing
to a record that the next `StartTunnel` has taken over, and calls callbacks
read from that record.  The forwarders of a lost MASQUE connection outlive it,
because nothing wakes them.  The service runs `disconnect()` on the main thread
and on the goroutines of the bridge at the same time, while setup threads set
and clear the same fields.  A descriptor has two owners in two languages.  Then
there are the usual boundaries: the handshake age sampled by a poll, a channel
of capacity two with one receiver, workers that share jobs and results, one
tunnel or one pool used by all of them.  And **partial failure**: a reply that
is lost after the server has acted, a file that is truncated and then not
written.

What makes each part correct:

- bridge: `running` means there is a live session `StopTunnel` would cancel; the
  status shown and its error agree, and belong to the session in control; the
  device is open exactly while its goroutine may use it; a stop ends the tunnel;
- MASQUE loop: it reports in the documented order, holds one connection at a
  time, leaves no more behind than a socket per failed dial, reconnects after
  every error, leaks no buffer, blocks no forwarder;
- watchdog: a handshake and its loss are noticed within one poll and reported;
- service: the flag tells the truth once things have settled, a stop leaves
  neither tunnel nor interface, and the tunnel is stopped before its interface
  is closed;
- dial race: one winner, the other conns closed, no goroutine left behind and
  none that sends into a closed channel;
- scanner: one scan at a time, the slot is never lost, the ports found are one
  address's complete walk, the summary agrees with the rows reported;
- configuration: what is readable belongs together (key and device, the halves
  of the WireGuard identity), a reported success is in the file, and a save does
  not lose what another call has stored;
- strategy: one probe at a time, the slot always comes back, the choice keeps
  the rules whatever the stages leave behind, and what was announced is saved;
- probe: a verdict is about the target it is reported for, connections are
  closed, every target is reported once;
- proxies: streams are not mixed, an answer is delivered whole, and what belongs
  to a connection that ends is closed, or given back to net/http.

`PROJECT.json` lists the hazards with their lines, and the properties that
cover each.

## 2. Modules

```
 VpnService ──composes──> TunnelBridge <──implements── TunnelSession ──implements──> TunnelView
                                                        │ (reports only; each MASQUE session
                                                        │  implements StatusReports)
                          TunnelContract <──implements── MasqueTunnel <┄┄ carried by ┄┄ Proxy
                                                        WgWatchdog
 Strategy ┄┄ one measurement of a stage ┄┄> ProbeTunnel, Scanner        DnsRace        ConfigStore
 Strategy, Scanner ──each implements──> Slot
```

**TunnelSession** is the core: every interleaving of the API calls and of the
goroutines they leave behind.  A lock section of `state.mu` is one action
(`StartTunnel`, `StopTunnel`, `StatusCb`, `ClearRunning`); what happens outside
the lock is an action of its own (`FireCallback`, `CloseDevice`,
`NotifyClosed`).  `state` is the Go record, with session numbers in the place
of the cancel function and of the callback; `sess[s].at` is the goroutine's
program counter.  The maintain loops appear with their reports only.

**TunnelView** is what a poller of `GetTunnelStatus` may see; **TunnelBridge**
is what the service may see: which session a stop would cancel, and when a
session calls `onDisconnected`.  TunnelSession is shown to implement both.

**MasqueTunnel** is `MaintainTunnel`: the loop, and for each connection its two
forwarders over the one device.  **StatusReports** is the doc comment of
`StatusCallback` as a specification: the order of the reports.  Each MASQUE
session of TunnelSession, whose loop is reduced to its reports, implements it
(`Reports(s)`).  **TunnelContract** adds the connections behind the reports, and
MasqueTunnel implements it: a connection is held from the success or the refusal
of its attempt until it has been reported and then closed, no attempt starts
before that, and `left` counts what a failed dial leaves open.  `DialFails` may
leave its socket, because `ConnectTunnel` returns it with its error and the loop
continues without closing anything (`tunnel.go:188-194`).

**WgWatchdog** is `wgWatchHandshakes` with time in units.  The age of a
handshake is kept, not its date; ages over the limit are one value, so that
behaviours of any length are covered by a finite model.

**DnsRace** is one call of the Android resolver's `Dial`: a goroutine per
server, the closer, the race context and the caller.  The lock sections of
`winnerMu` are one action each; the channel is the sequence of dialers whose
result waits in it.

**Scanner** is `Scan` with its two phases on the worker pool, and `StopScan`.
A worker's steps are those at which it can see another's: taking a job, looking
at the context, the end of a handshake or probe, each lock section, each
callback.  `found` and `open` hold endpoints where the code keeps ports only,
so that an answer mixed from two addresses would show.  There is one copy of a
scan's locals, which `OneScanAtATime` justifies.  **Slot** is what both packages
write out by hand around a mutex and a cancel function: one call at a time, what
it starts ends before the slot is free, a request to stop is neither lost nor met
by the next call.  Scanner implements it with its busy workers as the helpers,
Strategy, until the process is killed, with the appends under way.  That no two
calls overlap (`OneScanAtATime`, `OneProbeAtATime`) follows from it.

**ConfigStore** is `config.json`, the global `AppConfig` and the server behind
them, under the application's threads or the command line.  A record is five
groups of fields in the order of the file; because nothing guards the global, a
decode and an assignment are a step per group (`Copy`).  Every function is the
same walk, `LoadConfig`, `Ask`, an answer, `Copy`, `Create`, `Write`, and
differs by what it asks and which groups it assigns.  `heard = FALSE` is a reply
that is lost after the server has acted; `Exit` may come between `Create`, which
truncates, and `Write`.

**Strategy** is `internal/strategy`: the slot, the MASQUE and the WireGuard
stage with the workers' unguarded `append` in two steps, `TestSni`, the ladder
(`Decision`, `LessCandidate`: pure operators) and the profile file.  The
variables after `slot` are the locals of the one probe that runs.

**ProbeTunnel** is what a stage of Strategy does for one SNI or port: `drop`,
dial, fetch, one or two bursts of echoes, report.  Both functions are in it:
`ProbeMasqueSni` (one tunnel per SNI) and `ProbeMasquePorts` (one tunnel that
every worker swaps).  `PingFails` is `tunnelPing` without a ping socket, in either
burst.  Endpoints have a quality, and a censor may tear a
connection down at any moment.

**Proxy** is one accepted connection of `http-proxy`, `portfw` or `socks`:
accept, dial, hijack, one copy per direction over the common buffer pool, the
closes, and the parallel lookups of `TunnelDNSResolver`.  A side of the
connection and the goroutine that copies from it have the same name.  The peers
act whenever their socket is open, before the relay too; `lost` counts what
`Hijack` drops of them.  A socket is "kept" when the handler has returned and
net/http has it: the client of an HTTP request that was not hijacked, and the
destination of a plain one whose answer was read to its end.  What net/http does
with it (`CloseIdle`) is external.

**VpnService** is `UsqueVpnService.kt` on top of TunnelBridge.  Its actors are
the main thread, the setup threads and the goroutines that call back; each
statement of `disconnect()` and of the last part of `setupAndStart()` that
another thread can notice is an action.  `table` is the kernel's descriptor
table: a number refers to an interface until somebody closes that number,
whoever it is.  Modelling choices: `onRevoke` runs on the main thread; the
field `outputStream`, which is set and cleared next to `vpnInterface`, is left
out; a read of the non-volatile `isRunning` sees the last write; the finalizers
of `os.File` and the descriptor sanitizer of Android are left out.

Each `MC…` module instantiates one of these for TLC.  Operators introduced by a
"Seeded bug" comment are not part of a specification: each is a changed form of the definition
after it, which a property must detect.

## 3. Runs

| Run | Result | What it shows |
|---|---|---|
| `tunnel_session` | pass, 861,119 states | three sessions in every overlap: the safety properties and both refinements |
| `masque_tunnel` | pass, 136,204 states | three attempts: buffers, channels, the contract with what failed dials leave, and that an error leads to a reconnect |
| `wg_watchdog` | pass, 1,627 states | a handshake is announced, a stale peer noticed in time and reported |
| `vpn_service` | pass, 680,478 states | two starts, two service objects, all interleavings: flag, interface and tunnel agree when starts and stops do not race |
| `dns_race` | pass, 19,921 states | four dials, the closer, the deadline and the caller: one winner, no blocked or panicking goroutine, everything ends |
| `scanner` | pass, 545,318 states | two callers, two workers, two addresses, both sweeps, a stop at any moment: the slot, the answer, the rows and the summary |
| `config_store` | pass, 1,861,560 states | two threads, four calls, lost replies, failed saves, kills: identity, successes and the WireGuard device in the file |
| `strategy` | pass, 339,833 states | two probes or SNI tests: the slot, what can be said for the choice, what is saved, and that a probe ends |
| `probe_tunnel` | pass, 1,074,631 states | two workers, two targets of every quality: verdicts, connections, reports |
| `proxy` | pass, 196,073 states | a connection of any kind, or two plain requests, and two DNS servers: streams, answers, and that everything is closed or given back |
| `tunnel_stop` | violation | a stopped MASQUE session never ends (`api/tunnel.go:176`) |
| `vpn_reconnect` | violation | the service stops a tunnel that is about to reconnect (`UsqueVpnService.kt:335`) |

Each violation run checks one statement of a comment or doc of the repository;
`PROJECT.json` quotes it under "findings".

### Observations without a run

The models have these behaviours, or reading the code for them showed them; no
property states them because no document denies them, or because the runs went
to what is deeper.

*Tunnel and service.*

- The exit of an old session clears `running` of the one started after it
  (`usque_android.go:413`): the new tunnel cannot be stopped any more, although
  line 426 says "StopTunnel stops the running tunnel".
- After a stop and a start, without any race, the old session's file may refer
  to the new interface, because `disconnect()` closes the descriptor while the
  session still has its number (`UsqueVpnService.kt:451`).
- While connecting, any stored timestamp counts as a handshake, also the stale
  one: two seconds after "peer stale" the watchdog reports "connected" again,
  and so on alternately (`wgtunnel.go:285`, against lines 170-172).
- `wgHandshakeTimeout` (`wgtunnel.go:27`) is declared and never used: a peer
  that never answers is never reported.
- The forwarder of a lost MASQUE connection goes on reading the device until it
  has taken one packet, which is lost (`api/tunnel.go:221`;
  `StaleForwarderWastesOnePacket` says it is never more than one).
- A dial that fails leaves its UDP socket open, and when `connectip.Dial` is what
  failed a QUIC connection too (`api/tunnel.go:188-194`, `masque.go:119,144,146`):
  nothing closes them but, perhaps, the finalizer of a socket.  `KeepsContract`
  says that it is one for each failed attempt and never an established or refused
  connection.

*DNS and proxies.*

- A winner of the dial race publishes its conn into a channel the caller may
  have left (`dns_android.go:72`, against lines 14-15 "we never leak UDP
  sockets").  An error that comes first decides the race (`ReceiveError`): with
  no IPv6 route `Dial` may fail although IPv4 succeeds a moment later.
- `internal/dns.go:52` says the resolvers are tried in order; all are asked at
  once.  `GetProxyResolver` ignores its timeout, so `--dns-timeout` of
  `http-proxy` has no effect, and uses the first server only.
- The HTTP proxy takes a client's half close for the end of the connection and
  cuts the answer off; `portfw` does not pass the end of the client's stream on
  to the destination, and keeps a connection whose client is gone for as long as
  the destination is silent.
- Bytes a client sends right behind a CONNECT may be in the reader `Hijack`
  returns, which is dropped with them (`httpproxy.go:342`): the destination then
  sees a stream whose beginning is missing.  `StreamsAreNotMixed` says that
  nothing else is ever missing, and nothing from any other kind of client.
- The server of the HTTP proxy sets no timeouts (`httpproxy.go:264`): the
  connection of a client that stays silent after a refused, failed or answered
  request is kept for as long as the client is there (`Ended` allows it).
- `authenticate` (line 298) refuses a client that sends credentials when none
  are configured.

*Configuration.*

- An update of the license that reported success can be undone in memory by a
  poll whose decode had started before, and the next save stores the old one
  (line 961 says "Keep the stored license in sync"): `LicenseSuccessIsStored` is
  therefore about calls that met no other.
- Two `RegisterWg` at once mix two identities; `RegisterWg` after a failed
  `os.Create` returns success without a device in the file, because
  `AppConfig` already has one.
- A `Register` that meets the truncated file of a running save makes a new
  account.  `GetAccountInfo` dereferences the list of devices it could not fetch
  (`usque_android.go:932`), which ends the process, perhaps during a save.
- `register` and `enroll` ignore the error of `SaveConfig` (`register.go:108`,
  `enroll.go:130`), `enroll` drops the WireGuard device, and a lost reply to the
  enrolment leaves the old key in the file.

*Scanner, probe, strategy.*

- After `StopScan` every remaining target is reported as failed with an
  endpoint that was never tried (`GiveUpTarget`; `scanner.go:56-57` says "the
  last one attempted").  `SortResults` puts failed rows first; its comment says
  working first.
- The workers of a port sweep disturb each other: a verdict may be about another
  port, an overwritten connection stays open until it idles out, and progress
  reports may come out of order (`masque.go:304`).
- A candidate may be lost when two appends overlap (`strategy.go:145`).
- A MASQUE candidate that is torn, or slow, is preferred to a WireGuard one
  unless that one passes the ladder.  With `preferSpeed` it is not true that "the
  lowest-RTT working candidate wins regardless of protocol" (lines 88-89): each
  protocol's champion is found by teardown and loss first, and only the champions
  are compared by latency.  A torn 50 ms candidate loses to a stable 700 ms one of
  its protocol, and a torn champion beats a slower, stable one of the other.  `ChoiceIsJustified` says what is true
  instead: whatever is faster than the choice was passed over for a steadier
  candidate of its own protocol, and for no other reason.
- A burst without a ping socket is reported as "not torn" with every echo lost
  (`scanner/tunnel.go:369-372`), also when the burst before it looked torn
  (`PingFails`).  `ForgetNetworkProfile` rewrites the file in place like a save,
  and may lose it (`ForgetFails`).
- `StopProbe` during the MASQUE stage does not keep the WireGuard scan from
  starting (line 159).  The application calls `StopScan` and then `StopProbe`;
  in between a probe may decide on the part the scan had got to, and save it.

**History variables.**  Some properties hold only when starts and stops do not
overlap, and the code does not enforce that.  They are stated for the histories
they hold in: `cleanStart` (TunnelSession) collects the sessions that were
started when every earlier goroutine had ended; `history` (VpnService) is "calm"
until a start or a stop comes in the middle of another; `plain` (WgWatchdog) is
true until a poll fails or a peer has been reported stale; `cut` (Scanner)
collects the endpoints whose handshake a context cut short; `overlaps`, `alone`
and `failed` (ConfigStore) say which calls have met and whether a reply, a save
or a program was lost; `announced`, `forgotten` and `spoilt` (Strategy) are what
`OnDone` has said, what the service has forgotten since, and whether a write of
the profiles was cut; `lost` (Proxy) counts what `Hijack` dropped; `shared` and
`overwritten` (ProbeTunnel) mark the workers another one has disturbed and the
connections nobody can close any more.  The actions never read them.  What goes wrong in the other histories is in the list
above.

**Bounds.**

- `MaxSessions = 3`: two sessions show an old exit meeting a new record; the
  third lets that happen while another is starting.  The proofs hold for every
  number.
- `MaxAttempts = 3`, `MaxPackets = 2`: the forwarders of two lost connections
  compete with the third; two packets let a leftover forwarder fail after the
  first.  Proved for every number.
- `Tick = 2`, `StaleAfter = 5` stand for 2 s and 185 s: what matters is that a
  handshake can be younger than a tick, between a tick and the limit, and past
  it.  The safety part is proved for all values with `Tick <= StaleAfter`.
- `MaxStarts = 2`, `MaxInstances = 2`, two descriptor numbers: a second
  setup thread racing the first, a second service object after the first was
  destroyed, a number that is reused and one that is not.

- two callers of `Scan`, two workers, two addresses, two primary ports and one
  alternate: a second caller that is refused and one that comes later, a worker
  that wins while the other is in the middle of its walk, a port list that is
  partly found.  Proved for every number.
- four servers, as in the code.  Proved for every number.
- ConfigStore: two callers, `MaxCalls = 4`, `MaxDevices = 2`: a registration and
  then two changes that overlap, with a poll or a retry; a second identity to mix
  up with the first.  Proved for every number, and any finite set of callers.
- Strategy: two callers, `MaxProbes = 2`, two networks, two ports and one sweep,
  one WireGuard endpoint, two SNIs; four measurements per protocol, chosen so that
  teardown, loss, latency and no latency disagree about the order.  Two ports are
  enough for an append to be lost.
- ProbeTunnel: two workers, two targets, bursts of three echoes with a tail of
  two (the code has five and three), and `MaxLost = 3` lost echoes, one less than
  two silent tails need: the comment's "transient loss".
- Proxy: one connection of any kind, or two plain requests side by side
  (`MCAsks`), `MaxSent = 2` messages per peer, so that one can be dropped at the
  hijack and one relayed, one be in hand while the next arrives, two DNS servers,
  and four buffers, two per connection.  Two plain requests are enough to put two
  owners on one buffer.  Proved for any finite sets and any mixture of kinds, with
  at least two buffers per connection.

Deadlock is not checked in the models, because the bounds stop them
(no more starts, attempts, packets or callers), and a watchdog that has
returned and a race that has ended stay so.

**Fairness.**  `TunnelSession!FairSpec` has weak fairness of every goroutine's
steps, except of losing a healthy connection and of `CloseDevice`, which waits
for wireguard-go; `MasqueTunnel!FairSpec` of the loop and of each forwarder
(Go's scheduler runs every runnable goroutine), but of nothing in the outside
world; `WgWatchdog!FairWatchSpec` of the loop and of time, and strong fairness of a
successful status read, because `IpcGet` only reads memory of the process;
`DnsRace!FairRaceSpec` of every goroutine and of the deadline (a timer), and
`DialContext` returns because its context has that deadline;
`Scanner!FairSpec` of a scan that runs and of its workers, because every
handshake, fetch and ping has a timeout;
`Strategy!FairSpec` of the probe that holds the slot, for the same reason;
`ProbeTunnel!FairSpec` of the workers and of the deferred close; nothing makes
the censor or the user act.  `Proxy!FairSpec` of the handler, of both copies
(which wait for their peers: a peer that neither reads nor goes away is left
out, so that a write ends) and of lookups, which have a timeout, and of
`CloseIdle`: of a destination because of `IdleConnTimeout` (`httpproxy.go:56`), of
a client only once it has gone, because the server has no timeouts; the peers are
not fair.  ConfigStore states no liveness.

## 4. Proofs

All are checked by TLAPS for every value of the constants under the stated
assumptions (`MaxSessionsAssumption`, `BoundsAssumption`, `TimesAssumption`, `ServersAssumption`,
`ScannerAssumption`, `StrategyAssumption`, `ProbeTunnelAssumption`, `VpnServiceAssumption`,
`ProxyAssumption`, `ConfigStoreAssumption`).

**TunnelSession_proofs.**  The inductive invariant `IInv` adds to the checked
invariants: `Numbering` (numbers are handed out in order, an unused one has no
state, a pending report fits the place its goroutine will continue at);
`LatestOwnsRecord` (cancel and callback are those of the last session started,
and no callback under way is older than the session that makes it), which is
what makes `RunningIsStoppable` survive the exit of an old session;
`RecordIsCoherent` (status and error agree even while `running` is false,
because a late report is written then too); `CleanInv` and `CleanStatusInv` (a
clean session finds all its predecessors ended, so every write to the record is
its own).  From it: `TypeCorrect`, `StopHasATarget`, `StatusCoherent`,
`CleanStartInControl`, `CleanStatusTrue`, `FileFollowsGoroutine`, and
`Refinement` (the sessions implement TunnelView).  Its second part proves
`ProtocolInvariant`: each protocol keeps to its own loop, so that only MASQUE
reports a lost tunnel and only WireGuard ends.  With it `BridgeRefinement`:
TunnelSession implements TunnelBridge, one lemma for each action.  This is what
entitles VpnService to the abstract bridge.  Its third part proves
`LoopInvariant` (a MASQUE session is where its last report says, and never at the
goroutine's end) and from it `ReportsInOrder`: every MASQUE session, among
any number of overlapping ones, reports as StatusReports says.  No run checks that
one: it quantifies a specification over the sessions, which TLC does not take as a
property.

**VpnService_proofs.**  The service's three properties speak of calm histories,
and the invariant has two layers.  Whatever the history, `BridgeWired` and
`ServiceWired` say that callbacks, setups and calls of `disconnect()` know the
object they belong to; this carries the types.  While the history is calm,
`SetupIsAlone` says that a setup has the service for itself, `InterfaceIsHeld`
that at most one interface is open, that it is in the field `disconnect()` will
read, and that once `isRunning` is clear somebody is at a statement that will
close it, `SessionIsLatest` that the one session not yet over is the latest and,
while `isRunning` is set, reads that interface uncancelled, and
`DisconnectInOrder` what each statement of `disconnect()` has already undone.
The last one is the point: the main thread and a callback may be in
`disconnect()` at once even in a calm history, and the claims are made of
whichever is further.  From it: `FlagIsTrue`, `StopLeavesNothing`,
`StopComesFirst`.  `BridgeIsRespected` closes the composition from the other
side: every behaviour of the service, calm or not, is one of TunnelBridge.

**TunnelLoops_proofs.**  The invariant ties every connection's errors to the
forwarders that sent them (`errChan` plus received errors equals forwarders
gone), connections to the attempt that is current, and buffers to the forwarders that hold
them (as cardinalities of finite sets).  For the contract, a failed dial adds its
attempt to those that have left a socket, and no other step does.  From it: `NoForwarderBlocks`,
`BuffersAccounted`, `StaleForwarderBounded`, `ContractKept`.

The module ends with the other tunnel's loop, WgWatchdog.  Its invariant relates
the stored age to the age at the last poll and the timer.  From it:
`StaleNoticed`, `HandshakeNoticed`.

**Scanner_proofs.**  The invariant relates the slot to the one active scan
(`SlotFits`), busy workers to its phase and to distinct jobs already handed out
(`PlaceFits`, `JobsFit`), and says why a published answer is whole
(`RaceFits`): until a `StopScan` no handshake is cut before there is a winner,
the winner's address is nobody's job any more, and a scan that was stopped does
not reach the second phase.  `RowsFit` follows a job from taken over stored to
reported.  From it: `OneScan`, `AnswerWhole`, `SummaryTrue`.  `SlotRefinement`
(Scan implements Slot) maps every step of a worker to a helper that comes, goes
or goes on: it needs that a worker is busy only in a phase of the scan in the slot.

**Strategy_proofs.**  `DecidedAndSaved` is not inductive.  `NumbersFit` adds that
probes are numbered in order and that what was forgotten is older than what is
stored after it (otherwise a second `ForgetNetworkProfile` could take back the
excuse the first one gave), `SavedBeforeDone` that a probe about to call `OnDone`
has its number in the store or had it there; `OneProbeAtATime` says that nobody
else is at that place.  From it: `OneProbe`, `AnnouncedIsSaved`.  For the SNI
test, `BestSoFar` says that the best is one of those shown and that none of them
beats it; it is inductive because `LessCandidate` is an order (`BetterThanBest`).
`RankingsAgree` compares that order with `RowBefore`: they agree because no
latency reaches `Slowest`, which the assumption on the measurements states and the
timeouts of the probes guarantee.  From both: `BestSniFirst`.
For the choice, `ChoiceInv` follows the lists: what is listed has been measured,
what is chosen from has been shown (`ListsFit`), and from the statement that
chooses to the last use of the choice it stays `Justified` (`DecisionFits`).
That the code's scan finds an element no other precedes is `BestIsBest`: the
order is lexicographic over numbers, so it has a least element in every non-empty
set (well-foundedness of `<` on the naturals, applied to one component after the
other).  From it: `ChoiceJustified`.  `SlotRefinement` adds `SlotInv`: the holder is inside its call, and outside the two measuring stages no
append is under way.  A kill, which frees the slot of whoever holds it, is the one
step it excuses.

**ProbeTunnel_proofs.**  `OpenIsHeld` (an open connection is installed or
overwritten) needs, for the SNI test, that only one worker is busy (`OneAtATime`)
and that nothing is installed between a `Close` and the next handshake
(`HeldWhileMeasuring`), so that nothing is ever overwritten.  From it:
`ConnectionsClosed`.  `VerdictInv` follows one burst: whether it ran on a
connection of its own target (`OwnConnection`), how many echoes it has lost so
far and how many of them in a row at the end (`BurstFits`), and what the verdict
may then be (`VerdictFits`).  `VerdictIsAboutItsTarget` is proved under
`MaxLost < 2 * TornTail`: the promise of the code, that transient loss is not
taken for a dead connection, is about fewer losses than two tails; a network that
loses the tails of both bursts cannot be told from a dead connection.

**ProxyDns_proofs.**  `BuffersFit` says that no buffer of the pool is in two hands
and none is lost; with two buffers for each connection it follows that the pool
is never empty when a copy asks (`PoolHasOne`, the pigeonhole principle), which
is why the model's `CHOOSE` from the pool is sound.  `StreamsFit` follows every
stream: what a copy holds is the message it read last, everything between it and
what was dropped at the hijack (`DroppedFits`) has arrived, and nothing is missing
while the receiver is there.  It needs
`BuffersFit`, or a read of one connection could overwrite what another has in
hand.  From it: `RelaysAreApart`.  `RelayFits` says when a socket can be closed
under a relay that still runs: only by the goroutine of CONNECT, after an end
that takes the connection down anyway.  So the copy of the answer ends early for
no other reason (`AllIsDelivered`).  `AnswersFit` counts: every server is still
asked, waits in the channel or has been counted as a failure.  From both:
`NothingIsCutShort`.  `SocketsFit` follows the two sockets of a connection from
being opened to being closed or kept; from it `NothingStaysOpen`, the safety half
of `ConnectionEnds`: a handler that is over has closed both or given them back to
net/http, the latter only of a plain request or the client of a CONNECT that was
not hijacked, and a CONNECT closes both with its first copy, or the other copy
would never wake.

The module ends with the dial race, DnsRace.  Its invariant says who may hold an
open conn (`OneClaims`: a single dialer past its lock section as winner), what
waits in the channel (`ChannelFits`, `NothingTaken`: while the caller waits,
everybody who ended without being a loser is in it) and that the channel is
closed last.  The channel never overflows because its entries are distinct
dialers other than the one about to send: a cardinality argument.  From it:
`OneDialerWins`, `SendsAreSafe`, `TotalFailureIsHeard`.  `LeftoverBounded` bounds
the leak named in section 3: when everybody is done at most one conn is open that
nobody will close, the winner's, and none if `Dial` has returned one.

**ConfigStore_proofs.**  The proof first says what each action does
(`Left`, `Entered`, `Copied`, ... : one lemma for each action of the model), and
then proves the invariant about these effects.  The invariant has three layers.
Whatever overlaps or fails: what is left to copy belongs to the place and the
function of the caller (`TodoFits`, `OrderFits`, `OpsFit`), every id in use was
given by the server (`IdsAreReal`), and the histories tell the truth
(`MeetingsSeen`, and `AloneFits`, which follows a license change that has met no
other call).  While nothing has failed and no registration has met another
change (`IdentityFits`): everyone who copies, copies the same identity, and one
that works (`SourcesWork`, `SameIdentity`), AppConfig holds it in every group
already copied (`CopiesFit`), the file agrees (`FileAgrees`, `FileWorks`), and a
registration works alone (`RegisterAlone`).  The agreement is why it does no
harm that several decodes and assignments write the one global group by group.
While no changes have met at all (`WgFits`): nobody knows another WireGuard
device than the last one, its key gets into AppConfig before its id
(`KeyFirst`, because of the order of the file's fields), the file has it whole,
and AppConfig has none the file lacks unless a registration is under way
(`FileWhole`).  `WgKept` says that a saver that is past the WireGuard fields has
what the file has; together with `WriterFindsBlank` (one save at a time) it
gives the last property.  From the layers: `IdentityWorks`, `LicenseIsStored`,
`WgIsStored`, `WgDeviceIsKept`.

**Only model-checked.**  Liveness (`ErrorLeadsToReconnect`,
`HandshakeIsAnnounced`, `LossIsReported`, `RaceEnds`, `ScanEnds`, `ProbeEnds`,
`RunEnds`, `ConnectionEnds`), which is out of the prover's reach.  No
RECURSIVE operator is used.  The type invariants, `StatusIsCoherent`,
`HandshakeNoticedWithinTick`, `NothingIsHeld`, `OneLeftover`, `OneScanAtATime` and
`OneProbeAtATime` are theorems, and no run repeats them.

## 5. Not modelled, and the plan

Left out for good: the byte-level adapters of wireguard-go and of the TUN
device, TLS and QUIC set-up, HTTP and JSON, the flags of the desktop commands
and the tunnel each of them builds (the same loops as in MasqueTunnel, without a
callback), the native device, garbage-collector settings, key generation, and
the user interface.  The address pools and the ranking of the scanner's rows
(`SortResults`) are plain data code.

All safety properties that the runs check are theorems now; liveness stays with
TLC.  What could be added: the streams of Proxy as an abstract specification that
it implements; and the device file that an early error of `StartTunnel` leaves to its finalizer,
which needs a model of descriptors in TunnelSession as VpnService has one.
