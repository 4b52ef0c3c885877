# A TLA+ model of the SASE platform

The repository is a SASE platform in Go: a control plane (tenants, identity,
policy, enrolment, xDS distribution) on PostgreSQL, points of presence (PoPs)
that terminate ZTNA agents and SD-WAN sites, App Connectors that reach private
applications from inside, CPE boxes and an endpoint agent. This directory holds
TLA+ modules for its concurrent core, TLC configurations that check them, and
TLAPS proofs about them. `PROJECT.json` maps every definition to the lines it
models.

Run, in this directory:

    tlc -workers 2 -config XdsIsolation.cfg MCXds      # any run of PROJECT.json
    tlapm XdsServer_proofs.tla                         # the proofs; also Enroll_proofs, ZtnaTerm_proofs,
                                                       # DpSession_proofs, SdwanRouter_proofs,
                                                       # SessionLife_proofs, RevStream_proofs,
                                                       # AdminPlane_proofs

## 1. Inventory

| Component | State | Operations | Interaction | Hard behaviour | What makes it correct |
|---|---|---|---|---|---|
| xDS server (`internal/xds`, `cmd/xds-server`) | six LinearCaches, tenant reference counts, per-stream authorization | stream open/close, delta request, notification, reconcile | PostgreSQL LISTEN/NOTIFY in, gRPC delta streams out | loads race each other, evictions and closes; lost notifications; refused requests | a certificate only sees its tenant; counts exact; subscribers converge to the database |
| xDS client (`internal/pop/client.go`) | one store per kind | subscribe, receive, reconnect | callbacks into PoP and CPE | reconnect keeps old store | converges |
| Stream multiplexer (`internal/revtunnel/stream*.go`) | stream map, inbound queues, half-close flags | open, write, read, close, reset | one TLS connection, one read loop, many pumps | full queue, half-close, link failure | in order, EOF only when complete, nobody hangs, no leaked entries |
| Connector registry (`internal/revtunnel/revtunnel.go`) | connection per (tenant, connector) | register, evict, RoundTrip, OpenStream | PoP proxy, connector | replacement against late eviction | a live connector is never evicted by its predecessor |
| ZTNA terminator (`internal/pop/ztnaterm`) | sessions by source and inner address, verdict caches | handshake, datagram, proxied connection, return traffic, revocation, expiry | handshake server, bundle and revocation stores, multiplexer | revocation against handshake in progress; stale verdicts; late eviction; index of an evicted session | nothing from the agent passes after an enforced revocation, and what goes back to a removed session is cut; no stale verdict beyond its lifetime |
| Tunnel session (`internal/dptunnel` session, replay, fec) | counters, replay bitmap, FEC blocks | Seal, Open | UDP | loss, duplication, reordering | no duplicate, exact window, repair, bounded memory |
| SD-WAN router (`internal/dptunnel` router, lpm) | entries by site and source, prefix trie | Register, UpdateCIDRs, Handle | site stream, handshake, workers | re-registration during forwarding; equal subnets | nonces unique, tables agree, the trie answers like a scan of the registered subnets |
| Identity (`internal/identity`, `cred`) | users, revocation rows | issue, revoke, collect, check | control hub, xDS, risk | revocation row must outlive the credential; lists that overtake each other | a credential on the list stays out until it has expired |
| Risk (`internal/risk`) | signals per user, last fired credential | observe, assess, report | identity (auto-revocation) | hysteresis, decay, unlocked snapshot write | one revocation per episode and session |
| Control hub (`internal/control`) | subscriber buffers | channel, broadcast | agents | full buffer drops | best effort; expiry is the backstop |
| Policy (`internal/policy`, `resource`, `pop/pep`) | applications, policies, versioned bundles | edit, compile, decide | xDS, PoP | concurrent compilation, policies written meanwhile | a bundle is the compilation of the policies there were; the first matching rule decides |
| Credential refresh (`internal/credrefresh`, `agentd`) | current credential | refresh, retry | identity, agent tunnel | refresh against expiry and revocation | continuity without outliving a revocation |
| Enrolment (`internal/enroll`, `agentenroll`, loops of `cmd/connector`, `cmd/cpe`) | rows with one-time codes, certificates, connections, tunnels | create, redeem, renew, revoke, restart | PKI, PoP | concurrent redemption, revocation during a renewal, failing renewals, restarts | a code is used once; a revocation takes effect in time; certificates do not lapse |
| OIDC (`internal/oidc`, `internal/idp`) | login states, provider configuration, users | begin, callback, janitor, configure | IdPs, agent | replayed callback, expired state, provider or user disabled during a login | a state is used once; a disabled provider or user lets nobody in |
| Tenants, secrets (`internal/tenant`, `secret`, sweep of `platform`) | tenants, wrapped keys | create, patch, decommission, cancel, sweep | administration API, cron | crash between key and row; cancellation during a sweep | keys are destroyed after the grace period, and then the tenant is finished |
| Agent daemon (`internal/agentd`) | login and tunnel state | login, select PoP, reconnect | all of the above | reconnect loops | reconnects |
| Engines (`fw`, `dlp`, `swg`, `pep`, compiler) | none | match | PoP data path | rule order, prefixes | agree with their definitions |
| Administration API (`internal/admin/httpapi`, `authz`, `csrf`, `platformrbac`) | administrators, tokens | issue token, create, patch, delete | all services | requests that interleave; tokens that outlive their row; last administrator | a token reaches its tenant only; a removed administrator can do nothing; one stays |
| PoP registry, metrics, audit, console | rows | CRUD | all services | none of their own | row-level security is the database's |

The hazards, line by line, are in `PROJECT.json`.

## 2. Modules and how they correspond to the code

**XdsServer** (`internal/xds/server.go`, `subauth.go`, `internal/data/listen.go`,
`internal/pop/client.go`, `cmd/xds-server/main.go`). A resource is a pair of a
tenant and a kind; its content is the revision of the rows behind it. A load is
two steps (`LoadRead`, `LoadUpdate`), because the database read and the cache
update share no lock; it is run by a worker, which is a stream, the LISTEN loop of
a kind, or the ticker. `OnNotify` and `ReconcileAll` fill a worker's `todo`.
`HandleName` treats one name of a request, as the loop of `onDeltaRequest` does,
with its refusals; `HandleEmpty` is the empty list. `StreamClosed` releases and
evicts under one lock, as the code does. go-control-plane is external:
`CreateWatch` and `Push` say what its LinearCache does with a request and an
update. `Receive` includes the ACK, which is an empty request of that kind.
Six kinds behave in two ways (the policy load may find nothing), so runs use two.

**RevStream** (`internal/revtunnel/stream.go`, `stream_connector.go`, the pumps of
`redirect.go`). Two ends, one FIFO per direction with a capacity. `loop[e]` holds
the frame on which the read loop is blocked in `deliver`. Data frames are their
position. Every public method is split where it takes or releases the lock or may
block: `ReadCall` (the entry checks), `ReadChunk`, `ReadEOF`, `ReadDone` (the
branches of the select), `CloseStream` and `SendClose`. `shutdown` is one step
although it takes the lock twice: what happens in between is the removal of the
map entry. A broken link loses both directions at once.

**ZtnaTerm** (`internal/pop/ztnaterm`, `internal/tunhandshake`, callbacks of
`cmd/pop-agent`). Each critical section is a step; the worker's program counter
says where it is between them (`learn`, `index`, `decide`, `gate`, `pep`, `store`,
`write`, `open`). The wall clock is `Tick`. The histories `enforced` (credentials
whose revocation callback has returned), `deniedAt`, `lateIndex` (inner addresses
indexed for a session that was already out of the table) and `leaked` only serve
properties. `ReturnPump` is the other direction: the index `byInnerIP` names the
session to which a packet from the TUN is sealed, and nothing else is looked at.

**DpSession** (`internal/dptunnel/session.go`, `replay.go`, `fec.go`). One
direction of one session. The network is the set of all frames ever sent, so it
loses, duplicates and reorders. XOR of bodies is symmetric difference of the
counters; what does not authenticate is dropped. The wiring of the PoP disables
FEC (`fecK` = 0 in `tunhandshake`); the model has it on, and `TypeOK` includes
the bound on the decoder's blocks, with which the library's `fecMaxBlocks` is
unreachable. The code keeps K and the index of a frame in a uint8 and the block
number in a uint32; the model does not wrap them, and leaves out the check of the
block size (`fec.go:88-91`) and parity that does not belong to its block
(`fec.go:67-69`), which only the peer itself could send.

**SdwanRouter** (`internal/dptunnel/router.go`, `lpm.go`, wiring in
`cmd/pop-agent/main.go`). The handshake is `Establish` (recorded in the map of
established sites), `GetCIDRs` (the argument of Register is evaluated) and
`Register`; a site update is `SetSites` and one `UpdateCIDRs` per established
site. `Handle` is three steps: look up and open, route, seal. Registrations are
numbered and name the sessions; `byTenant` is the set of the numbers that are
registered, and because a new registration is always appended, the order of the
code's slice is the order of the numbers. `used` collects the nonces. **LpmTrie**
is the prefix table: a trie gives each possible node its value, or says that it
does not exist; `Insert` makes the path and overwrites the last node,
`LongestPrefix` walks down until a child is missing. `Rebuild` is
`rebuildRoutesLocked`, run by every registration and update under the lock. The
router has a trie for IPv4 and one for IPv6 and looks into the one of the
destination's family; one of them is modelled.

**AdminPlane** composes **TenantLife** (`internal/tenant`, `internal/secret`,
`RunDecommissionSweep` of `internal/platform` and its cron), **PlatformAdmins**
(`internal/platformrbac`) and **PolicyCompile** (`internal/policy`,
`internal/resource`, the compiler, the PEP). It models a request of the
administration API from the CSRF check over authentication, `requireActive` and
`authorize` to its handler. A step is one transaction, or one statement of a
transaction whose statements see different states: `GuardSnapshot` and
`GuardLock` are the two halves of `SELECT ... FOR UPDATE` under READ COMMITTED,
in which the rows are those of the snapshot and are checked again when their
locks are got. The sweep is a list and two writes per tenant, run by a request
or by the cron; the list is in the order of the deadlines, in any order among
equal ones, each write may fail, and a crash loses the list. Compilation reads the
applications, takes the advisory lock, reads the policies and writes the bundle.
Strings are ranks in the order the compiler sorts by. A scenario chooses which
operations an instance mixes.

**SessionLife** composes **Credentials** (`internal/identity`, the revocation list
of a PoP), **RiskEngine** (`internal/risk`, `internal/telemetry`) and
**AgentDaemon** (`internal/agentd`, `internal/agent`, `internal/control`,
`internal/credrefresh`). The agent's tunnel loop, refresh loop and control
channel are goroutines of their own; so are the handlers that bring posture
reports and DLP findings to the risk engine, whose work outside the engine's lock
(`Snapshot`, `RiskRevoke`) is a step of its own. The gates of a refresh each read
the database. `Summary` keeps what the agent's conversion of a posture does to
the string that `ObservePosture` compares. The PoP's part has the gaps of the
code: the xDS server reads the list (`ReadList`) and it reaches the PoP later,
perhaps after a newer one (`SetList`), the sessions are evicted after that
(`EvictRevoked`); a handshake is verified (`TunnelVerify`) and established
(`TunnelEstablish`) in two steps, and a revocation may fall between them, after
which the session is in the table although its credential is on the list: what
holds then is the subject of `ZtnaTerm`. A refresh sees the clock move once at
most; weights and thresholds are the code's.

**Enroll** composes **DeviceEnroll** (`internal/enroll` on both sides, `devpki`,
the loops of `cmd/connector` and `cmd/cpe`) and **IdpLogin** (`internal/oidc`,
`internal/idp`, `EnsureUserByExternalID`) over **EnrollBase** (the requests being
served). `RedeemSelect` and `RedeemMark` are the two statements of `Redeem`;
`Sign` and `Reply` follow outside the transaction. `RenewCert` is the renewal
loop. The unit of time is 75 s, the longest from one try of a failing renewal to
the next: 15 s until the client gives up and a minute of waiting; the lead of
8 hours is 384 units. The clock waits for a renewal that is due, and a request
may see it move once (`InTime`), so that time passes between the check and the
signature of a renewal. A device either keeps connections to the PoP, which
`serveLoop` closes at their maximum age, or, as a CPE with `SDWAN_TUNNEL`, one
tunnel, which nothing closes (`runTunnel`). `ServerRestart` loses requests and
login states, `Restart` a device's certificate, which is in memory only.
**OneTime** is the abstract specification of a one-time secret (issued, then
spent by one bearer or void, and granted at most once, to that bearer); `Enroll`
implements it under the mapping `Phase`, in which an activation code and a login
state are both secrets.

The `MC*` modules hold the constants that a `.cfg` cannot write.

## 3. Runs

| Run | Property | Bounds, and why they suffice |
|---|---|---|
| XdsIsolation | `TypeOK`, `TenantIsolation`, `RefsConsistent`, `EvictOnlyUnsubscribed` | two tenants, two streams, three requests: a stream can subscribe by name, be refused halfway and send a wildcard while the other fills the cache. Streams are interchangeable (symmetry). |
| XdsFreshness | `Convergence` | one tenant, one write per resource, one lost connection, one failed read: each way of missing an update once. |
| RevStream | `TypeOK`, `InOrder`, `EofComplete`, `ReadersFinish`, `EntriesReaped` | a queue of one and two data frames per side: the queue is full while data, CLOSE or RST arrive; link and sinks may fail. |
| ZtnaTerm | `TypeOK`, `RevokedNotForwarded`, `CacheBounded`, `EvictJustified` | two sessions on one address, two credentials, one handshake and one worker, two revocation updates, three instants: replacement, revocation and withdrawal of a revocation, expiry and cache expiry all happen inside one packet's handling. |
| DpSession | `TypeOK`, `NoDuplicate`, `WindowExact`, `OneLossRepaired` | nine counters, window 4, blocks of 3, decoder window 1: shifts below, at and above the window, and three blocks, one of which leaves the decoder. |
| SdwanRouter | `TypeOK`, `NonceUnique`, `TablesAgree`, `LongestPrefixWins` | two sites, two addresses, addresses of two bits, three registrations, two updates: a re-registration during forwarding, addresses exchanged, a default route beside longer subnets that move between the sites. `TrieAgrees`, an assumption of `MCSdwanRouter`, compares the walk down the trie with a scan for every destination and every two entries with one or two of the seven prefixes each: every way in which subnets nest, coincide or lie apart, at the root, inside and at a leaf. |
| AdminPlane | `TypeOK`, `GraceRespected`, `RevokedAdminInert`, `CompileReflects`, `BundleSound`, `Confined`, `GuardSound`, `SweepCompletes` | two workers and the cron, two tenants, three administrators, up to five requests, one failure and one crash, in eight scenarios: a tenant's life with and without a key, a tenant created and swept beside another, two tenants due at once for the cron and for requests, administrators with one or two active, tokens of all roles, four policies of which two conflict. Three requests are enough for a cancellation or a change of the table between the steps of another request. |
| SessionLife | `TypeOK`, `RevokedNotAdmitted`, `RefreshGated`, `RiskRevokes`, `TunnelFollows` | two credentials, three units of time, a control buffer of one, two findings that are critical together, in nine environments (who may revoke, disable, report; one failure or restart): a revocation meets a refresh at each of its gates, the buffer overflows, a row expires before and after its credential, of two reads of the list the older is written last. |
| Enroll | `TypeOK`, `RevokedCut`, `NeverLapses`, `LoginGated`, `OneTimeSecrets` | two requests at a time, two devices, two login states, in nine environments. Six have up to four instants and one failure: two redemptions of one code, an agent that takes a row over, a login whose provider or user is disabled at each step, restarts of either side. Three have one device, a lead of four tries and a life of five units, connections of two, twelve units and up to three failures: more than two lifetimes, a revocation at each step of a renewal, renewals that fail as often as the lead allows. |
| TenantShred | finding | the scenarios of AdminPlane |
| LastAdmin | finding | the scenarios of AdminPlane |
| SessionPosture | finding | one healthy device that reports |

`CHECK_DEADLOCK FALSE` in RevStream, SessionLife and Enroll: a stream that has
ended, a session that has expired and an environment that has reached its last
instant stop.

Fairness. XdsFreshness: loads, handlers, LISTEN reconnection, the ticker and the
delivery on an open stream are weakly fair: they are goroutines that always run
again and a TCP connection that stays open. Commits, failures, subscriptions and
closes are not. RevStream: read loops, pumps, dials (they have a timeout) and the
end of a source are fair; opening, writing and failing are not.
`ReadersFinish` and `EntriesReaped` exclude pumps whose sink fails, and
`ReadersFinish` the lost end mark (section 4). AdminPlane: only the cron's sweep is
weakly fair, as its ticker is; requests are not. SessionLife: the agent's tunnel
loop, the signal at the end of a refresh, and the work of a handler that has left
the engine's lock are weakly fair, because nothing they wait for is held by
another goroutine; administrators, reports, the clock and failures are not.
Enroll has only safety properties and states no fairness.

## 4. What the findings say

1. *TenantShred*: the sweep destroys the key of a tenant that it listed as due
   although an administrator has meanwhile cancelled the decommissioning, and
   writes the status afterwards: an active tenant without a key.
2. *LastAdmin*: `SELECT ... FOR UPDATE` locks the rows of its snapshot, so an
   enabling and a disabling between the snapshot and the locks make the guard
   count no active row and let the last active administrator go.
3. *SessionPosture*: the agent reports its posture as a summary that is never the
   word the risk engine takes for compliant, so the first report of a healthy
   device makes its session critical and revokes it.

Seen while modelling, and not stated as runs of their own:

- `XdsServer`: a load that a notification or the ticker started may write a cache
  entry back after the eviction of its tenant, which the comment of
  `onDeltaStreamClosed` rules out; of two loads of a resource the older read may
  be written last. The ticker repairs the second, which `Convergence` shows; the
  entry of the first stays until its tenant is subscribed and released again.
- `RevStream`: a CLOSE that finds the inbound queue full loses the end mark
  (`LostEof`), and its reader waits until the connection ends; a stream that is
  closed on this side and that nobody reads any more blocks the read loop of all
  when its queue is full. `ReadersFinish` names both.
- `ZtnaTerm`: the comment of `EvictRevoked` says that tearing a revoked session
  down cuts its return flow ("断回程流", `dataplane.go:267`). A worker that stands
  between the two locks of `learnInnerIP` meanwhile indexes the inner address of
  the removed session (`dataplane.go:200-208`). No eviction takes that entry away,
  since `evictSession` does nothing for a session that is not in `bySrc`; until
  another session learns the address, `returnPump` seals to the revoked agent
  what comes for it. `RevokedNotForwarded` names this as its one exception for
  removed sessions.
- `Enroll`: the comments of `RevokeDevice` (`enroll/service.go:63`) and of the
  handler (`router.go:1053`) and migration 0008 promise that a revoked device is
  off within the life of its certificate ("≤证书有效期内掉线"), and
  `docs/sase-l2-tunnel-handshake.md:39` says so of tunnels. Three bounds must be
  told apart: the promise (`CertTTL`); what `serveLoop` gives and
  `cmd/connector/main.go:81` says, `CertTTL` and the age of a connection, which
  `RevokedCut` checks; and none for a CPE's tunnel, which shakes hands once and
  then runs until its process ends or a pump fails (`cmd/cpe/main.go:261-297`). A
  renewal checked before the revocation and signed after it adds the time that
  the request takes.
- `SdwanRouter`: two sites may have the same subnet (the table is unique in the
  site's key only). The one inserted last gets its packets, and a reconnection
  moves a site to the end, although the comments of `insert` (`lpm.go:36-37`) and
  `rebuildRoutesLocked` (`router.go:144`) say that the order of registrations does
  not matter. `LongestPrefixWins` therefore asks for the length of the match only.
- `SdwanRouter`: a site update between the read of the list (`GetCIDRs`) and
  `Register` is ignored by both and lost until the next update.
- `SessionLife`: after a refresh the control channel still speaks for the old
  jti; a revocation that the engine could not write is not tried again in the
  same critical episode; the daemon does not consume `Session.Revoked`, and a
  tunnel that a PoP evicts is only re-made at the next refresh;
  `GCExpiredRevocations` and `PushRecheckPosture` have no caller, and nothing
  writes `users.status`.
- `Enroll`: an identity has one row for ever, so a device whose code was spent by
  a request that failed after the mark, or that restarts, cannot enrol again
  ("设备据此重新申请", `router.go`, needs another identity); `RedeemAgent` takes
  over the row of a connector and revives a revoked device.

## 5. Proofs

`XdsServer_proofs` proves, for all constants that satisfy the named assumptions
(`KindsAssumption`, `WorkersAssumption`, `NamesAssumption`, `BoundsAssumption`):

- `TypeCorrect`: `Spec => []TypeOK`
- `Isolation`: `Spec => []TenantIsolation`
- `RefCounts`: `Spec => []RefsConsistent`
- `EvictionSafe`: `Spec => EvictOnlyUnsubscribed`

`TenantIsolation` is not inductive: it speaks of what is in flight. The
strengthening `StreamInv` follows the data back to the check: what is in flight
belongs to tenants in the stream's set (`tenants`), these were authorized when
they were added, what is watched is in the set, no stream has a wildcard watch,
and, which is the point of `RefusesEmpty`, a kind counts as named only while a
named watch of it exists or the request that will create it is being handled.
Type correctness needs it too (`CreateWatch` would otherwise admit a refused
name), so `IInv` is `TypeOK /\ StreamInv`, proved by one step per action.
`RefsConsistent` then follows with the cardinality theorems, and `EvictionSafe`
from it: a count of at most one means no other subscriber.

`Enroll_proofs` proves, for any devices, states, requests
at a time and environments, and for all `CertTTL`, `RenewLead`, `ConnAge` and
`StateTTL` that satisfy `TokensAssumption`, `DeviceAssumption`,
`LoginAssumption` and `EnrollAssumption` (the lead is shorter than the life):

- `TypeCorrect`: `Spec => []TypeOK`
- `Refinement`: `Spec => OneTimeSecrets`
- `Gated`: `Spec => []LoginGated`
- `NoLapse`: `Spec => []NeverLapses`
- `RevocationBites`: `Spec => []RevokedCut`

*Refinement.* `TypeInv` adds to the types that a request is about a token of its
kind and that a spent state was drawn. `TokenInv` says who may still be granted
something: a request that `Holds` a token (it has spent it and not yet signed) is
the only one, the token is spent, and nothing has been granted for it. Steps are
sorted by what they do to a secret (`IssueStep`, `SpendStep`, `GrantStep`,
`VoidStep`, or a stutter), and a step that makes no new holder keeps `TokenInv`.

*Gated.* `JobInv` fixes the order of a request's steps; `GateInv` says that a
request past the check of the configuration has seen it active and one past
`EnsureUser` has seen the user not disabled, and that a request sees what holds
now. Administrators change the second part for all requests at once (`Seen`).

*NoLapse, RevocationBites.* The clock stops for a device whose renewal is due and
for a request that has seen it move, so `WaitInv` ties every waiting device to
exactly one request. `TimeInv` says what this leaves: `TimeOK` bounds the next
renewal of a device by the end of its certificate less the lead plus the failures
so far, its certificate by a life from now and a connection of `serveLoop` by its
age; `Punctual` says that a request is at most a unit old, that a renewal began
when the loop woke up, and that its certificate was signed within that unit;
`CutOK` bounds by the revocation what a revoked device has. The delicate conjunct
is `Overtaken`: a certificate that is on its way to a revoked device was asked for
before the revocation, so that it was signed at most a unit after it. `NoLapse`
allows `RenewLead - 2` failures in a row and not `RenewLead - 1`, because the try
after them may take a unit itself. `RevocationBites` bounds the certificate, the
last moment to connect and the connections of `serveLoop`; it does not bound the
life of a tunnel, for which there is no bound.

`ZtnaTerm_proofs` proves, for any addresses, credentials, applications,
handshakes and workers and for every `SessionCap` and `FlowTTL`
(`CredAssumption`, `AppsAssumption`, `TimeAssumption`):

- `TypeCorrect`: `Spec => []TypeOK`
- `CacheLifetime`: `Spec => []CacheBounded`
- `RevocationAuthority`: `Spec => []RevokedNotForwarded`
- `TeardownJustified`: `Spec => EvictJustified`

*CacheLifetime.* The bound must already hold for a verdict that is still in a
worker's hands: `CacheInv` says that a permission about to be stored, which the
policy no longer gives, is dated no later than the moment the policy took it
away. It holds because `decide` reads the clock before it asks.

*RevocationAuthority.* The property speaks of two program points of a worker,
but a session of a revoked credential may be in the table: a handshake that
passed `VerifyCred` before the revocation enters it after the callback's scan.
`CleanInv` says that such a session is `Clean` (it has no cached permission and
nobody is about to cache one), from the moment the callback has scanned the table
and not only when it returns, because the sessions it has found are evicted one by
one. `LateInv` then says that a packet of the agent or a proxied connection which
arrived afterwards never gets past the gate. Packets that go back to the agent pass
no gate; for them `BackInv` says that an index entry is for an address that its
session has learnt, so that `dropInnerIPsLocked` finds it when the session is
removed, and that an entry of a session not in the table was written after the
removal (`lateIndex`), which only the second step of `learnInnerIP` does. Nothing is
said of the return packets of a session that is in the table although its
credential is revoked: it stays there until a packet of its agent meets the gate
or it expires. Steps are sorted by what they may do to the table (`Removes`), which
also gives *TeardownJustified*.

`DpSession_proofs` proves, for every block size `K`, width of the replay window
and of the decoder's, and number of counters (`SessionAssumption`):

- `TypeCorrect`: `Spec => []TypeOK`
- `AtMostOnce`: `Spec => []NoDuplicate`
- `ExactWindow`: `Spec => []WindowExact`
- `LossRepaired`: `Spec => []OneLossRepaired`

At-most-once delivery and exactness need each other: a counter is refused because
the bitmap has it, and the bitmap has it because it was delivered (`WinOK`).
`BaseInv` adds that every frame of the network was sent (`NetInv`), where the
encoder stands (`EncInv`), and that the decoder's blocks lie in its window, from
which the bound on its memory follows by counting. *LossRepaired* rests on
`RepairInv`: each block that has not left the windows is `Whole` or `Tracked`, that
is, the decoder knows exactly what has been delivered of it and what it knows does
not suffice to recover anything. Opening a frame may deliver two packets; the proof
goes through the state in between, in which a packet is delivered and the decoder
does not know it yet.

`SdwanRouter_proofs` proves, for any finite set of sites, any addresses, width of
addresses, handshakes and workers (`RouterAssumption`):

- `TypeCorrect`: `Spec => []TypeOK`
- `NoncesUnique`: `Spec => []NonceUnique`
- `TablesConsistent`: `Spec => []TablesAgree`

`NonceUnique` compares two numbers; `NonceInv` says why they agree: every nonce
that was used under a session is below the session's counter, and the counter
belongs to the registration and survives `UpdateCIDRs`. `TableInv` says that a site
has one entry and that an address leads to a registered entry that has it; the
delicate step is a registration that takes over the address of another site.
`LongestPrefixWins` is not proved: what the insertions and the walk of the trie
compute is recursion over data, and stays with TLC, which checks it in the run and
by the assumption `TrieAgrees`, on addresses of a small width.

`SessionLife_proofs` proves, for all lifetimes, numbers of credentials, handlers,
findings and environments (`CredentialAssumption`, `DaemonAssumption`,
`RiskAssumption`, `AskedAssumption`, `EnvironmentAssumption`):

- `TypeCorrect`: `Spec => []TypeOK`
- `RevokedRefused`: `Spec => []RevokedNotAdmitted`
- `RefreshRefused`: `Spec => []RefreshGated`

*RevokedRefused.* `LifeInv` says that a credential ends within `MaxTTL` from now,
that the row of a revoked one ends no earlier than the credential, and that a
revoked credential without a row has expired; `OutInv` says that the list in force,
and every list on its way to the PoP, has whatever was revoked when it was read,
until it has expired. It is about admission: a handshake that was verified before
may still enter its session, and a list may be older than the one before it.
*RefreshRefused.* `GateInv` says which gate is still to come that will stop
a refused request, and that the row of a revoked credential will still be valid
when the revocation check reads it, one unit of time after the verification at
most. *TypeCorrect* contains the bounds on the risk score: the fold of the weights
of the factors is defined for every finite set of factors, which is proved by
least-element induction on its size.

This proof forced an assumption to be stated that the instance satisfied
silently. If sessions lived as long as rows may (`SessionTTL` = `MaxTTL`), TLC
violates `RefreshGated`: a credential revoked at once is verified just before it
expires, the clock advances, and its row has expired when the revocation check
looks for it. The code is safe because sessions live 30 minutes and rows an hour;
`DaemonAssumption` now says `SessionTTL \in 1 .. MaxTTL - 1`. The other
assumptions that the proofs made explicit: an administrator's lifetime is positive
(`AskedAssumption`; `issueCredential` replaces any other by five minutes), and the
findings and the sites are finitely many.

`RevStream_proofs` proves, for any set of streams, any capacity of the inbound
channel and of the connection, and any amount of data (`CapAssumption`,
`FailuresAssumption`):

- `TypeCorrect`: `Spec => []TypeOK`
- `ReadsInOrder`: `Spec => []InOrder`
- `EofNotPremature`: `Spec => []EofComplete`

`InOrder` is about what has been read; what will be read is in three other places.
`ChannelInv`, `LoopInv` and `WireInv` say that what was read, what waits in the
channel, the frame `deliver` is blocked on and the DATA frames on the wire are
consecutive, that nothing is missing up to what the peer has written while the
connection is up and the stream is not shut, and that CLOSE is the last word of a
side. `EndInv` says what the end mark in the channel means (the peer is done, and
everything it wrote is here); `MapInv` that a stream stays in the map as long as
something may have to be delivered to it, without which `readLoop` would drop the
frame and leave a gap; `OpenInv` that only one OPEN is ever on its way, ahead of
everything else of its stream. Each action has a lemma for the stream it is about,
and one lemma covers all the others, which only see frames that are not theirs
come and go.

`AdminPlane_proofs` proves, for any finite set of tenants, any workers,
administrators, apps, policies, credentials and scenarios (`TenantAssumption`,
`AdminAssumption`, `PolicyAssumption`, `PlaneAssumption`):

- `TypeCorrect`: `Spec => []TypeOK`
- `GraceKept`: `Spec => []GraceRespected`
- `RevokedInert`: `Spec => []RevokedAdminInert`
- `CompileComplete`: `Spec => []CompileReflects`
- `BundlesSound`: `Spec => []BundleSound`
- `GuardsSound`: `Spec => GuardSound`
- `PlaneConfined`: `Spec => Confined`

A handler uses later what it has read or checked before, so `PlaneInv` ties each
request to the tables. `LinkInv` says at which steps a worker has a transaction, a
sweep and the advisory lock, which operation it is at, and that whoever is past the
gate was authorized for it; a step of a worker is shown once to keep it for all
(`WorkerOK`), and the other parts then look at their own operations only.

- `GraceInv`: whatever is on the list of a sweep has an earliest deadline that is
  past, and that stays true while requests cancel, set new deadlines or change the
  status: the history only gets earlier and the clock only later.
- `GuardInv`: rows locked by a transaction are active, and one that may write a row
  it has locked has locked another. The row that stays active is that one, which
  nobody else can write. The finding *LastAdmin* is the case the theorem leaves out:
  the target was not active when the guard reached it.
- `CompileInv`: what a compilation holding the lock has read is a beginning of the
  tenant's policies at least as long as what the request, and any compilation that
  has succeeded, promised; the active bundle is sound for the apps there are. The
  lock is needed for the promise only: a compilation without it could activate an
  older reading after a newer one.

That a bundle holds every policy, in the order of the priorities, needs the sort:
`Precedes` is a strict total order, so the number of policies before each is an
injection of a finite set into itself, hence a permutation, and it is the order that
`SortRules` chooses. `Decide` takes the least index that matches, which therefore
has the least priority number. The order of rules and the list of a sweep are
defined by what they have to satisfy, so that this can be proved.

*PlaneConfined* found the action property wanting: a request that sweeps two due
tenants stays at one program point between them, so `Acts`, which only looked at the
request, missed the second. No instance had two tenants due for a request; with such
a scenario TLC violated the old formula. `Acts` now looks at the sweep too,
`Confined` covers the keys, and the scenario is part of the run.

The proofs made explicit that the names of the cron and of a free lock are no
workers' names, that the bootstrap subject is a subject, and that a scenario requests
only operations there are.

Every inductive invariant named in this section was checked by TLC on the
component's instance before it was proved. Every invariant and action property of
the passing runs but `LongestPrefixWins` is a theorem. Otherwise only
model-checked is liveness (`Convergence`, `ReadersFinish`, `EntriesReaped`,
`SweepCompletes`, `RiskRevokes`, `TunnelFollows`), because fairness and ENABLED are
beyond the prover. Induction is used only as the existence of a least
element of a set of naturals (`NatMin`); the library's induction theorems take a
predicate as parameter, which the provers cannot instantiate.

## 6. Not modelled

Cryptography is ideal, PostgreSQL is transactional with the isolation the code
asks for, TCP is FIFO. Packet layouts, HTTP decoding, logging and metrics are left
out. Of the components:

- the connector registry is a map under a mutex whose evictions compare pointers;
- firewall, DLP and SWG are functions of one packet or text against patterns;
- link monitoring and rate limiting are arithmetic on one variable under a lock;
- the clients of the identity providers are I/O, and so are their token caches,
  except that a token put back after a provider's deletion stays until it expires;
- audit, metrics and the registry of PoPs write rows that no other step reads;
- `policy.pb.go` is generated, the console is presentation.

## 7. What remains

The connector registry composed with the multiplexer, so that a reconnecting
connector that replaces its connection while the old one is evicted
(`revtunnel.go`) has a property. Some hazards have no property because the code
does not exclude them, among them the site list that is read before the
registration (`pop-agent/main.go`), the source address that `removeLocked` takes
from a site that has meanwhile got it (`router.go`), and the cache entry that is
written back after an eviction (`xds/server.go`); their notes in `PROJECT.json` say
what the models do with them.
