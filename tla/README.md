# nk in TLA+

Specifications of [nk](../src/README.md), the command line client of Nokku: how it gets an ssh
connection to a server with a short-lived certificate, and how an operator adds and removes servers.
nk is a set of short-lived processes that share files under `~/.config/nk`, a background agent, a
backend that may be away, and root shells on other people's servers. Most of what can go wrong lies
between those processes, so that is what the modules are about.

Paths below are under `src/internal/`.

## The system

| Component | State | Operations | Talks to |
|---|---|---|---|
| Background SSH agent (`ssh/agent.go`, `ssh/agent_unix.go`) | `agent.sock`, `agent.sock.lock` with an flock, one listening process, idle timer, the signer of the current public key | `EnsureAgent`, `RunAgent`, `listenAgent`, `lockedListener.Close`, sign, the shutdown extension | started by `nk proxy`, used by ssh, stopped by `nk logout` |
| ssh hooks (`cmd/proxy.go`) | none of their own | `nk prepare` (Match exec), `nk proxy` (ProxyCommand) | state files, backend, certificate, agent, dial race |
| Access sync and renewal (`client/client.go`) | snapshot in memory | `Sync`, `SyncOrCache`, `sync`, `EnsureCert` | backend, every state file |
| Device login (`client/login.go`) | session, ticker, timeout, retry flags | `ensureSession`, `deviceLogin`, `pollDeviceToken` | backend, browser |
| Local state (`state/`) | `config.json`, `cache.json` | `Load`, `LoadCache`, `Save`, `MarkSyncFailed`, `SessionValid` | all commands |
| Certificates (`ssh/certs.go`) | one file per server | `CheckCert`, `CertValid`, `CertFresh`, `CertCovers`, `CleanupCerts` | hooks, sync |
| ssh_config (`ssh/config.go`, `ssh/own.go`) | the included file, the Include line | `WriteConfigs`, `hostAliases`, `readOwnHosts`, `RemoveInclude` | sync, ssh, the user's own config |
| Identity keys (`ssh/keys.go`) | signer state, `nokku.pub` | `SetupKey`, `PubKey` | agent, renewal, certificates |
| Dial race (`ssh/proxy.go`, `client/relay.go`) | one goroutine per dial, a channel, a timer | `Proxy`, `closeLosers`, `pipe` | endpoints, relay of the backend |
| Server trust (`client/trust.go`) | the kept CA in `config.json` | `pinServer`, `confirmServer`, `keepCA`, `OfferRemoval` | `Sync`, the system trust store |
| `nk sync`, `nk rm` (`cmd/target.go`) | none of their own | find, probe, create, write, report, clean, delete | host over ssh, backend, snapshot |
| Host scripts (`manual/`) | CA file, drop-in, principals files on a host, their backups and staging files | probe, write script, remove script | sshd of the host |
| `nk login`, `nk ls`, `nk logout` (`cmd/login.go`, `cmd/list.go`) | - | sync, print, remove the config directory | the above |
| `nk doctor --fix` (`doctor/doctor.go`) | snapshot in memory | `repair` | ssh_config, certificates |
| Grants, paths, output, installer, Secure Enclave | no protocol | parse, check, format | - |

What is hard about it:

- *Interleavings.* Any number of `nk prepare` and `nk proxy` run beside each other and beside `nk ls`.
  None of them locks the state files: each reads a snapshot, waits for the network, and writes whole
  files back. Agents race for a socket path. Dials race for a channel.
- *Failure.* The backend goes away and comes back, sessions run out, agents are killed and leave their
  socket, a root script is cut off between two commands, an answer is lost after it took effect.
- *Time.* Freshness of snapshot and certificate, the minute in which a failed sync is not repeated,
  the head start of the relay, the idle timer of the agent, the poll interval of a sign-in.

The properties that make each component correct, by component: *agent*: one listener, always
reachable, nobody unlinks its socket, a connection fails only for a reason; *hooks and sync*: ssh works
through an outage, access converges to what the backend hands out, a revoke takes the certificate
away, an outage costs one attempt; *dial race*: fails only after everything failed, leaks nothing,
waits for nobody once somebody connected; *host scripts*: all or nothing, never a torn file;
*nk sync / nk rm*: no deleted target on a host that still trusts the CA, no unasked change of a pinned
host key, no second target for one server; *login*: no hot loop, no endless wait, no browser under ssh,
a bounded number of sign-ins; *identity*: key, public key, agent and certificates come to agree; *state
files across servers*: a session, a CA and a snapshot are never used with another server; *host names*:
no server takes over a name of the user's, no two share one.

## Modules

| Module | Models | Checked by |
|---|---|---|
| `Agent` | agent processes, lock file, socket, ssh sessions | `MCAgent` |
| `AgentService` | abstract: agents take connections one after the other | refinement target of `Agent` |
| `AgentLogout` | `Agent` composed with `nk logout` | `MCAgent` |
| `Identity` | `SetupKey`, renewal and logout against the agent's keyring | its own cfg |
| `Access` | hooks, sync, renewal, doctor, state files, certificate, backend history | `MCAccess` |
| `Session` | config.json and cache.json across servers, private CAs, sign-in and logout | its own cfg |
| `SshConfig` | host aliases, the reader of the user's ssh config beside ssh's own reading of it, the Include | `MCSshConfig` |
| `Proxy` | the dial race, `closeLosers`, `pipe` | its own cfg |
| `Login` | one `Sync` with its sign-in, ticker and timeout | its own cfg |
| `HostAtomic` | abstract: a run on a host takes effect as a whole or not at all | refinement target |
| `HostSync` | the write and remove scripts, command by command | `MCHostSync`, which holds the refinement mapping |
| `Targets` | `nk sync` and `nk rm` of any operators over host, backend and snapshots | `MCTargets` |
| `AgentProofs`, `SshProofs`, `SessionProofs`, `HostSyncProofs`, `LoginProofs`, `TargetsProofs`, `IdentityProofs`, `AccessProofs` | theorems about the module they are named after (`AgentProofs` also about `AgentLogout`, `SshProofs` about `Proxy` and `SshConfig`) | tlapm |

Operators whose comment begins with "Mutant" belong to no specification. Each one is a plausible bug
in the definition below it and shows that a property notices it; `PROJECT.json` says which.

### Agent and AgentLogout

A member of `Agents` is a slot for an agent process, `apc` its place in `RunAgent`: dial the socket
(`FindAlive`), open the lock file (`OpenLock`), flock it (`TakeLock`, `LoseLock`), remove a stale socket
(`RemoveStale`), bind (`Bind`), serve (`Accept`), and on the way out unlink, close, unlock
(`Shutdown`, `CloseListener`, `Unlock`), in the order of `lockedListener.Close`. `Accept` fails once the
descriptor is closed, so the process may end before the lock is given back or after it (`Exit`). `Crash`
may come at any step, and `ListenFails` is an error of `OpenFile`, `Remove`, `Listen` or `Chmod`.
A lock belongs to the inode that was opened, not to the path; that matters once `nk logout` removes
the directory. A member of `Sessions` is an ssh connection: `EnsureAgent` with its one start and its
polls, then ssh's own dial, queue and signature. `StartFails` is a `cmd.Start` that fails. `ended[s]` is a
history variable: since `s` began some agent ended, or its own could not be started.

`GiveUp` needs `Settled`: fifty polls take five seconds, while a start or an exit takes a few system
calls. A machine so slow that this fails is not modelled.

`AgentService` is what of all this can be seen from outside: the agent that takes connections, those that
are leaving, and who is connected to which. `OneService` maps `Agent` to it: an agent is the current one while
it serves, it is leaving from `Shutdown` to the end of its process, and a session is connected once ssh's dial
is queued. Starting, locking and cleaning up are stutters.

`AgentLogout` adds `StopAgent` and `RemoveAll`. The agent logout waits for may refuse, be idle or
starting; removal then takes socket and lock file from under it. `MCAgent` holds both: a behaviour is about a machine
where nobody logs out (variables of `Agent`) or about one where somebody does (those of `AgentLogout`, with a `2` in
their names), which share nothing.

### Identity

Four things have to agree before ssh gets in: the key `ssh-signer.json` stands for, `nokku.pub`, the signer
in the agent's memory, and each certificate. A key is a number; a lost one is recreated as itself (a TPM
derives it again) or as the next number. `SetupKey` is five actions: open the signer, read `nokku.pub`, write it,
list the certificates, drop each. The renewal that follows sends whatever `nokku.pub` says then.
`nk logout` removes the files one by one, in any order. The agent reads `nokku.pub` when a connection comes
(`Accept`) and loads the signer afterwards (`Load`), so that everything may change in between. `quiet`
states that from some moment on no key is lost, nobody logs out and nothing is killed.

Assumed: `tpm.NewSigner` makes or loads a key in one step (it is outside the repository), and a number that
was given up never comes back.

### Access

One server and its history of access on the backend. A behaviour is about one member of `Worlds`: `History`
says what the backend hands out over time (an account is granted, the CA is rolled over, access is revoked),
`Acting` which processes run, `Env` what goes wrong (outages, sessions that end). A snapshot or certificate is named by the
epoch it was taken in, which is all that `CertValid`, `CertCovers` and `CertFresh` can tell apart. Ages replace
time stamps and are capped where the code stops telling them apart, so behaviours go on for ever and
liveness means something.

Each process has a record `nk[p]`: its place in the code and its own session and snapshot in memory, loaded when
it starts, as `state.Load` does; `nk proxy` loads again because it is another process than `nk prepare`. Every
read, request and write of a file is an action of its own: `config.json` and `cache.json` are saved one after
the other, `CleanupCerts` lists before it removes, `MarkSyncFailed` writes the whole snapshot of its
process over what is there. `nk doctor --fix` (`Repair`, `Prune`) writes ssh_config and prunes from the
snapshot it loaded. Two steps are coarser than the code: a sign-in (module `Login`), and the
answer of the signing service with its check and file (no clock tick between them, `Install`).

### Session

The same two files, seen across servers instead of over time. `config.json` holds server, session and the
private CA of that server; `cache.json` the server of the snapshot and whose targets it lists. One command
of the user (with or without `--api`) and the hooks ssh starts load both, work on copies and save
one file after the other; any of them may be killed between two steps. A token remembers who issued it
and whether it is still accepted. `KeepCA` stands for `--pin` and for the confirmed question, `Install` and
`OfferRemoval` for the system trust store. Three history variables: `out` is the server of the last logout, `dropped`
the live tokens that a switch or an overwritten file took off the disk, `unrevoked` those a logout could not revoke while
a hook had them in memory.

### SshConfig

What `readOwnHosts` makes of the user's config (`blocks`, `cur`), line by line and through Includes, and next to
it what ssh makes of the same lines (`active`, `on`, `named`, `sent`): the block of the current line, the names that line
is for, and which have been given a destination by name. ssh leaves an Include in the block it stands in; the reader
keeps the last block of the included file. `agreed` are the names whose destination stands where both have the same
block. A file in `Unread` is one the reader does not open (no regular file, over 1 MiB, unreadable) and ssh may;
`limited` says that one was left out. A pattern is the set of names it hits, negated or not, wildcard only or not. `Write`
then takes any snapshot, gives aliases and writes nk's own file, which the user's config includes from then
on, so the next read meets it.

### Proxy

`dial[d]` is the goroutine of one dial: dialing, offering a connection or an error on the unbuffered
channel, received. `pending` is the counter of the loop, `closing` what `closeLosers` still has to
receive. A dial that was cancelled may still have connected. Dials may hang for ever. `KeepAlive` is
`ServerAliveInterval` of the generated ssh_config: after the server hung up, ssh's unanswered keepalives make it
close the proxy's stdin (`silent`).

### HostSync and HostAtomic

A file of the host has a live version, a backup `f.nokku-bak` and a staging file `f.nokku-tmp`; sshd may
read the live one at any moment. Each command of the script that touches a file is an action; a copy or
a redirection opens the file (content `Torn`) before it fills it. `rejected` is what this host's sshd
refuses; `EditHost` changes it at any time. `trouble`, a member of `Troubles`, is what the host comes with:
an sshd that rejects (`reject`), scripts that are cut off (`abort`), or both. `Abort` ends a script at any
command, which is what `set -e` does on an error and what a lost connection may do.

`HostAtomic` knows only the files as a whole: a sync applies its plan or does not, a removal clears the
host or does not. `MCHostSync` maps: until `sshd -t` accepted, the abstract content is what it was before
the run; from then on it is the plan (or nothing). `AllOrNothing` is that specification as a property, for
hosts on which no script is cut off: an interrupted one leaves what `nk sync` is told to run again for.

### Targets

One server with its host key, the targets the backend has for it (`pin`, and in `had` every key it had of each),
and each operator's snapshot. `Stop` is whatever ends a run early: the backend, the host, or a target that runs the
daemon. Any number of operators are at work; `alone[o]` is a history variable: no other run
overlapped that of `o`, whatever came before it.
The script is one action here: it takes effect, does not, or is cut off with any effect. `Env` says what
may go wrong: an `answer` lost after the backend acted, a `sync` that falls back on the old snapshot, a
script that is `cut` off. `Reinstall` gives the server a new key. That a script which ends well has taken
effect as a whole is what `DoneIsExact` says of `HostSync`.

### Login

`Sync` with its stages: the first one, the one after the certificate of the server was confirmed, the
sign-in after a rejected session, the last one. `pollDeviceToken` runs against any sequence of answers.
The ticker holds one tick that nobody has received; `Reset` drops it (go 1.23 semantics, the module
declares go 1.27). `since`, `burst` and `signIns` are history variables (the type invariant bounds `burst`: no hot loop). `slow` says whether answers on this
network may take any time, or always less than what is left until the next tick.

## Runs

Each passing run asks all the questions of one module on one instance (`agent` those of two); each violated one is about a single
sentence of the repository.

| Run | Shows | Instance |
|---|---|---|
| `agent` | one listener, holder of the lock; the path leads to it; no connection fails without an agent having ended or failed to start; after agents stop ending, one of them answers for good; all of it looks like `AgentService`; with `nk logout`, an accepting agent still holds the lock it opened | 3 agents, 2 sessions, 1 lock file; with `nk logout` 2 agents, 2 sessions, 2 lock files |
| `identity` | an agent that sees no reason to reload has the right signer; once keys stop changing, public key, agent and certificates agree for good | 2 processes, 2 keys, 1 server, the agent |
| `access` | a connection that began with a good certificate never fails while it lasts; an outage costs one attempt; after a grant connections bring the snapshot up to date, after a revoke `nk ls` takes the certificate away | a grant: 2 connections with outages, 1 with outages and lost sessions; a revoke: 1 connection and 1 command |
| `access_rollover` | *violated*: after a CA rollover connections never refresh the snapshot | 1 connection, everything up |
| `proxy` | fails after all, leaks nothing, connected is piped, ends when the server hangs up | 3 endpoints and the relay, every subset of them |
| `login` | no hot loop, the interval is kept while answers are quicker than the ticker, polling ends, at most two sign-ins | intervals 0..2, deadline 6, waits up to 4 |
| `session` | session and CA stay with their server; nobody uses another server's snapshot; a logout leaves no session that still counts, but for the exceptions `LogoutEndsSession` names | 2 servers, one with a private CA, the user and 1 hook, 2 sign-ins |
| `host_sync` | never a torn file, refinement of `HostAtomic`, a sync that ends well leaves its plan, no backup and no staging file among the principals files, a removal none of its files and nothing among the principals files | 1 run at a time, 3 files, 2 contents, 3 kinds of host; rejecting or interrupted |
| `host_sync_restore` | *violated*: a roll back restores a backup of an interrupted run | same, both |
| `targets` | a run nobody overlaps adds no server twice and deletes only from a clean one; a key users never had needs consent | 2 operators (alike), 2 ids (alike), 2 host keys, all failures |
| `ssh_config` | the user's names are kept where nk and ssh have a line in one block, no two servers share one, writing again renames nothing | up to 3 lines (4 around an Include), an included file of up to 3 lines and one of 1, one that nk does not open, 3 servers, 3 snapshots |
| `ssh_config_include` | *violated*: the reader has every line in the block ssh has it in, so it keeps all of the user's names | same |

### Why the bounds are enough

- *Agents.* Three are the first that can show a chain: one exits, one is between its dial and its lock,
  one starts. Two lock files are one before and one after a logout; a third would need the first to be
  forgotten by everybody, and then it is free again.
- *Identity.* Two processes are the first where one writes what another one read; a second key is the
  recreated one, and one agent is enough because each keeps its own memory.
- *Access.* Two connections can overwrite each other's snapshot; a command adds the interactive path.
  `FreshFor` and `RetryAfter` are 1 and `Life` is 2 (in `access_rollover` 2, 1 and 4): one tick is
  30 s at least, and each of the three runs out on its own, in the order the code's one minute, half minute
  and certificate lifetime have. `OfflineKeepsWorking` is about a history that only grants: a rollover
  makes a snapshot refuse the certificate on purpose. `OutageCostsOneAttempt` is about connections to
  accounts the certificate covers. `AccessSettles` leaves out people who run `nk doctor --fix` for ever.
- *Session.* One hook with old files against one command is every lost update there is between two
  processes; two servers are one to leave and one to go to, two tokens the one left behind and the new one.
- *SshConfig.* Four lines hold a block, an Include, a second block and its destination; two in the included
  file hold a block and a destination or another Include, also of itself. `MaxDepth` 2 and `MaxFiles` 4 are both reached.
  Destinations after an Include, where reader and ssh part, are among them.
- *Proxy.* The theorems hold for any number of endpoints; three show the first of several failures,
  the last one, and a loser of each kind.
- *Login.* A tick stands for 5 s. The deadline is longer than any wait, waits grow twice. `MaxWait` only
  stops the server from answering slow_down for ever. `Lifetimes` leaves a missing lifetime out (see
  below).
- *HostSync.* One account, one content for a host that rejects it and one that it accepts. The two fixed
  files and a principals file are the three kinds the scripts treat differently.
- *Targets.* Two operators are the first who overlap; two ids allow a server added twice, two keys a reinstall at any
  step, and the two together an old key reported over a new one. The instance is large enough for each property to
  fail once a condition is dropped: without `alone` (two syncs at once add a server twice, a sync between cleaning
  and deletion leaves a host trusting) and without `behind` (an answer to CreateTarget is lost and the next run
  works from a snapshot that is older than that). Nobody claims otherwise of such runs.

### Fairness

- `MCAgent`: a process that can run runs, and people keep connecting. Agents never have to end; `quiet`
  states that they stop doing so, and starts stop failing, at a moment nobody chooses. The machine with `nk logout`
  needs none: its property is about what never happens.
- `Identity`: processes run, ssh keeps connecting to the agent, time passes (a certificate of a former key
  ends by its lifetime). No agent has to end.
- `Access`: time passes, processes run, people connect; in the world with a command they also run that, `nk ls`,
  `nk login` or `nk doctor --fix` as they like. The backend owes nothing: the properties themselves say "if it stays
  up".
- `Session`, `SshConfig`, `Targets`, `HostSync`: none; their properties are about what never happens.
- `Proxy`: the main goroutine, `closeLosers` and the clock run, ssh sends its keepalives, and closes stdin once they
  stay unanswered. No dial has to end, nor a copy while the server answers: the relay dial has no timeout of its own.
- `Login`: a request ends some day, the clock runs, and a `select` with two ready channels takes each of
  them sometimes (strong fairness of the timeout; Go chooses at random). That a request ends is an
  assumption: the fifteen minutes do not bound a poll that never returns.

`CHECK_DEADLOCK FALSE` is set for `Proxy` only: the process ends.

## Proofs

tlapm checks every step, for all values of the constants that meet the named ASSUMEs of a module, which say what
kind of thing a constant is and that `None` is none of it. Where a theorem needs more, it says so in its own
ASSUME, listed under *Needs*.

| Module | Proved | Needs |
|---|---|---|
| `AgentProofs` | `TypeOK`, `OneListener`, `ServingReachable`, `UnlinksOwnSocket`, `NoSpuriousFailure`, `OneService`; of `AgentLogout` `ListenerHoldsItsLock` | |
| `SshProofs` | of `Proxy` `TypeOK`, `FailsOnlyAfterAll`, `NoLoserLeft`, `RelayHeadStart`; of `SshConfig` `CTypeOK`, `OwnNamesKept`, `AliasesDistinct`, `AliasesStable` | `Proxy`: finitely many endpoints; `AliasesDistinct`: `IdsUnspelled` |
| `SessionProofs` | `TypeOK`, `SessionStaysHome`, `ForeignNeverUsed`, `LogoutEndsSession` | |
| `HostSyncProofs` | `TypeOK`, `AloneIsExact`; `DoneIsExact`, `AllOrNothing`, `RollBackExact` where nothing is cut off, `NeverTorn` | `TypeOK`, `AloneIsExact`: none; the others: `OneRun`; `NeverTorn` also `NeverBoth` |
| `LoginProofs` | `TypeOK`, `NoThirdSignIn`, `PollSpacing` | `NoThirdSignIn`: `"none" \notin Lifetimes` |
| `TargetsProofs` | `TypeOK`, `DeletedMeansClean`, `NeverAddedTwice`, `PinNeedsConsent` | |
| `IdentityProofs` | `TypeOK`, `ServesCurrent` | |
| `AccessProofs` | `TypeOK`, `OutageCostsOneAttempt`, `OfflineKeepsWorking` | `OutageCostsOneAttempt`: `2 * RetryAfter <= Life`; `OfflineKeepsWorking`: `FromTheStart`, and `OneCommand` or a machine that has a snapshot |

Each hypothesis is there because the statement is false without it, and each has its entry in the next section.

*Agent.* `OneListener` is not inductive; what keeps it is `LockInv`: whoever has a lock file open has the one at
the path (nothing in `Agent` removes it), from `RemoveStale` to `Unlock` an agent holds that file's flock, it listens
exactly between `Bind` and the close of its descriptor, and it owns the path exactly while it serves. Only `OpenLock`
and the releases (`Unlock`, `Exit`, `ListenFails`, `Crash`) need an argument, which are the lemmas `OpenLockStep`, `ReleaseStep`
and `HolderStep`. For `NoSpuriousFailure` the invariant `SessionInv` adds that a session which got this far without
an agent having ended has one to talk to or one that is starting. With `nk logout` the first conjunct is false;
`OwnLocks` is what is left of the others, and gives `ListenerHoldsItsLock`. For `OneService`, `ConnInv` says that a
session is connected only to an agent that serves or is on its way out; then each step is one of `AgentService` or
a stutter: `Bind` is `Come` (nobody serves, by `LockInv`), `Shutdown` is `Stop`, `Exit` and `Crash` are `Go`.

*Proxy.* `RaceInv` says that the number of dial goroutines that have not handed over a result is
`pending + closing`, and that the timer is off once the relay is started. Each receive takes one out of both counts
(`HandOver`), so the loop ends with `pending = 0` only when nothing is in flight, and `closeLosers` receives
neither too few nor too many results.

*Session.* `SessionInv`: a config that left `LoadState` names a server, every token and snapshot names the server it
came from, and a session that still counts is in `config.json` or on its way there in the process that has just
signed in. The last part (`HeldIsOnDisk`) is what makes `LogoutEndsSession` inductive: a hook that saves an old
config after a logout can only bring back a session that was revoked, or one the logout could not revoke, which is then
in `unrevoked`.

*HostSync.* Two invariants. `Forward` holds however often a run was cut off: the files behind the loop are as
planned (`Brought`), and every backup and every file of a former account is on the list of what will be removed
(`Swept`), as is every staging file among the principals files (`Staged`); that gives `DoneIsExact`. `Exact` says for every command of a script what each live file, backup and
staging file is in terms of what the run found, on a host where no run is cut off. It gives the roll back, and the
refinement of `HostAtomic` (`Atomicity`): the step that maps to the abstract one is an accepting `sshd -t`,
every other step maps to a stutter. On a host whose sshd rejects nothing, `Easy` and `Untorn` carry `NeverTorn`
through runs that are cut off. `Forward` is about one run and assumes nothing of the files, so `AloneIsExact` starts it in
any state at all: from the first probe of a run that is alone, whatever others that overlapped left on the host.

*Login.* `Bursts` counts the retries that may follow a poll at once (each uses up a flag, a tick gives one back), which
bounds `burst` in `TypeOK`; `Stages` says how many sign-ins may have happened at each stage of `Sync`; `Clock` ties
the time since the last round to the time until the next tick, through every slow_down.

*SshConfig.* `ReaderInv` is about the middle of a read, with any number of files open: the names a line is for stand in
ssh's block of that line, and so they do in every file that is only half read (`Covered`); hence every name that was
given a destination in a block which is also the reader's is in one the reader knows to have a destination (`Sending`).
A bare name is one that no such block claims (`Spared`). For
`AliasesDistinct`, no block names the id of a server that is also somebody's name (`Unspelled`), and the lemma
`TwoNamesakes` leaves only servers of one name, who get no bare name. For `AliasesStable`, what nk's file was written
from and what is written now are ends of the same read (`Retold`), because nk's own file is left out and the line that
includes it leaves no trace (`PassNk`). That the read has one end only (`OneEnd`) would be an induction over its steps;
`Reached`, the states that are in every set which holds the start and is closed under `ReadOn`, does without.

*Targets.* `Pins`: every key in a pin or a snapshot is one Nokku had (`Known`), a run that was not told to accept a key
holds none Nokku never had (`Agreed`), and while a run that is alone is at work nobody else is (`Solo`), so what it
has learnt of backend and host stays true until it changes it (`Answered`, `Cleaned`). The step of one operator is
proved against its own run and, once for all actions (`OthersStep`), against everybody else's.

*Identity.* `Keyed`: keys are counted up, so the key of the machine is the newest one and every copy of a public key
names one at most as new; the signer an agent holds is at least as new as the public key it is filed under (`Filed`),
because `Accept` reads the public key before `Load` takes the signer. The other order is the mutant of `ServesCurrent`.

*Access.* Three invariants. `Typed` is `TypeOK` and what a process has in memory at each place in the code (`Sound`):
whoever renews has a snapshot that lists the server, and a noted failure is only ever in such a snapshot. `Attempts`
adds that a certificate another process installed between two checks of a connection is younger than the failure its
snapshot notes, hence the bound on `Life`. `Offline` adds that, where accounts are only granted, no step takes a
snapshot or a certificate away (`AllGood`, `SignedIn`), so a connection that began with both never comes to `failed`
(`Armed`); `NewMachine` is the time before the first snapshot. What a step of one process has to keep for that is
`Keeps`, proved action by action, and `KeptSafe` and `KeptNew` draw the conclusion once for all of them.

Only model-checked:

- `Recovery`, `IdentityHeals`, `AccessSettles`, `ConnectedIsPiped`, `HangUpEnds`, `PollingEnds`: the prover
  has no rule for liveness under fairness.

`RelayHeadStart` and `UnlinksOwnSocket` (in `Agent` part of what `ServingReachable` says) are proved and in no run.

## Where code and promise differ

Each is a run whose property is a sentence of the repository and whose counterexample is a behaviour of
the code.

1. *CA rollover* (`access_rollover`, `cmd/proxy.go:148`). `nk prepare` checks the new certificate against
   its old snapshot, rejects it and notes an outage; `nk proxy` respects the note and does not sync.
   Repeats until `nk ls`. A revoke that refuses the renewal has the same effect.
2. *Old backups* (`host_sync_restore`, `manual/script.go:98`). A roll back restores backups it did not make.
3. *Includes* (`ssh_config_include`, `ssh/own.go:110`). The comment at `ssh/own.go:64` says that the current block outlives
   an Include, the way ssh keeps its active block. ssh goes back to the block the Include stands in. So for `Host web`,
   an Include of a file with a block of its own, then `HostName`, nk gives the destination to the included block, and a
   server named `web` takes the user's over. The same for `Host web` and two Includes, the second of a file that begins
   with a destination.

The same modules show more with another constant or without one conjunct. No run keeps these; the
passing runs make the opposite assumption, so their properties hold only under it:

- Logout under an agent (`cmd/login.go:59`) removes the lock file, so two agents hold a lock, and the first to
  exit unlinks the socket of the other: `UnlinksOwnSocket` under `LSpec`.
- Two runs on one host share the staging file (`manual/script.go:114`): `NeverTorn` with `Runs = {r1, r2}` (`OneRun`).
- An interrupted run leaves torn backups, and a later one that sshd rejects restores them (`manual/script.go:98`):
  `NeverTorn` with a host that both rejects and interrupts (`NeverBoth`).
- Two sign-ins on a new machine: `deviceLogin` saves the snapshot its process loaded before it waited for a person
  (`client/login.go:84`). That one is empty and replaces what another command fetched meanwhile, so `SyncOrCache` has
  nothing to fall back on in the next outage: `OfflineKeepsWorking` with two commands and a history of one epoch
  (`OneCommand`). On a machine with a snapshot, an older one that lists the server is all that can come back, which is
  enough (`SignedInWorks`).
- Certificates that live less than twice the 30 s of `syncRetryAfter`: one that another connection
  installs between two checks is due for renewal while the failure of before is still noted, and this connection tries:
  `OutageCostsOneAttempt` with `RetryAfter = 3`.
- An access that is granted only later: `nk doctor --fix` loads a snapshot without the server, then the account is granted,
  `nk ls` fetches it and a connection its certificate, and doctor removes that one (`doctor/doctor.go:240`):
  `OfflineKeepsWorking` for a history that begins without the server, with two commands (`FromTheStart`).
- A sync by another operator between the cleaning and the deletion (`cmd/target.go:329`): `DeletedMeansClean`
  without `alone`. Neither of the two is told: one has synced, the other deleted.
- A token without a lifetime keeps an expiry that is past (`client/login.go:81`): with `Lifetimes = {"future",
  "none"}` a finished sign-in may store a session that has run out.
- The ticker keeps a tick while a poll is slow (`client/login.go:204`), so the next one follows at once:
  `PollSpacing` without `~slow`.
- The renewal for an account the certificate does not cover does not look at the note of an outage
  (`cmd/proxy.go:88`), so each connection pays for an attempt: `OutageCostsOneAttempt` without `CertCovers`.
- A logout is best effort (`client/client.go:169`). Where its revoke fails and a hook has loaded `config.json` before, that
  hook may save the session again, and the server still accepts it: `LogoutEndsSession` without `unrevoked`.
- A file that is too large, unreadable or beyond the limits of `readOwnHosts` (`ssh/own.go:78`) is skipped although ssh
  reads it: `OwnNamesKept` without `~limited`.
- A Host line of the user's that spells out the id of a server, when another server has that id as its name
  (`ssh/config.go:69`): the name is the user's, so it becomes `nokku/<id>`, which is also what the first server is called
  if it shares its own name with a third: `AliasesDistinct` without `IdsUnspelled`.

And these are behaviours that no property forbids, but that a reader should know:

- For a new target `CreateTarget` comes before the write to its host (`cmd/target.go:119`), so a write that fails leaves
  the target with its grants, although the message says that nothing was reported (`cmd/target.go:248`).
- A hook that loaded `config.json` before a login, a switch or a logout saves it over the new one, or brings it back
  (`state/state.go:145`). The session in it is of the right server and, after a logout, revoked if the revoke succeeded;
  if it failed, the server still accepts it.
- What a script that was cut off left of the CA and the drop-in may outlive a run that ends well: `f.nokku-tmp` a sync
  that finds the file unchanged, `f.nokku-tmp` and `f.nokku-bak` an `nk rm`. sshd reads neither.
- A switch of servers starts a new `Config` (`cmd/cmd.go:106`) and forgets `APICAInstalled`, so `nk logout` does not offer to
  remove the CA nk installed for the server before.
- `--ca-file` ends up in `config.json` with the next save, while `src/README.md:157` says flags apply to one run.
- A snapshot that was written before the field `Server` existed counts for any server (`state/state.go:139`).
- `nk doctor --fix` writes ssh_config from the snapshot it loaded, which may list a server that a revoke took away
  and the next `nk ls` removes again.
- A certificate for a former key that is written late, or left by a `SetupKey` that was killed, counts as fresh until
  it expires (`ssh/keys.go:58`): `IdentityHeals` needs time to pass.

## Not modelled

- The Windows named pipe, the Secure Enclave and TPM signers: calls into the platform.
- DPoP proofs, TLS, HTTP, the wire format of the relay: data, or libraries outside the repository.
- Rendering, quoting, output, flags, known_hosts, the installer, the checks of `nk doctor` (they read and print).
- The lookups for the grants of a new target (`client/grant.go`): pure functions over lists of the backend,
  one step of `Targets` that may fail.
- `state/map.go`, which turns the backend's messages into a snapshot.
- Service accounts, whose session never ends; `--dry-run`, which only reads.
- Targets without a pinned host key: for one that exists already and was made elsewhere the first sync pins the key
  (`cmd/target.go:178`). `Targets` knows only targets that `nk sync` made, whose pin is never empty.
- Local failures of a sync or a hook in `Access`: `client.New` that cannot open the key (`cmd/proxy.go:57`), an error of `Save`
  or `WriteConfigs` (`client/client.go:163`), a snapshot whose CA is missing (`cmd/proxy.go:70`). The first and the last end the
  hook; the second makes the sync a failed one after its snapshot was written.
- In `Login` a session that runs out while the command waits for an answer of the user; it may between two commands.
- That an agent which a logout cut off from its path leaves once it is idle.
- The servers' own trust during a rollover, where a certificate of the previous key may still be good.

## Plan

The state-changing code is modelled, and every safety property of a passing run is proved. What is left:

1. The safety half of `AccessSettles`: after a revoke no step brings back a snapshot that is newer than the answer it came
   from.
2. What `NeverTorn` and `AllOrNothing` become when runs overlap on one host, which the theorems with `OneRun` leave open.
