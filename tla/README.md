# Verification of smtp-auth-proxy

The proxy accepts mail from devices over authenticated SMTP, stores it in a
queue in SQLite or PostgreSQL, and delivers it to Microsoft 365 with OAuth.
Several replicas may share one database. This directory holds TLA+ models of its
parts, TLC configurations that check them on small instances, and TLAPS proofs
of the safety results for every instance.

Run `tlc -config X.cfg M` for a run of the tables below (`PROJECT.json` names
module and configuration) and `tlapm M.tla` for the proofs.

## The system and its parts

| Part | Source | Modules | State |
|---|---|---|---|
| delivery queue, retry schedule | `internal/queue/worker.go`, `backoff.go`, `internal/store/messages.go` | `Queue`, `Backoff`, `MessageLifecycle` | modelled, proved |
| per-mailbox limiter | `internal/queue/ratelimit.go` | `Limiter` | modelled, except `Forget`, which nothing calls; proved |
| SMTP server life cycle, `App.Run` | `internal/smtpsrv/server.go`, `internal/app/app.go` | `SmtpServe` | modelled, proved |
| TLS certificate and its renewal | `internal/smtpsrv/tls.go` | `CertReloader`, `SmtpFrontEnd` (with `SmtpServe`) | partly, proved |
| connection caps, PROXY protocol | `internal/smtpsrv/server.go`, `limits.go`, `proxyproto.go` | `ConnGate` | modelled, proved |
| SMTP session, authentication, submission | `internal/smtpsrv/session.go`, `internal/app/auth.go`, `submit.go` | `SmtpSession` | modelled, proved |
| sender policy | `internal/policy` | `Policy` | decision modelled and proved, pattern matching not |
| admin users, roles, revocation | `internal/adminapi/users.go`, `auth.go`, `internal/adminauth`, `internal/store/users.go` | `AdminUsers` | partly, proved |
| sign-in, lock-out, session lifetimes | `internal/adminauth/local.go`, `session.go`, `internal/store/users.go`, `sessions.go` | `SignIn` | modelled, proved |
| token clients, SMTP relay, Graph | `internal/oauth/provider.go`, `internal/transport` | `TokenCache`, `Upstream` | partly, proved |
| credentials, mailboxes, accounts | `internal/store`, `internal/adminapi/credentials.go`, `mailboxes.go`, `accounts.go` | `ConfigStore`, `ConfigApi` | partly, proved |
| migrations, bootstrap file, start | `internal/store/migrate.go`, `internal/bootstrap`, `internal/app/app.go` | `Bootstrap`, `Startup` | partly, proved |
| test mail | `internal/adminapi/diagnostics.go`, `internal/store/diagnostics.go` | `ConfigApi` | partly, proved |
| everything else | see `PROJECT.json` | | not modelled, see the end |

A message's path is `ConnGate` (may the connection open), `SmtpSession` (who is
it, may they send as this), `Queue` (lease, send, retry) and `Upstream` (token,
dialogue, verdict), with `Limiter` pacing each delivery. `SmtpServe` starts and
stops the listeners, and `SmtpFrontEnd` composes it with the certificate they
present. `Startup` composes what a replica does before it serves (`Bootstrap`)
with what operators do afterwards (`ConfigApi`), over the tables and constraints
of `ConfigStore`. `AdminUsers` and `SignIn` guard the interface operators use.

The models meet at the tables: `SmtpSession` ends where a row is committed and
`Queue` starts there (`Enqueue`); `Upstream` says what one `send` of `Queue` can
come to, and `Queue` when the next one is due. What operators do is an action of
the environment in `SmtpSession`, `Queue`, `Limiter` and `Upstream`.

## How the models correspond to the code

Conventions shared by all modules:

* Each statement sent to the database, and each `InTx`, is one atomic step.
  Between two statements of one goroutine anything may happen. A program
  counter (`pc`) says which statement comes next. `SignIn` is finer: it splits
  the one transaction that reads before it writes and in which the two databases
  differ.
* A handler that reads a row, edits the copy and writes every column back is
  modelled with that copy, so stale writes happen as they do in the code.
* Strings are model values. Addresses, passwords and key material are compared,
  never parsed.
* Operators named "Mutant" are plausible bugs. No specification uses them; each
  shows that the property it is paired with in `PROJECT.json` can fail.
* Every bound (`MaxFaults`, `MaxChanges`, ...) is a named constant and is a
  conjunct of a guard.

**Queue.** `msgs` is the table; the columns holding instants are kept relative
to now, so `Tick` needs no clock. A delivery goroutine occupies a slot and goes
through prepare, acquire, send, accepted and record, as `deliver` does. Leases
are fenced by owner only, as in the code. A restart under the same replica name
stands for a new `WorkerID`: a crash drops all goroutines, so none can write
under the old one. The two statements of housekeeping act on rows of different
status, so one action covers both. A hand-out that loses against a cancelled
context equals a claim that was dropped.

**Backoff** is the arithmetic of `backoff.go`; jitter is the set of delays it can
produce. **MessageLifecycle** is the abstract specification: what an observer of
one message is promised, without leases, workers or time.

**Limiter** follows one mailbox of one process, because limiters share nothing.
Tokens are integers in units of 1/`Minute` token; computing the refill when
somebody asks equals refilling on every tick up to the capacity.

**SmtpServe** has one program counter for `Serve`, one per listener goroutine and
one per caller of `Shutdown`. A listener's `Serve` of go-smtp ends when its socket is
closed, or with an accept error that is not the end of the server (`AcceptFails`).
The history variable `overtaken` says that `Shutdown` came to a listener that
go-smtp did not serve yet. **CertReloader** has the two files on disk, which a
renewal replaces one after the other, and the reloader, which looks at the
modification time of the certificate when a handshake comes after the reload
interval, and keeps the old pair when the new one does not load. No two contents
of the file share a modification time.

**ConnGate** has one accept loop per listener and one shared limiter; what a peer
sends first is one of six openings, and is chosen when the connection is
accepted, because nobody reads it before. A closed connection keeps only the
address its slot was counted under.

**SmtpSession** relies on go-smtp, which is not part of the repository, for the
following: one goroutine per session, RCPT after MAIL, DATA after RCPT, `Reset`
after DATA, no AUTH after a successful one, and a new session after STARTTLS. An
overlong LOGIN field and an unknown mechanism are refused without being counted
and change nothing. The history variable `guesses` counts the passwords that were
checked on a connection, over all its sessions. The list of mailboxes AUTH reads is stated by what is in it
and in which order (`ListForAccount`), as the query does.

**AdminUsers** leaves out session lifetimes and the lock-out, so a refused
sign-in changes nothing. A change of a user writes every column back even if it only
sets the e-mail address or the display name. The initial administrator is the one `adduser` creates.
**SignIn** is the complement: one account that nobody edits, its counter of
failures and its lock, and the sessions of browsers, each with its lifetime and
its idle time. On SQLite a transaction whose snapshot is stale may not write; on
PostgreSQL, at READ COMMITTED, it overwrites.

**TokenCache** treats MSAL as external: a token stands for the material its client
was built from. A delivery looks the client up, builds one and stores it in
separate steps, as `clientFor` does under separate locks. The mailbox test of the
admin interface uses the cache as a delivery does that ends with its token.

**Upstream** extends it with the two transports: for the relay, each command and
the class of its answer; for Graph, one request and its status. The copies the
upstream took are kept with the transport and the recipients: over SMTP those that
RCPT named, with Graph those in the headers (`InHeaders`), which in the instance are
one of the two envelope recipients and a stranger. `Permanent` is
the classification the queue acts on. A verdict that gets lost may have been an
acceptance. Messages not settled are tried again on any replica; the schedule is
`Queue`'s.

**ConfigStore** has one table of rows for credentials, mailboxes and accounts,
told apart by name, with unique names, foreign keys and the cascades of the
schema. Columns besides references, password and owner are one value.
**Bootstrap** is `Migrator.Up` followed by `Applier.Apply`, one transaction at a
time; the first error ends the process. **ConfigApi** has the handlers, each up to
its next statement; requests refused before they change anything take no step. A
change may rename the object, and with an account it may mention links, senders,
both or neither (`Mentions`). The instance has two names for mailboxes and one each
for credentials and accounts, so TLC renames mailboxes only; the proofs cover all.
**Startup** begins with a database that may be served already, by replicas of an
earlier deployment that did not have the file. Of its two history variables,
`disturbed` says that requests were in flight while the replicas that apply the
file did so, and is reset when none applies it any more; `settled` says that some
replica has applied it undisturbed. An account that declares a default mailbox and
no mailboxes, which `Validate` lets pass, is left out.

## What is checked

Passing runs:

| Run | Shows | Instance |
|---|---|---|
| `queue_replicas` | exclusion, duplicates only after faults, attempt and age limits, refinement, and that every accepted message settles | one message, two replicas, two faults, jittered retries |
| `queue_overruns` | a worker that writes after its lease ran out and another one took over undoes no verdict, and what is recorded as sent was accepted | one message, two workers in one replica and one in another, no limit on how long a delivery takes |
| `limiter` | no slot leaks over budget changes and cancelled waits, bounded bursts, no wait for ever | two deliveries, two budgets, a bucket that runs dry |
| `serve` | readiness, cancellation, when one part ends the others do (the front end unless overtaken by a shutdown), a renewed certificate is presented | two listeners, three callers of `Shutdown`, two renewals |
| `gate` | exact slots; a direct client is refused on its own account only; a silent peer holds nobody up for ever | three connections, two accept loops, two clients and a balancer |
| `session` | mail leaves only as granted while grants change; encryption, recipients, bounded guesses per connection, 250 only for queued mail | two mailboxes, an alias, eight account rows, every listener setting, two messages, two changes |
| `users` | no session without its user; without overlap an administrator remains, revocation is complete, disabling lasts | three users, one of them from the provider, two requests, one fault |
| `sign_in` | the threshold locks, locks last, sessions end in time | two attempts, one browser, four guesses, five ticks, both databases, one fault |
| `upstream` | an edited credential takes effect, all recipients or none over SMTP, credential trouble only delays mail, and once repaired the queue drains | a message too large for Graph whose mailbox is switched, one over Graph, two recipients, four credentials, two edits, one fault |
| `config` | reconcile keeps what the file declares, apply-once only adds, migrations run once, one test mail per request, replicas come up | replicas of versions 1 and 2, two files, an empty and a filled database, one request at a time, two changes, one fault |

In two runs TLC finds what a comment promises to be violated; `PROJECT.json`
quotes the lines:

| Run | Promise that does not hold |
|---|---|
| `queue_lease_timeout` | a lease longer than the upstream timeout keeps sends from overlapping; the wait for the limiter is not counted |
| `users_last_admin` | the last administrator cannot be removed; two who act at the same time can remove each other |

**Other behaviour that comments and names do not lead one to expect.** The models
follow the code, so these behaviours are in them unless noted. The properties
above are stated so that they do not claim more than the code does.

* `queue/backoff.go:114`: a delay the upstream asks for is applied after the age
  limit was checked, so a retry may be scheduled after the deadline.
* `queue/worker.go:212`: a failed preparation is final because "retrying would fail
  the same way", but `prepare` also returns the errors of its queries.
* `queue/worker.go:425`: with one retention zero and the other positive, the zero one
  purges its messages at once.
* `queue/ratelimit.go:103`: a rebuild is called harmless, but the slots still held in
  the old limiter and those of the new one may add up to more than Exchange allows.
* `smtpsrv/server.go:332`: `Shutdown` skips a listener that is not bound yet and
  `Serve` does not look at the flag after binding it, so after a cancellation during
  the binds `Serve` may not return. When the queue or the admin interface fails
  meanwhile, the front end goes on accepting mail without them, although "both halves
  stop when either fails" (`app/app.go:431`). `NoPartRunsAlone` shows that this is the
  only case, and excepts it (`overtaken`).
* `smtpsrv/session.go:29`: the limit on failures counts in the session, and STARTTLS
  begins a new one. Where AUTH is allowed before STARTTLS a connection has twice the
  guesses.
* `smtpsrv/server.go:244`: an accept error ends one listener while the others go on;
  `Serve` reports it only when all have ended.
* `smtpsrv/server.go:218`: the clean-up of a failed start does not close the sockets
  that were bound and not yet handed to go-smtp.
* `smtpsrv/server.go:388`: the slot is taken before the PROXY header is read, so
  all clients behind a balancer share one address's cap.
* `smtpsrv/proxyproto.go:100`: a direct client without a header is meant to be
  admitted, but one that waits for the greeting runs into the read timeout.
* `app/auth.go:65`: the account, its senders and its mailboxes are read in separate
  statements, so an identity may mix what held before and after an operator's change.
  `SentAsGranted` judges a message by the identity as it was read.
* `app/auth.go:108`: replacing a weak hash writes back the whole account row as it
  was read, and with it what an operator changed in between.
* `adminauth/local.go:163`: a sign-in under way while the password changes creates
  its session after the others were ended.
* `adminauth/oidc.go:244`: single sign-on takes the role from the provider, even if
  that leaves no administrator.
* `adminapi/users.go:215`: a request that read the user before a disable writes the
  old state back.
* `store/users.go:216`: on PostgreSQL, two failed sign-ins recorded at once can lose
  a count, and one below the threshold can take away the lock another one set.
* `bootstrap/bootstrap.go:519`: an account and its links are separate transactions. A
  start that ends between them is never completed with apply-once, which skips the
  account it finds, although a deployment that "starts without" its declared state is
  called worse than one that fails (`app/app.go:371`). Reconcile completes it.
* `bootstrap/bootstrap.go:480`: apply-once inserts whatever it does not find, so an
  object that an operator deleted is there again after the next start.
* `adminapi/accounts.go:390`: a password reset edits an account the bootstrap file
  owns; passwords are therefore left out of what reconcile keeps.
* `transport/transport.go:133`: credential and permission problems are said to be
  retried, but the 404 Graph gives for a mailbox the application cannot see is
  permanent, and so is a 5xx to the greeting, STARTTLS or EHLO.
* `transport/graph/graph.go:121`: Graph takes the recipients from the headers, so
  recipients that only the envelope names are not told to it. `AllRecipientsOrNone` is
  therefore about the copies taken over SMTP.

**Bounds.** Interference needs two of whatever interferes: two replicas, two
requests, two deliveries with a cache, two attempts to sign in. A third is added
where two cannot show the case (a third connection at a cap of two, a third user
to be managed by the other two). Delays, leases and ages are a few ticks, chosen
so that a lease can run out within the retry schedule and the age limit falls
between two retries. Faults are bounded by one or two, because each property about
faults compares their number with their effect. Two edits suffice to go away from
a value and back. Three limiter objects are as many as two deliveries and the
table can refer to, so none is missing. Where an instance is smaller than that:

* The `queue` runs have one message: messages meet only in a claim that takes
  several rows, and the proofs cover any number of messages, replicas and workers.
  `queue_overruns` has a third worker, which shares the name of the lease owner
  with another one, and in return no crashes; the proofs of its two properties
  allow both.
* `session` explores two parts of the state space and not their product
  (`Explored`): every command and setting with few grants, and every grant with one
  short message. No property relates the two, and the proofs cover the product.
* `upstream` has one replica. An edit made on another replica is one that this
  replica is not told of, and `Forget` is not fair, so that case is there. The
  proofs cover any number of replicas.
* `config` has one request at a time beside two starting replicas, which is what
  can disturb the file; requests among themselves are `users`' and `session`'s
  subject.

In `users` and `sign_in` a history variable, `overlapped`, records whether requests
(or attempts) have been in flight together. Some properties are claimed only before
that: this is exactly what the handlers guarantee, since each reads and writes in
separate statements. In `config`, `ReconcileHolds` is claimed from the first
undisturbed start on (`settled`), and from then on whatever overlaps.

**Deadlock** is checked in the `queue` runs, `limiter`, `gate`, `session` and
`users_last_admin`. It is not in `serve`, where the process is meant to end, nor in
`users`, `sign_in`, `upstream` and `config`, where nothing is left to do once the
bounded changes, guesses, edits and faults are used up, all messages are settled
and all replicas serve or are refused for being too old.

**Fairness.** The `Queue` has weak fairness of time, of a started delivery, of
claim and read-back, and of starting and leaving a process: the dispatcher polls
on a ticker, `Send` is bounded by the upstream timeout, and a supervisor restarts
the process. In `Upstream` a worker that can go on does, for the same reasons. In
`Startup` processes that ended are started again and handlers, which have a
timeout, complete. In `Limiter` and `SmtpServe` goroutines that can run do run;
nothing forces a cancellation. In `SmtpFrontEnd` a renewal that began is finished,
the reload interval passes and clients keep connecting; without handshakes nobody
looks at the files. In `ConnGate` the accept queue is first in, first out, which is
strong fairness of accepting or refusing each connection; the handshake has a read
deadline. Faults and operators are never fair; not even `Forget` is.

## What is proved

Each module states its inductive invariant first; the proof that a step keeps it
has one lemma or step per action.

`QueueProofs`, for every schedule: a retry is never scheduled after the deadline
unless the upstream asked for it (`ScheduleKeepsDeadline`), and never sooner than it
asked (`RequestedDelayHonoured`). For any number of messages, replicas and workers
and any settings that satisfy the named assumptions of `Queue`:

* without any assumption on timing: `TypeCorrect`, `LeaseCorrect` (a row is being
  sent exactly while it is leased), `VerdictsNeverUndone`, `RetriesKeepDeadline`
  and `SentCorrect`. Each is inductive together with types; the recorded outcome
  of a delivery is the fact that has to be added for the last one (`AcceptedInv`).
* under `Timely`, which says that a delivery, waits and database included, ends
  before its lease: `ExclusiveCorrect`, `AttemptsCorrect`, `Refinement` (the
  queue implements `MessageLifecycle`) and `DuplicatesBounded`.

`DeliveriesExclusive` is not inductive. The invariant `IInv` adds that the time a
delivery has been running and what is left of its lease add up to the lease, that
this also holds of claims not yet read back, that no message is in two of these,
and that the row still shows the attempts the delivery read. The duplicates bound
adds an account of the fault that each further copy needs (`DuplicatesInv`).

`Timely` is an assumption and not a fact about the code: configuration only
checks that the lease exceeds the timeout of one send. `queue_lease_timeout`
shows what happens without it.

`SmtpSessionProofs`, for any addresses, grants, settings and limits: the policy
decides rightly (`PolicyCorrect`), and all five properties of `session`. The
properties speak of queued messages; the invariant says the same of the draft
being submitted and, before that, what AUTH, MAIL and RCPT have established
(`SafeSession`): an identity only where the password could be shown, a MAIL only
where mail may be sent, recipients only of the current MAIL. `GuessesCorrect` is about
the connection and the counter about the session: `Room` bounds the guesses made so
far by the failures counted, the attempt that passed the password, and the guesses
there may have been before STARTTLS.

`FrontEndProofs` has three parts. For any connections, loops, addresses and caps,
with a balancer that is not itself a client: `SlotsCorrect` and `RefusalCorrect`. The
invariant adds that a connection is released exactly when it is closed, and that a
connection not from the balancer is its client's own. For any number of listeners:
`ReadyMeansBoundAlways`; `ServeInv` adds that the listeners before the one `Serve`
binds are published, and that a published one has its socket until `Shutdown` has
announced itself. For any number of renewals: `UnchangedMeansCurrentAlways`, which is
what keeps the check of the modification time from hiding a renewed certificate;
`CertInv` orders the time the reloader remembers, what it loaded and the file.

`LimiterProofs`, for any deliveries, budgets and Exchange limits: `EffectiveInRange`,
`SlotsAccountedAlways`, `BurstBoundedAlways` and `WaitersHaveARate`. The burst bound is
not inductive: a token let through now counts for a whole minute. `BucketPays` says,
for every age, that what is in the bucket and what left it since then was there when
the bucket was full or has come in since. A delivery refers to a limiter that is in
use (`RefersToLive`), so that replacing one never recycles an object somebody holds.

`AdminUsersProofs`, for any users, requests and faults: `NoOrphanSessionsAlways`,
`OldSessionsEndAlways`, `LastAdminKeptAlways` and `DisableSticksAlways`. The invariant
says of the only request in flight (`Undisturbed`) that the copy of the row it works
on is still the row, and that what it has checked about other administrators still
holds, or else that requests have overlapped.

`UpstreamProofs`, for any replicas, messages, envelopes, credentials, edits and
faults: `EditCorrect`, `RecipientsCorrect` and `RetryCorrect`. The invariant says
that a delivery that read the row after the last edit has its material and goes
on with a client built from what it read, that the recipients accepted are those
named so far, that every copy taken over SMTP is complete, and that past AUTH the
token may send.

`SignInProofs`, for any attempts, browsers, thresholds and durations:
`ThresholdCorrect`, `LockCorrect` and `SessionsCorrect`. `LockInv` adds that a lock
goes with a counter at the threshold and that a transaction recording a failure
holds the counter that is in the row, or is stale because attempts overlapped.
`SessionInv` adds that what is left of a session and its age never exceed the
lifetime.

`StartupProofs`, for any replicas, versions, files and requests:
`MigrationsCorrect`, `TestMailCorrect`, `ApplyOnceCorrect` and `ReconcileCorrect`.
`MigrationsInv` adds that a replica past its migrations has seen them all committed;
`TestsInv` that a reservation outlives its message; `AddsInv` that without reconcile
a replica is only ever about to write new rows.

`ReconcileCorrect` is the longest argument. `StoreInv` has what the constraints of the
schema give: unique names and identifiers, and identifiers that are not used twice.
`ReconcileInv` says of each replica that applies the file undisturbed (`ApplierOK`)
that it knows the objects of the file by the identifiers of their rows, that the
objects before the one it works on are as declared, and that what it is about to
write is what the file asks for; and of each request after the first such start
(`Harmless`) that it is about a row that is not in the file, or writes the declared
columns back. `Keeps` is what one step may do: names of the file stay with their rows,
and declared rows, links and senders stay declared. Each statement of the applier and
of the handlers is shown to be such a step, and such steps preserve `ApplierOK` and
`Harmless` of everybody else.

**Only model-checked:** liveness (`Settles`, `SomebodyProceeds`, `ReadyEventually`,
`CancelEndsServing`, `NoPartRunsAlone`, `RenewalTakesEffect`, `LoopGoesOn`,
`OnceFixedSettles`, `ComesUp`), which is out of the prover's reach: it needs fairness
and `ENABLED`. Every safety property of the passing runs is also a theorem.

## What is not modelled

Text and I/O: header rewriting, address patterns, reading and validating the
configuration and the bootstrap file, encoding of what goes to Exchange, Graph and
Entra, JSON, metrics, logging, the web interface, the command line. Cryptography:
the keyring is read once at start and never changes; a secret it cannot open is an
unusable credential in `TokenCache`. The redirect of single sign-on, whose state
and nonce are checked by comparison and whose token go-oidc verifies. The audit
log, which is written after an operation and whose failures are only logged.
Reads that change nothing (listings, gauges, counts, the mailbox diagnostics).
`ExtendLease`, `Limiter.Forget` and `PurgeExpired` have no caller in the program,
`Migrator.Down` only in tests.

## Plan

1. A composition of `Limiter` with `Queue`, to derive how long a delivery can wait
   and hence when `Timely` holds.
2. Address patterns and the mapping of provider groups to roles as pure operators
   checked against a reference definition.
