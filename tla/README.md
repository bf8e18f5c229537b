# Verification of vmtool

vmtool manages KVM/QEMU virtual machines through libvirt.  One Go program
offers the same operations as a command line, a terminal UI and a REST server
with a WebSocket console.  This directory holds TLA+ models of its code, TLC
configurations that check them on small instances, and TLAPS proofs of the
properties that matter most for all instances.

    tlc -workers 2 -config MCManagerFleet.cfg MCManager.tla    # a run
    tlapm ManagerProofs.tla                                     # a proof

`PROJECT.json` lists the components, the runs with their properties, for each
property a mutation of the code it rules out (the operators `X_Y` marked
"Broken" in the modules), the source lines of every definition, the findings,
the hazards and the theorems.

## Inventory

| component | source | state | operations | hard behaviour |
|---|---|---|---|---|
| libvirt manager | `pkg/vmtool/libvirt.go` | none of its own: domains and volumes live in libvirt | create (clone, resize, extra disk, define, start), start, stop, resume, power off, delete, add disk, migrate disk, resize disk, delete image, pools, default network | every operation is a sequence of RPCs without a lock; CLI processes, REST requests and TUI commands run them concurrently; any RPC may fail and any process may die half-way |
| workflows | `internal/app` | credentials under `.machines/`, `ansible/inventory.yml` | CreateVM with its stages and events, DeleteVM, ResizeDisk, RunCommand, RunPlaybook | which failure returns what (the "create contract"), and what is left behind |
| REST server | `internal/server/handlers.go`, `server.go` | a libvirt connection per request | one handler per operation, a `Manager` per request | concurrent requests; 26 maps of error kinds to statuses; answers that are read after the operation, when others have changed what there is |
| generated API | `internal/api/api.gen.go` | none | per operation, what the server's side may write (`Visit...`) and the client's side understands (`Parse...`); what the wrappers refuse themselves | the hand-written handlers and the two generated sides have to agree on each status and body |
| console | `internal/server/console.go` | a WebSocket, a PTY, an ssh process, two goroutines | open, two pumps, resize, close | who notices that the other side has gone; leaks of processes and goroutines |
| terminal UI | `internal/tui/tui.go` | one model value: mode, list of VMs, cursor, log, pending confirmation, forms | keys and results of background commands | results arrive after the state they were asked for has changed |
| command line | `internal/cli/cli.go` | a process and a libvirt connection per command | one command per operation | opened before the values are parsed, left by many returns; exit statuses that mean what the server's statuses mean |
| bridge | `pkg/vmtool/bridge.go` | `/etc/netplan/99-vmtool-*.yaml`, a temporary file, the bridges that run | write a temporary file, `sudo mv`, `chmod`, `netplan apply` | failure, death and reboots between the steps; netplan applies the files of all or none |
| inventory, ansible | `pkg/vmtool/inventory.go`, `ansible.go` | inventory files | write inventory, run ansible | steps of the workflows that may fail |

How they interact: the command line, the handlers and the terminal UI each open
a `vmtool.Manager` (one per process, one per request, one for the UI) and call
`app.Service`, which drives the Manager's RPCs, Ansible in the guest and the
credential files.  They share nothing in memory.  What they share is libvirt,
`.machines/` and the guest's disk, and none of these is locked.

`api.gen.go` is generated from the OpenAPI document, and belongs to the program:
the router, the decoding of requests and the encoding of every answer are in it,
and the handlers are written against its types.

What makes each part correct, in a sentence: a volume is deleted only when no
definition needs it, and disks of defined VMs exist (manager); an answer of
success means that everything asked for was done, and a guest is entered only
with credentials that fit it (workflows); a disk never shrinks under its
filesystem (resize); whoever holds a Manager has its network (opening); every call closes
its connection, and what it answers of a VM was true while it ran (the server
and the command line); a bridge that is said to be created runs, and what runs is
what is written for the next boot (bridge); both
directions of a console are pipes and its processes end (console); an action
falls on what the user was shown, and indices fit (terminal UI).

## The modules

| module | models | state | actions |
|---|---|---|---|
| `Libvirt` | libvirt as the Manager uses it, external | `vols`, the paths of volumes; `dom`, per name the UUID, whether it is persistent, the defined and the live disks, the power state | one operator per RPC, with what libvirt accepts (`Can...`) and what it does |
| `Manager` (extends `Libvirt`) | create, add disk, delete, migrate, power, delete image of `libvirt.go` and `create.go` | `call[c]`, the program counter and locals of each client; `faults` | one per RPC whose effect or answer another client can change |
| `Service` | `CreateVM`, `DeleteVM`, `RunPlaybook` and the power operations of `internal/app`, and the status the create handler answers | guests on disks, leases of addresses, the credential files, `call[c]` | one per stage; a Manager call is one step that succeeds or fails |
| `Resize` | `Manager.ResizeDisk`, `Service.ResizeDisk`, the handler | the volume's and the filesystem's size, the VM's power, `call[c]` | one per RPC; the number of bytes wraps at `Word` |
| `Api` | the generated types: the answers that 26 `Visit...` functions may write and 26 `Parse...` functions decode, the operations whose wrappers bind a query or a body | none | none: sets and functions |
| `Adapters` (extends `Api`) | the 26 handlers and the commands of `cli.go`, each around its workflow | the domains there are (`vm`, `born`), which of them run (`on`) and are defined (`kept`), the open connections, `call[c]` with the handle it holds; as history what each call could see of the VMs it is about (`saw`) | refuse, open, check, look up, each call that a workflow makes with its handle (start, power off, state, destroy, undefine, redefine, ...), read one domain of a list, last Info, close, answer; a guest stops by itself; a command or the server is killed |
| `Bridge` | `CreateBridge`, `sudoWriteFile`, `sudoRun`; netplan and sudo are external | the netplan files, the bridges that run, temporary files, each creator's `pc`; as history whether a create is alone with its name and whether one ended half-way | one per step; `mv` may be a copy that is cut short; failure, death, reboot |
| `Setup` | `NewManager` with `EnsureDefaultNetwork`, `CreatePool`, host reboots | network and pool: defined, active, autostart; `pc[c]` | one per RPC |
| `Relay` | what one direction of a console promises | `sent`, `got` | send, receive |
| `Console` | `serveConsole`, `pipeConsole` and its goroutines | the handler's and the goroutines' counters, ssh, PTY, socket, bounded buffers | one per blocking call |
| `Tui` | `Update`: keys, dialogs, the log, results | the model value, the arrays behind the log's slice, the commands under way | one per key and per message |
| `Form` | the create and the bridge form | the two forms, the host's bridges, bridges being created | one per kind of key, and the bridge's result |

`MCManager` gives `Manager` its VMs, volume names and symmetry for TLC,
`MCAdapters` gives `Adapters` what its two calls may ask for and symmetry,
`MCBridge` symmetry; the other modules are checked as they are.
`ManagerProofs`, `ServiceProofs`, `ResizeProofs`, `SetupProofs`,
`ConsoleProofs`, `AdaptersProofs`, `BridgeProofs` and `TuiProofs` (which has
those of `Form` too, in its last part) hold the theorems.

How the parts are cut: `Manager` and `Resize` show that the operations are safe
against each other at the grain of RPCs; `Service` takes a Manager call as one
step and follows the workflow around it, whose state (credentials, addresses) no
Manager call touches; `Tui` takes a workflow as one command that is started and
reports later.  `Adapters` takes a workflow as the moments at which what its
answer says can be changed by others, for all operations and both surfaces; the
answers of create and resize are followed to their causes in `Service` and
`Resize`.  `Bridge` is the command that `Form` starts.  `Console` refines
`Relay` twice, once per direction (`KeysInOrder`, `TextInOrder`: `INSTANCE Relay
WITH sent <- ..., got <- ...`).

Abstractions worth knowing.  A volume is a path (pool, name); its contents are
not modelled but in `Service`, where a disk is the guest installed on it.
`nextVirtioTarget` may give any free target, which is more than the first one. A
name that `VolName` gives two VMs (the clone of "web-2" and the first extra disk
of "web") is one name.  In `Console` bytes are numbered units, and a frame has
its kind, whether `parseResize` takes it and the unit it is: a text frame that
it refuses (malformed, or of no size) is written to the PTY as keys are.  In
`Tui` a list that comes back is any list, since others change the VMs, and a key
whose effect depends on a VM's state may do either. In `Adapters` an answer is a
status (or exit status) and what its body is; the contents are the `vm`,
`listed` and `out` of the call, and a VM is the number of its domain, so that
one deleted and created again is another and a handle of the first fails.  A
domain that is undefined while it runs goes on without a definition until it
stops.  A client that hangs up changes nothing there: no context is acted on
(spec-first.md:431).  In `Bridge` a configuration is the NIC it takes and a
value for the rest, and netplan refuses everything when a file is cut short or
two of them claim one NIC.

## The runs

Every instance has each kind of actor twice where two of them interact, and
every bound is a constant of the module or the cfg.

| run | instance | shows |
|---|---|---|
| `fleet` (958,331 states) | 2 clients, 2 VMs with colliding volume names, 1 pool, 2 targets, 3 UUIDs, 1 RPC failure; create, add disk, delete, start, power off, stop | `Ownership`, the inductive invariant, and what follows from it: no definition names a missing volume, no two share one, only unused volumes are deleted; `AddDiskAllOrNothing` |
| `solo` (31,601) | 1 client, 1 VM, 2 pools and the name of a third that does not exist, 3 targets, 1 failure; everything but noclone and delete image | with migration too, one client at a time leaves no disk dangling, defined or live (`AllDisksExist`); a delete knows all disks; a migration, however it ends, has moved the disk to its copy or left it alone, and has restarted the VM when it succeeds |
| `images` (1,184,716) | 2 clients, 1 VM booting an image in place, 2 pools; add disk, migrate, delete image, delete with noclone | whatever they read before, no VM gets two disks on one target or volume; delete with noclone never deletes the image |
| `console` (32,030) | 3 keys, 2 units of output, 1 frame that is a resize or looks like one, buffers of 1, a client that reads | order and completeness of both directions, no leak, that sessions and goroutines end (`SessionEnds`), and that closing the socket kills an ssh that goes on reading its terminal |
| `service` (8,248,237) | 1 client, 2 VMs, 2 addresses, 1 clone and images booted in place; noclone, a size, an inventory, a playbook or one that is refused | a 201 means that all that was asked for was done (`CreatedMeansDone`); a create on a cloned disk enters its guest, to grow and to provision it, with credentials of that guest or the caller's (`CreateAuthFits`) |
| `resize` (726) | 1 client, sizes from below the first one to ones that wrap (word of 32, "GB" of 4) | the volume never shrinks and the filesystem fits, wrapping or not; "grown" is said only when the filesystem fills a volume of the bytes the size came to, which is the size asked for unless it wraps |
| `tui` (4,444,142) | 2 VMs, 5 log entries (a slice of capacity 1, 2, 4 and 8), 2 commands under way | cursors fit, commands report to their own entries, dialogs act on what they named; in the behaviours in which ssh sessions do not fail (`connects`), no entry stays running |
| `form` (2,538,204) | 2 networks, 1 NIC, 2 bridges, 2 texts | the focus is on a visible field, what is submitted fits its network type |
| `setup` (2,850) | 2 clients, 3 failures, deaths or reboots | a Manager means a running network; pools survive reboots; what was left half-way is repaired |
| `adapters` (1,927,967) | 2 calls, one of any of the 26 operations on either surface and one that creates (as a request) or deletes (as a command); guests that stop by themselves; 2 VMs, 2 births | connections are closed, answers were true at some moment of the call, a list leaves out no VM that could be read, both surfaces call the same outcomes a success, and no handler lacks a kind of error that its document has a status for |
| `bridge` (35,927) | 2 creators, 2 names, 2 NICs, 2 failures, deaths or reboots | "created" is said of a bridge that runs as asked for; what runs is what is written, unless a create stopped between its `mv` and its `apply` |
| `migrate_restarts` | 1 client, 2 pools | violated: see below |

Why the bounds are enough.  Every argument between clients in the code is
between two: one read what another changed.  Two VMs are needed for colliding
names, three targets to have a disk added, removed and added again, three UUIDs
for a VM that is deleted and created again while a handle to the old one is
held.  One RPC failure per behaviour puts a failure at every step; the proofs
cover any number.  A buffer of one unit makes every copying call of the console
block.  For the answer of a call it only matters that VMs come and go beside it,
so one call that creates or deletes stands for all others, and two births are a
VM that another of the same name replaces; `AdaptersProofs` covers any number of
both.  Two bridges and two NICs are what it takes for one file to spoil
another's apply, and two faults a create that stops half-way and a reboot after
it. The log's slice has capacity 1, 2 and 4 as it grows, so its fourth append is
the first that goes into an array which another copy of the model may hold (that
of a dialog, say), and with five entries both copies have appended into the same
slot.  Two commands under way are two whose reports can come in either order, or
one and the refresh it causes.  Of the options of a create `service` leaves
`extra_disk` out, whose failure is that of `size`, and one clone is enough
beside the images booted in place: the VM that had the name or the address
before runs on one of these.

Deadlock is not checked in `console` (a session ends) and `tui` (the program
quits); it is checked everywhere else.

### Fairness

* `Console`: weak fairness of the handler and of the two goroutines, since the
  Go scheduler runs whatever can run and each of these blocks only in a call
  whose enabling condition stays true.  `ReadingClient`, under which the run
  checks, adds a browser that goes on reading: the code has no deadlines, so
  without it a session whose client stalls stays until TCP gives up, and the
  model says so.  That ssh goes on reading its terminal is assumed of nothing;
  it is a condition in the formula `CloseKillsSSH` (`SSHGoesOnReading`), and
  without it the claim fails (see below).
* `Setup`: `KeepsOpening` has each client run on, and come back with another
  command; failures are finitely many (`MaxFaults`).
* No other run has fairness: their properties are safety properties, and a
  process may die at any step.

## Promises the code does not keep

One is a run that ends in a violation, with the line of the repository that
promises the opposite in `PROJECT.json` "findings":

* `MigrateRestartsVM`: `MigrateDisk` stops a running VM and returns on every later
  error without starting it again.  One client is enough: the pool the disk is
  in already has a volume of that name, so the copy is refused
  (libvirt.go:1081; the comment at 1023 has "restarts the VM if it was
  running").

The others are stated in the modules and are violated too; give a cfg of the
module the instance below and the property to see the behaviour.

| property | instance | the code does | the repository says |
|---|---|---|---|
| `Manager!StoppedDuringCopy` | 2 clients; create, migrate, start | another client starts the VM between `Destroy` and the copy | libvirt.go:1023 "The VM is force-stopped during the copy." |
| `Manager!DeleteStopsVM` | 2 clients; create, delete, start | a VM started after `GetState` is undefined while it runs and goes on as a transient domain; Delete succeeds | libvirt.go:271 "Delete stops (force), undefines a VM" |
| `Manager!DeleteRemovesDisks` | 1 client, 1 failure; create, delete | an error of `GetXMLDesc` is dropped, and every volume is left behind a success | libvirt.go:271 "removes its cloned disk volume" |
| `Manager!OnlyCreateRegisters` | 2 clients; create, migrate, delete | `MigrateDisk` defines a VM again that was deleted while it copied | libvirt.go:1022 "redefines the domain" |
| `Manager!AddDiskLive` | 2 clients; create, add disk, start | a VM started between `GetState` and the attach runs without the disk | vmtool.yaml:345 "Live + persistent if the domain is running" |
| `Service!DropsOnlyPrevious` | 1 client, 1 VM | creating under a name that is taken drops the credentials of the VM that has it, and only then fails on its volume (create.go:55) | create.go:53-54 "drop creds left by a previous VM of the same name" |
| `Service!FailureIs500` | options playbook, bad_playbook | a playbook name refused after the start is answered by 400 | vmtool.yaml:69-70 "Failures after the domain exists are 500" |
| `Service!FailureShowsVM` | option playbook | when `Info` fails after the start the answer has no VM | spec-first.md:495 "so adapters can show the VM" |
| `Resize!NeverShrinks` | 2 clients, one VM running | both compare with the first capacity, and `BlockResize` takes the smaller size last (libvirt.go:1010) | libvirt.go:961-962 "grows a VM's disk volume", "must be larger than the current capacity" |
| `Resize!SizeIsAsked` | a size that wraps | sizes from 2^34 GB on are taken modulo 2^64 bytes | libvirt.go:961 "to sizeGB gigabytes" |
| `Resize!ErrorMeansUnchanged` | 1 client | an error of `Info` after the resize is the request's, and a retry is refused | spec-first.md:538-541: 200 whenever the volume was resized |
| `Setup!OpensWhenItCan` | 2 clients, no failure | the second of two that create or start the network is refused by libvirt and gets no Manager | libvirt.go:453 "if it doesn't exist" |
| `Console!CloseKillsSSH` without its condition | as `console` | while ssh does not read and the write to the PTY blocks, nobody reads the socket, and ssh lives on (console.go:147) | vmtool.yaml:248-249 "Closing the socket kills ssh" |
| `Adapters!AllDeclared` | as `adapters` | a query or a body that does not bind or decode is answered by the generated code with 400 and text, for operations whose document has no 400 or has an Error body there; an upgrade of the console that fails, by the websocket library with 400 and text (console.go:62-70) | spec/README.md:3-4 "source of record for every route, payload, and status code" |
| `Adapters!AllUnderstood` | as `adapters` | the same answers: the generated client finds none of its fields in them | spec/README.md:3-4 |
| `Adapters!DeletedIsGone` | as `adapters` | a VM started between `GetState` and `Undefine` (libvirt.go:288-300) runs on without its definition behind a 204, and List and Info still find it | vmtool.yaml:116 "deleted" |
| `Adapters!TransportIs502` | as `adapters` | ssh's own failure is exit status 255, which is answered by 200 and an `exit_code` as a remote command's would be (guest.go:36) | vmtool.yaml:219 "502 if SSH transport fails" |
| `Adapters!ListsAll` | as `adapters` | a domain whose reading fails is left out of the list without an error | libvirt.go:364 "List returns info for all VMs managed by libvirt" |

More are stated because a reader may expect them; nothing in the repository
promises them, and the code does not have them.

* `Manager!FailedCreateLeavesNothing` (as `fleet`): when libvirt has made a volume and
  then fails to give its path, `CreateVolume` returns an error and leaves the volume
  (libvirt.go:719-722), so that an AddDisk that failed leaves it behind, and a retry
  takes the next name.  `AddDiskAllOrNothing` has this case as its exception.
* `Service!PlaybookAuthFits` (as `service`): `RunPlaybook` takes what is stored under an
  address read a step earlier, which may be of a VM that had the address before
  (guest.go:55).  What comes of it is a refused login.
* `Service!NocloneAuthFits` (as `service`): a create with noclone forgets nothing, and the
  delete of such a VM keeps its credentials (lifecycle.go:37), so the next one of its
  name is entered with those of another disk's guest.
* `Tui!NoPanic` (as `tui`): when the last VM goes while the playbook menu is open, the
  View indexes an empty list (tui.go:1170).
* `Bridge!FailedLeavesNothing`: a create that fails after its `mv` leaves its file, and
  its bridge comes up with the next apply of any other.
* `Bridge!BridgesSurvive`: two creates over one NIC, or one that is cut short, and no
  bridge comes up at the next boot.
* `Adapters!ListIsSnapshot`: a list need not be the VMs of any one moment.

Two properties are checked under a condition that they state.  `NoZombie` is about the
behaviours in which no ssh session fails (`connects`): one that fails while a dialog is
open can leave a log entry running for ever (tui.go:412 with 212).  `CloseKillsSSH` is
about an ssh that goes on reading.

## The proofs

Constants are arbitrary up to the named assumptions of the modules
(`LibvirtAssumption`, `ManagerAssumption`, `ServiceAssumption`, ...), which TLC
evaluates in every run.  A theorem that needs more has it as an ASSUME of its
own.

* `ManagerProofs!TypeCorrect`, `ServiceProofs!ServiceTypes`,
  `SetupProofs!SetupTypes`, `TuiProofs!TuiTypes`, `TuiProofs!FormsTyped`: type
  correctness.  In the first two `TypeOK` is strengthened by what a client's
  locals are at its program counter (`TypeInv`): an RPC is made on a VM that was
  looked up.
* `ManagerProofs`, whatever operations run: `AddDiskIsAtomic`, `TargetsDistinct` and
  `ImagesOutliveDeletes` (which assumes that deletes are made with noclone, as of an
  image booted in place they must be), from `Shape`: what a call's disks are at each
  program counter (one of them from the state to the rollback of an AddDisk), and
  that no definition and no running VM has a target twice.  An AddDisk needs no more
  than that, since what it says is of its own volume and its own disk: "ok" and the
  disk is in the definition, or an error and its volume is gone.  It has two
  exceptions, both of an RPC that fails: `GetPath` once the volume is made, and the
  deletion that the rollback tries.
* `ManagerProofs`, who owns the volumes: `OwnershipHolds`, and from it `DisksExist`,
  `VolumesUnshared`, `OnlyUnusedDeleted` and `DisksUnique`, for any numbers of clients, VMs,
  pools, names and failures, and any naming of volumes, colliding ones included.
  They assume `Ops \subseteq PlainOps`: migrate, delete image and a create with noclone
  delete or share volumes that definitions name, by design.  None of the results is
  inductive: that a delete removes only unused volumes depends on who else may
  hold them.  `Ownership` says that a volume has at most one owner, a definition or
  a client between creating and defining it or between undefining and deleting
  it; that an owned volume exists; and that a delete has read only disks the
  domain still has, as long as the handle is alive.  The proof has one lemma per
  way a step can change ownership (quiet, acquire, release, orphan, attach,
  undefine), and each action is one of them.  Failures and deaths only make
  orphans.
* `ManagerProofs`, one client at a time and migrations too (`Solo`: one client,
  and neither noclone nor delete image): `NoDiskLost`, `DeleteSeesAll` and
  `MigrationMoves`.  With a second client `StoppedDuringCopy` and
  `OnlyCreateRegisters` of the table above fail. `SoloInv`: what runs is what is
  defined (`Settled`), its volumes exist and no two definitions share one; and
  what the one client knows (`Sound`): what a migration or a delete has read is
  still so, the copy it made is no definition's yet, and the volume a migration
  deletes at the end is no definition's any more. Failures and deaths are in it:
  `MigrationMoves` is about every end of a migration, which leaves the VM the
  disks it had or the first of them moved to the copy, each of which exists, and
  `MigrateOk` and `MigrateStops` are its two halves.
* `ServiceProofs!CreateDone`: `CallProgress` carries, per program counter, which stages
  are behind a create that has not failed; a 201 is reached from the last alone.
* `ServiceProofs!CreateCredentialsFit`: of the two logins of a create on a
  cloned disk, the grow and the playbook; it assumes one client (`Alone`) and
  that no create boots in place (`noclone`), for credentials are kept under a
  name and then outlive the disk.  Whether stored credentials fit is not
  inductive: addresses move.  `FitInv` adds that no two VMs hold one address,
  that nothing is stored under the name of a VM that is being created, and that
  between reading its address and storing under it the address stays the VM's
  and holds nothing of another guest.
* `ResizeProofs`: `FilesystemSafe`, `OnlyGrows` and `GrownIsGrown` assume one
  client (`OneClient`); `NeverShrinks` in the table above is why.  `OffIsSafe`
  needs no such assumption: libvirt itself refuses to shrink a volume without
  the flag.  `RInv` has what a client wants above the volume's size from its
  comparison to its resize; `Done` has the volume at `Bytes(gb)` from the resize
  to the answer, and `Exact` that this is the size asked for where it does not
  wrap.  Wrapping is part of it: all that is used of `Bytes(gb)` is that it is
  in `0 .. Word - 1`.
* `SetupProofs`: `NetworkIsUp` and `PoolsSurvive` from `SInv`, which says for each client
  how far the object it works on has come, whatever others do to it.
* `ConsoleProofs`: `SpecNothingLeaks` from `Stages`, what is open where the
  handler is.  `SpecTextInOrder` and `SpecKeysInOrder` are the refinement of
  `Relay` in both directions, for any amounts and any buffers: `OutFlow` says
  that what the client has, the socket, the goroutine and the PTY hold are one
  run of numbers without a gap as long as the goroutine lives, and a prefix of
  it after, when what it held is lost; `InFlow` the same of the keys, between
  which `Holds` allows resize frames that never get past the goroutine, while a
  frame that only looks like one is a key.  Each step of the console is a step
  of `Relay` or none.
* `AdaptersProofs`: `SpecManagersClosed`, `SpecAnswerWasTrue`, `SpecListIsFair`,
  for any numbers of calls, VMs and births.  `IInv` follows one call: what it
  may still see (`Watched`), what its list owes (`Listing`), what its handle is
  worth (`Working`: unless the VM was gone for a moment, it is that of the
  domain there is), what its outcome claims (`Claims`) and then its answer
  (`Answered`).  `ReplyMeans` says of all handlers and commands that a success
  is answered only to what was done and 404 only to what was not found;
  `OthersStep` that another call's step disturbs this one through the VMs alone.
  Of a delete they say that the VM lost its definition, not that it was gone:
  `DeletedIsGone` above is why.  `SpecAdaptersAgree` is about the two maps of
  outcomes to statuses, operation by operation (`BothSucceed`).
* `BridgeProofs`: `SpecCreatedIsUp`, `SpecRunningIsWritten`, `SpecTempRemoved`.  The second
  is inductive with the types; the first needs `Sole` (no other create under way has
  the name) and `Its` (so the file is still its own), for then whoever applies, applies
  that file.
* `TuiProofs`: `CursorsFit`, `ReportsFindTheirEntry`, `RunningRuns`,
  `AnswersMeanWhatWasAsked`, for any numbers of VMs, log entries and commands.
  A copy of the model is a header over an array that copies share, so an append
  on one may write into the array of another.  `Logged` says of a header what
  the program relies on: each command under way that it knows has its entry
  there, and `TuiInv` says it of the model and of the copy that an open dialog
  holds, since either is the model of the next step.  `RunningRuns` is about the
  behaviours `connects`, as the run is.
* `TuiProofs`, the forms: `CursorIsSeen` and `SubmittedMakesSense`, for any networks, NICs,
  bridges and texts (`FormAssumption`).  What is submitted is
  sound because a form's source fits its type at all times and not only when it
  was chosen (`Fits`): its options are those of its type too, and the bridges it
  lists are the host's, whatever the message of a finished bridge changes.
  `FormsInv` adds that the cursor is on a field that is shown, which for the bridge form
  rests on the NIC and the IP mode being no fields that they hide.

Only model-checked, since the provers reach neither fairness nor ENABLED: the
liveness properties `SessionEnds`, `CloseKillsSSH` and `NetworkComesUp`.  `KindAnswered` is
only model-checked too: it compares finite tables, and its run has every
operation with every outcome it can have.

## Not modelled

* Formatting: XML, inventories, the text of netplan files, views, the encoding of
  bodies.  Where a name matters, that two of them may be equal is kept.
* Flag parsing, routing, body limits, logging: cobra's and the standard
  library's.  `interactive` and `server` start the other surfaces.
* `ListPhysicalNICs` and `GetNICInfo`: they read the host to fill a form.
* The progress events of a workflow: only the terminal interface shows them, and
  nothing acts on them.
* `Manager.Create`, which nothing calls, and the chained create stages of
  `tui.go` (759-932), which nothing calls any more.
* Two clients in `Service`: the code of the credential files is not in the repository, and
  nothing says how its writes interleave.
* A handler that panics: `net/http` recovers, and `defer m.Close()` closes the connection
  as on any return.
* libvirt, ssh, DHCP, the guest and the browser are external: modelled by what
  the code relies on.

## Plan

Done, in this order: `Libvirt` and `Manager` with `Ownership` and its proofs; `Console`
and `Relay`; `Service` and its proofs; `Tui`; `Form`; `Resize` and its proofs;
`Setup` and its proofs; `Api` and `Adapters`, the two surfaces whole, and their
proofs; `Bridge` and its proofs; the proofs of `Console`, its refinement of `Relay`
included; the proofs of `Tui` and `Form`, of migrations, of the credentials and of the
two surfaces: every safety property that a run shows is a theorem, but `KindAnswered`.

To do, most important first:

1. `Service` with two clients over one credential file: a DeleteVM may forget the
   credentials that a create of the same name stored after it (lifecycle.go:38).
   It needs the code of that library.
2. The progress events of `CreateVM` (one "running", then one "done" or "error"
   per stage, in order; spec-first.md 488-530) as history of `Service`, with an
   abstract `CreateContract` that `Service` refines.
3. Proofs with weaker assumptions: `AllDisksExist` with two clients of which one
   migrates, which needs to say which of its interleavings are sound;
   `TargetsUnique` with migrations beside the plain operations, as its run has it.
