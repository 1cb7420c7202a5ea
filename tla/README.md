# cryruss in TLA+

cryruss is a small daemon-optional container engine: a command line, an API
server (`cryruss serve`) with a Docker-like subset of operations, and a launcher
that runs containers in namespaces or under proot. Everything it remembers is a
JSON file under the data directory. This directory holds a TLA+ model of it, the
TLC configurations that check the model on small instances, and TLAPS proofs of
what matters most.

    tlc -config Resources.cfg MCResources      # a run
    tlapm ContainerLifecycleProofs.tla         # proofs

## 1. The system

| part | code | state | operations | talks to |
|---|---|---|---|---|
| API server | `pkg/api/server.go` | the mux | one goroutine per request | handlers |
| container handlers | `pkg/api/handler/handler.go` | none between requests, except the goroutine each start and restart leaves behind | create, start, stop, restart, kill, remove, prune, list, rename, pause, unpause, and reads | manager, launcher, images |
| container records | `pkg/container` | one record per container; a directory (rootfs, pid file) and a log | Create, Get, Save, Delete, List, UpdateState | store |
| store | `pkg/store` | files `<id>.json`; a lock per process | Save, Load, Delete, List | file system |
| launcher | `pkg/runtime/runtime.go` | pipes during the handshake; pid files | Start, Stop, GetPID, IsRunning, ContainerInit | kernel |
| cgroups | `pkg/runtime/cgroups.go` | control files | ApplyCgroups, ReadCgroupStats | kernel |
| networks | `pkg/network` | network records with endpoints | Create, Delete, Prune, Connect, Disconnect, allocation | store |
| volumes | `pkg/volume` | volume records and directories | Create, Delete, Prune | store |
| images | `pkg/image` | image records, layer directories | Pull, Get, Delete, Tag, PrepareRootfs | registry, store |
| command line | `cmd/cryruss/main.go` | flags, compose files | the same operations from processes of their own, stacks | all managers |

What makes it hard:

* **Read-modify-write without a lock.** The store's mutex covers one file
  operation. `Manager.UpdateState` is a `Get` and a `Save`; `Manager.Delete` is
  a `Get`, a check and two removals; `ContainerList` saves the copies it listed.
  Requests run concurrently, so every such pair can be interleaved.
* **Goroutines that outlive their request.** A start leaves one that waits for
  the process and then rewrites the record of whatever the key it captured
  leads to by then: the container's id after a start, the *path parameter* of
  the request (perhaps a name) after a restart.
* **Processes.** They exit at any time, ignore SIGTERM, are suspended. A Stop
  races their exit against its timeout; two waits for one child race each other.
* **Crashes.** The goroutines die with the server and nothing reads the records
  again when it is started.
* **Two front ends.** The command line does the same to the same files from
  other processes, for which the store's lock means nothing.

* **Two files for one thing.** A network is a record and a `name-` file, a volume
  a record and a directory, an image a record and layers it shares. They are
  written and removed one after the other, by commands that may be killed.

What makes each part correct:

* records: a record never describes a container that cannot be (Running without
  a pid, the pid of another container's process), whoever wrote it last;
* handlers: each keeps its promise when alone; together they do not mix
  containers up; every request ends; an exit gets recorded;
* launcher: every child that was started is waited for, every Stop takes effect;
* store: what can be decoded is what some Save meant to write;
* command line: one command at a time loses nothing; a run in the foreground
  records the exit, unless Saves overlap and tear its record; a wait ends;
* networks: a name leads to the network of that name; no two networks share a
  name or an allocated subnet; what has endpoints is removed by force only;
* volumes: a record has its directory, a directory its record;
* images: an image that is listed has all its layers, each extracted to its end;
  the root file system of a container is what the layers say;
* stacks: deploying settles what the file asks for, removing takes what carries
  the label and nothing else; the compose file is read as it is written, but for
  the losses that `ComposeRead` names.

## 2. Modules

| module | models | kind |
|---|---|---|
| `ContainerRecord` | the record and every closure the handlers pass to `UpdateState` | definitions |
| `ContainerLifecycle` | API server, handlers, manager, store calls, launcher, processes, crash | state machine |
| `Containers` | what the API promises: atomic create, remove, launch, exit | abstract specification |
| `InitHandshake` | one native launch: parent, child, grandchild, three pipes | state machine |
| `InitHandshakeProofs` | its invariant and theorems | proofs |
| `MCContainerLifecycle` | menus and symmetry for TLC | model checking |
| `ContainerLifecycleProofs` | inductive invariants and theorems | proofs |
| `RecordFiles` | a Save seen from other processes: truncate, write, unlink | definitions |
| `Commands` | the commands that create, run and remove containers, each a process of its own | state machine |
| `CommandsProofs` | its inductive invariant and theorems | proofs |
| `MCCommands` | menus of commands for TLC | model checking |
| `Networks` | the network manager, its command line and handlers | state machine |
| `NetworksProofs` | its inductive invariant and theorems | proofs |
| `Volumes` | the volume manager, its command line and handlers | state machine |
| `VolumesProofs` | its inductive invariant and theorems | proofs |
| `Images` | pull, tag, rmi and the image side of run; the registry | state machine |
| `References` | parsing, writing and asking for references to images | state machine over pure functions |
| `Rootfs` | from tar entries to layers to a root file system | state machine |
| `ImagesProofs` | invariants and theorems of the three above | proofs |
| `Stacks` | stack deploy and rm over `Networks` and `Volumes` | state machine |
| `ComposeFile` | the line parser of compose files | state machine |
| `Resources`, `MCResources` | composition of the seven above, and their menus | composition, model checking |
| `ResourcesProofs` | invariants and theorems of `Stacks`, `ComposeFile` and `Resources` | proofs |
| `CgroupWeights` | `cpuSharesToWeight` in 64-bit arithmetic, with its theorems | function, proofs |

### ContainerLifecycle

One step is the code between two file operations or two waits.

| variable | stands for |
|---|---|
| `rec` | the files `containers/<id>.json`: a record or `NoRecord` |
| `fresh` | ids `NewID` has not produced yet (random ids do not collide) |
| `dir`, `pidfile` | a container's directory (missing, empty, with a rootfs) and the pid file in it |
| `proc` | each supervisor process: none, alive, suspended, zombie, reaped |
| `owner` | the container whose start returned the process (history only: no action reads it) |
| `req` | the handler goroutines: operation, where it stands, and its local variables |
| `waiter` | the goroutine that waits for each process |
| `crashes` | crashes so far |
| `menu` | what clients ask for in this behaviour, and how often the server may crash |

| action | code |
|---|---|
| `CreateBegin`, `CreateReplaces`, `CreateConflict`, `DeleteRecord`, `EachDone`, `CreateSave` | `Manager.Create`: the listing, the deletion of each stopped namesake, the refusal, the save |
| `StartBegin`, `PrepareRootfs`, `Launch`/`LaunchFails`, `WritePid`, `Update`/`UpdateMiss`, `Save` | `ContainerStart` and `startNative` |
| `StopBegin`, `StopExited`/`StopTimeout`, `Update`, `Save` | `ContainerStop` and `runtime.Stop` |
| `RestartBegin` and the two above in a row | `ContainerRestart`: two updates, the first keeping the pid |
| `KillBegin` | `ContainerKill`: a Stop with a timeout of zero, no update |
| `RemoveBegin`, `RemoveForceBegin`, `DeleteGet`/`DeleteRefused`, `DeleteDir`, `DeleteRecord` | `ContainerRemove` and `Manager.Delete`, which looks its argument up again |
| `PruneBegin`, `PruneNext` | `ContainerPrune`: a listing, then a Delete each |
| `ListBegin`, `ListNext`, `Save` | `ContainerList` with its reconciliation |
| `RenameBegin`, `Save` | `ContainerRename` |
| `PauseBegin`, `UnpauseBegin`, `Update`, `Save` | the signal, then a second lookup |
| `WaiterReap`, `WaiterGet`/`WaiterMiss`, `WaiterSave` | the goroutine of a start or restart |
| `ProcExit`, `Crash` | the kernel |

Abstractions. A record keeps the name, Status, Running and Pid: no decision reads
the rest. An id prefix as a path parameter is left out, an exact id and a name
are in. `Get` by name and `List` are one step though they read file by file. A
request that is answered without changing anything (404, 304, 409) is no step.
Pids are not reused; an image may be missing or fail to unpack at any start.
SIGTERM itself is no step, since a process may exit at any time anyway; SIGKILL
takes effect at once. `proc` is the supervisor, which is what `State.Pid` names;
the process behind it is in `InitHandshake`. A crash kills the supervisors, as Pdeathsig in
`startNative` asks (the proot launcher does not set it, and is not modelled).
A zombie counts as running for the `kill(pid, 0)` of `IsRunning`.

### InitHandshake

`ContainerLifecycle` has a launch in one step, `Launch` or `LaunchFails`. This
module looks inside it. `startNative` (the parent) starts `/proc/self/exe`
(the child, `ContainerInit`), which clones the container's process (the
grandchild) and waits for it.

| variable | stands for |
|---|---|
| `parent`, `child`, `grand` | where each of the three stands in its code |
| `held` | the ends of the config, sync and ready pipes that parent and child hold |
| `sync`, `ready`, `config` | what is in each pipe; a pipe holds `Capacity` pieces of configuration |
| `size` | how many pieces this container's configuration takes, at most `Pieces` |
| `sent`, `got` | pieces written and read |
| `mapped` | `writeUIDMaps` has been called (its error is ignored by the code) |
| `limited` | which processes are in the container's cgroup |

There is one action per stretch of code between two pipe operations, and one for
each way a read ends or a write breaks (`SyncBroken`, `SendBroken`,
`ChildBroken`). The child may die anywhere (`ChildDies`, also Pdeathsig), and the
server may crash anywhere (`Crash`: its ends are closed, Pdeathsig follows when
it follows). Left out: what mounts, devices and pivoting do, beyond that they may
fail (`GrandExec`). The newline after the configuration is assumed to come with
the last piece; alone it can come only for a configuration that is longer than a
pipe (64 KiB) and fills whole pages, and then the parent may be told of an error
after the child has cloned the container.

### RecordFiles and Commands

Inside the server the store's lock makes a file operation one step. Between
processes it does not: `os.WriteFile` opens with O_TRUNC and later writes.
`RecordFiles` says what a second process can do to a Save in between. Each actor
with an open file remembers what happened to the file since (`fd`): nothing, then
the write leaves what was meant; another write, then what is left may be torn; an
unlink, then the write goes to a file nobody sees.

`Commands` is the life of containers under `cmd/cryruss/main.go`. It reuses
`ContainerRecord` for what updates do to a record.

| variable | stands for |
|---|---|
| `file` | the files `containers/<id>.json`: absent, torn, or a record |
| `fresh`, `proc`, `owner` | as in `ContainerLifecycle` |
| `parent` | the command whose end a process does not survive (Pdeathsig); none under proot |
| `cmd` | the commands at work: where each stands, and its local variables |
| `menu` | the subcommands users of this behaviour type, and the processes they start |
| `deaths`, `overlapped` | commands killed, and whether two have worked at once |

| action | code |
|---|---|
| `CreateBegin`, `CreateReplaces`, `EachDone` | `cmdCreate`, `cmdRun` up to the record |
| `Launch`, `LaunchFails`, `Exited` | `cmdRun`: the start, and in the foreground the wait and the exit |
| `GoroutineWakes`, `Leave` | what `run -d`, with or without `--rm`, and `start` leave to a goroutine, and that main returns |
| `StartBegin`, `StopBegin`, `RestartStarts`, `KillBegin`, `PauseBegin`, `RenameBegin` | `cmdStart`, `cmdStop`, `cmdRestart`, `cmdKill`, `cmdPause` and `cmdUnpause`, `cmdRename` |
| `RmBegin`, `Delete`, `Unlink`, `PruneBegin`, `PruneNext` | `cmdRm`, `Manager.Delete`, `cmdSystemPrune` |
| `WaitBegin`, `Poll`, `Report` | `cmdWait`: a lookup every half second, then the exit code |
| `Truncate`, `Write`, `Update` | `Store.Save`, `Manager.UpdateState` |
| `Die`, `ProcExit` | Ctrl-C or the kernel |

A stop signals and waits for a process that is not its child, which fails at
once: here stop changes no process and writes the record, and the process may or
may not exit. `kill` stands for SIGKILL; a softer signal decides nothing. The
directory of a container is left to `ContainerLifecycle`; pids are not reused.

A command takes one container. Where the code loops over several (start, stop, rm
and others), the loop is as many commands one after another: it keeps nothing from
one container to the next, but the goroutines of its earlier containers, and these
are commands at `Leave` here. What is lost is that they all die together, and that
they count as working at once in `overlapped`.

### Networks

| variable | stands for |
|---|---|
| `netFile` | the files of the networks' directory: records under ids and under the built-in name, and `name-<name>` files, called by the name |
| `netFresh` | ids not generated yet |
| `netCall` | a command or request: operation, where it stands, its local variables |
| `netMenu` | what is asked for in this behaviour |
| `netOverlap`, `netDied` | two have been at work at once; one was killed (once) |

| action | code |
|---|---|
| `NetRequest` | a command, or a request (the server's connect, disconnect and prune are stubs) |
| `ensureDefaults` | `NewManager`, which every command begins with |
| `NetCreate`, `NetSubnet`, `NetAlias` | `Manager.Create`: a listing for the name, one for the subnet, two files |
| `DeleteForce`, `NetUnname`, `NetUnlink`, `NetPrune` | `Manager.DeleteForce`, `Manager.Prune` |
| `Connect`, `Disconnect` | the record is read, changed and saved |
| `NetTruncate`, `NetWrite`, `NetDie` | `Store.Save`, a kill |

`NetGet` is `Manager.Get` with its three ways to find a network. The third tries
the beginnings of file names, and `name-` files begin with `name-`: `AliasPrefix`
stands for such a word, under which a network without name, subnet or endpoints
is found (menu `Prefixed`). One built-in network stands for three. An address is
its last number and whether it was written bare; subnets are the second number
of 172.x.0.0/16, and of 10.x.0.0/24 once those are used up. What a user asks for with
`--ip` is a bare address, though the code takes any string: one with a prefix length
would go unrecognised by the allocator, like those it hands out itself.

### Volumes

`volFile` and `volDir` are the record and the directory of each name; `volCall`,
`volMenu`, `volOverlap` and `volDied` are as for networks; `volTaken` says that a
removal has begun. `VolExists`, `VolMkdir`, `VolTruncate`, `VolWrite` are
`Manager.Create`; `VolGet`, `VolRmdir`, `VolUnlink` `Manager.Delete`; `VolPrune`
the listing of `Manager.Prune`, which removes every volume, used or not. A record
that is torn counts as there for create and as missing for rm: once a create was
killed at the wrong moment, the volume can be neither made nor removed.

### Images and Rootfs

`imgFile` are the records with their tags, `imgLayer` the directories of layers,
`imgRemote` what the registry has under a tag. A layer is missing, partial (its
extraction goes on, or was cut off), full, or short: extracted to its end, but
without the files that could not be opened or written, whose errors `extractLayer`
drops (registry.go:269-274). A pull is `Resolve` (token, manifest, platform and
configuration, which may fail), `StatLayer`, `Fetch`, `Extracted` or `ExtractFails`
for each layer, then the record.
`Find` and `copyRootfs` are the image side of run, which skips a layer that is not
there; `Tag` and `Rmi` the other commands. `Full` is what `ParseReference` and
`String` make of a reference together; `Tag` and `Rmi` use the reference as it was
typed. `Publish` is the registry's.

`Rootfs` looks inside extraction and copying. Its input is any sequence of tar
entries (directories, files, whiteouts, opaque markers), a layer at a time.
`extractLayer` applies one to the directory of its layer, `copyDir` is one step of
the walk that copies a layer over the root file system, `PrepareRootfs` gives up
where a file is to go over a directory (phase "failed"). Beside it, `rfOwn`,
`rfMarks` and `Under` compute what the image format means by the same entries.

`References` is the text processing between what a user types and what `Full`
stands for: a text is the words between its slashes, with a tag and a digest;
`ParseReference` and `String` are the functions of that name, `Asked` what
`RegistryURL` and `TagOrDigest` make of the result. Its only action pulls by any
text, and keeps up to two, so that pairs can be compared.

### Stacks and ComposeFile

`Stacks` is one user's `stack deploy` and `stack rm`, repeated in any order and
killed anywhere. Its calls on networks and volumes are those of `Networks` and
`Volumes`, with their file operations (`StkNetwork`, `StkVolume`, `StkNetworks`,
`StkVolumes` only begin them); a call on a container is one step (`StkService`,
`StkPrepare`, `StkContainer`, `StkStop`, `StkRootfs`, `StkDelete`). A service may
name no image (`Imageless`): then nothing is pulled, no warning is given, and the
container is created without a root file system. Somebody may start a container of
the stack (`StkStart`), and with a second menu make volumes of the same name
meanwhile.

`ComposeFile` reads any file of up to `MaxLines` lines from a small vocabulary
with the state machine of `parseComposeFile`, one action per state, and keeps
what was read as a set of paths; `PathTo` computes the same from the indentation.
Lines are indented by up to eight columns, the deepest the parser looks at: there
are the keys of an entry of a list, such as the aliases of a network or a volume in
its long form, which it takes for further entries.

### Resources

Networks, volumes, images, references, root file systems and compose files share no state
except where `Stacks` composes networks with volumes. So `Resources` has one of
them (`focus`) at work in each behaviour while the rest stand still: TLC checks
one after the other in one run.

### CgroupWeights

`cpuSharesToWeight` over machine integers, with Go's rounding towards zero and
the wrap-around of the product. It is a function, and what is to be known of it
is proved, so no run uses it.

## 3. Runs

**Bounds of the lifecycle.** `Ids` and `Existing` (containers that can ever exist,
and that exist at the beginning), `Reqs` (handlers active at once), `Names`, `Pids`
(processes that can ever be launched), `Menus` (the operations and path parameters
clients use and the crashes of the server, one menu in each behaviour).
Two handlers interleave with each other, with one goroutine per process and with
the processes, which is every pair of actors in the code; two processes are what
it takes for a late goroutine to meet a new process; two containers and one name
are what it takes for a lookup by name to be ambiguous. Requests are symmetric
where only safety is checked. `lifecycle_records` has two menus: two processes of a
container under starts and restarts, and one process under nine operations on two
containers. `lifecycle_recovery` has one container, where a name finds what the id
finds, so the id is its only path parameter; one of its menus is about exits while
the server stays up, the others about what only a listing repairs: a crash or a
pause with two processes, both with one. In the handshake a configuration takes one
to four pieces and a pipe holds two, so that it may fit or block the parent.

**Bounds of the command line.** Two commands at a time, two containers of one
name, one process (two where only `start` or only `restart` is typed), one kill
(`MaxDeaths`): the second container is what names and listings can confuse, and
overlapping writers need only two. A third file or writer adds no new relation
between `fd` and file. Commands come from one of the menus of `MCCommands`, which
put together those that meet over the same fields. `commands_wait` needs only a run, a
wait and no kill.

**Bounds of resources.** Two network names and ids, two endpoints, addresses up to
.4, the broadcast address (`LastHost`), of which two can be handed out, so that
they are used up; one automatic subnet (`LastSubnet` 18) and one random one
(`LastRandom` 100), so that the range is used up too; two volumes; two images that
share a layer, one short and two full references; in a stack one network, one
volume and two services, one of which names no image, with three ids for containers
so that a redeployment replaces (the ids are symmetric); four tar entries over three
paths (a file that becomes a directory, a whiteout over a lower layer, an entry
before its marker); compose files of seven lines, enough for a service with deploy,
a key after it, another section and a second service; references of up to three
words from four (`library`, `localhost`, the hub, which stands for words with a dot,
and another), with or without a tag and a digest. One kill per behaviour, at
any step.

Deadlock is not checked in any of these runs: a server whose clients are silent,
or whose bounded supply of pids is used up, stops, and so does a launch that is
over, or a user who has no ids left. That nobody waits for ever is what
`RequestsEnd`, `StartReturns`, `ChildLeaves` and `WaitEnds` say.

| run | question | result |
|---|---|---|
| `lifecycle_records` | two handlers, any operations | `TypeOK`, `RecordSound`, `ChildrenWatched`, `StopTakesEffect` hold (0.6 M states) |
| `lifecycle_serial` | does one request at a time keep the promise of `Containers`? | `KeepsPromise` holds (0.3 M states) |
| `lifecycle_recovery` | are requests answered, children reaped, exits recorded, records repaired? | `RequestsEnd`, `ZombiesReaped`, `ExitRecorded`, `PollingRepairs` hold (0.13 M states) |
| `handshake` | does a launch end, cleanly, whoever dies when? | `TypeOK`, `MappedFirst`, `FailureIsClean`, `DescriptorsClosed`, `StartReturns`, `ChildLeaves` hold |
| `commands` | what do commands, each a process, do to each other's containers? | `TypeOK`, `RecordSound`, `Orderly`, `ExitRecorded`, `WaitEnds` hold (0.24 M states) |
| `resources` | do records, names, directories and layers agree? | fourteen properties, below, hold (1.1 M states) |
| `handshake_stop` | does Stop end the container? | no: `StopEndsContainer` is violated |
| `handshake_limits` | does the container get its cgroup? | not always: `LimitsApply` is violated |
| `lifecycle_force_remove` | does a forced removal remove? | no: `ForceRemoves` is violated |
| `lifecycle_remove_running` | does a removal spare running containers? | no: `RunningNotRemoved` is violated |
| `commands_wait` | does a wait report the exit code? | not always: `WaitReports` is violated |
| `image_pull` | is a pulled image found under its reference? | not always: `PulledIsFound` is violated |

Of the server:

* `RecordSound`: a record that says Running has a pid and the status running or
  paused, and the pid in any record, listing or copy about to be written belongs
  to a process launched for that very container. It is not obvious, because
  half of the updates write only some fields (a restart keeps the old pid, the
  list and the goroutine of a restart too, pause writes a status over anything).
* `ChildrenWatched`: a launched process that nobody has reaped has a goroutine
  waiting for it, or the handler that is about to start one, also when its
  container has been removed meanwhile and the update finds nothing.
* `StopTakesEffect`: after `runtime.Stop` the process it signalled is not
  running, whoever else reaped it and whether or not it was suspended.
* `KeepsPromise`: refinement of `Containers`, the name of a container being that
  in its record and its live processes those launched for it.
* `ExitRecorded`, `PollingRepairs`: a record that says Running while nothing runs
  is put right. With starts, stops, kills and removals alone the goroutines do it;
  with pause (whose update can write a stale Running back) or a crash only a
  listing does.

Of a launch:

* `MappedFirst`: the child takes the *end* of the ready pipe for the word to go
  on. If the server dies there, the only thing that keeps a container from being
  cloned without id maps is that the configuration is written last.
* `FailureIsClean`, `DescriptorsClosed`: every error path kills the child, closes
  what is open and has cloned nothing.
* `StartReturns`, `ChildLeaves`: neither side waits for ever, because each closes
  the ends that belong to the other.

Of the command line:

* `RecordSound` (of `Commands`): the same as above for every record that can be
  decoded, through torn files, overlapping writers and kills.
* `Orderly`: as long as no two commands work at once and none is killed, every
  process that lives is the one its record names, and every record can be read.
  The exceptions are the code's: a stop that is not waited for, and commands that
  detach, whose goroutine may be cut short while it writes.
* `ExitRecorded`: a run in the foreground records the exit, whatever others do to
  the file, but for one case the property names: another Save overlaps the one that
  records it, and what the two leave cannot be decoded (`TornForGood`).
* `WaitEnds`: once no process is left, a wait finds out and reports, also when its
  container is removed and when others write meanwhile, unless a lookup fails: that
  ends it too, but not as it should (`WaitReports`, below).

Both are for users who run in the foreground and neither rename nor pause: after
`run -d` the record says Running for ever.

Of resources:

* `NamesLeadHome`: whatever commands do to each other's files, a name never leads
  to a network of another name. `NetworksApart`, `NetworksFound`,
  `EndpointsSpared`: one command at a time, names and allocated subnets belong to
  one network (also after a kill); every network is found and every name leads
  somewhere (after a kill it need not: a network without its `name-` file can
  still be listed); an unforced removal takes no endpoints. All four are claimed
  for users who call networks by names and ids: a single `network rm name` removes
  the network that the first `name-` file leads to, connected or not.
* `AskedIsKept`: an address a user asked for is not handed out afterwards. Two
  *allocated* addresses do collide: the allocator does not recognise its own.
* `VolumesWhole`: record and directory go together between commands; until
  somebody removes a volume, every record has its directory even under overlap
  and kills.
* `ImagesComplete`: an image that is listed has all its layers, and each was
  extracted to its end unless a command was killed or, with two pulls at once, one of
  them failed: a layer that is taken to be there because its directory is. To its end
  is not in full: a file that could not be written is left out without a word.
* `RootfsComplete`: without whiteouts the root file system is what the image
  means; with them nothing is missing that should be there, as long as a marker
  comes before the entries of its own layer. What a whiteout should remove from
  lower layers stays: it is applied to the directory of its own layer.
* `OneContainerEach`, `StackSettled`, `OwnVolumesSpared`: repeated deployments,
  killed anywhere, never give a service two containers; after a deployment without
  warning every service has one, with a root file system if the service names an
  image; what a removal leaves is nothing that carries the
  label, except containers somebody had started (Delete refuses, after their root
  file system is gone); a removal takes no volume of others, also if they make
  volumes meanwhile. (Who *removes* a volume of the stack while `stack rm` is under
  way and makes his own of that name loses it: the menu leaves that out.)
* `ComposeRead`: the parser reads what the indentation says except in four
  places the property names: everything under `deploy:` is lost, so is the `image:`
  after it, an entry of a list that is only a key keeps its colon (a network in
  map form), and the keys an entry has are read as further entries (`Misread`).
* `ReferencesTold`: who types the tag of an image again asks the same registry for
  the same thing, and two images asked for differently have different tags; except
  where `String` drops too much, which `Blurred` spells out: `library/` of any other
  registry or of a longer name, and a hub that was written out.

### What the runs find

Stop signals `State.Pid`, the supervisor. The container's own process is its
child, asks for no Pdeathsig and does not die with it: after `cryruss stop`,
`kill` or `rm -f` of a natively launched container, and after a crash of the
server, it runs on, orphaned. (For the same reason pause suspends only the
supervisor.) And the supervisor joins the cgroup after it has been sent its
configuration: a container it clones before that runs without its limits.

When a tag moves in the registry and is pulled again, the old image keeps the tag
in its record; a lookup returns the first record that carries it, which may be
the old one, though the command has said "Downloaded newer image".

A wait looks the container up, drops the error and uses the record
(main.go:1196-1198). A lookup that fails while another command is saving the record,
between the truncation and the write, ends the wait in a panic, with the container
still running or just stopped: in `commands_wait` the run it waits for is recording
the exit. The save of a pause, an unpause or a rename can do the same to it, and a
removal does, after which every lookup fails.

### What concurrency breaks

A forced removal kills the process, then asks `Delete`, which
still reads Running until the start's goroutine has recorded the exit: the client
gets 500 and has to repeat. A plain removal checks Running before a start that is
under way has written it, and deletes a container that is running.

`lifecycle_serial` leaves out four operations, because with them the promise does
not even hold for one request at a time:

* stop and restart return before the goroutine of the earlier start has recorded
  the exit; when it does, it writes exited and pid 0 over the record of the
  container that has been started again, which can then be started a second time;
* list clears Running as soon as the process is reaped, with the goroutine's
  write still to come: the same;
* rename gives a container a name that another one has.

Two starts at once both launch. Two commands on one network, volume or image
lose updates, give two networks one name or subnet, and leave a record without
its directory. These are consequences of the same missing lock and not stated as
properties of their own: they are why the properties above say `~overlap`.

### Fairness

`FairSpec` of `ContainerLifecycle` asks weak fairness of each handler's steps and
of each waiting goroutine's steps, which is what the Go scheduler and the timeouts
of Stop give. Clients need not send requests, processes need not exit, the server
need not crash. `InitHandshake` asks the same of the parent and of the child, and
not of Pdeathsig. `PollingRepairs` assumes in its own formula that a client keeps
listing. `FairSpec` of `Commands` asks weak fairness of the steps of a command
that has begun; users, processes and signals owe nothing. The modules under
`Resources` state safety only.

## 4. Proofs

`ContainerLifecycleProofs` proves for every value of the constants (any sets of
containers, requests, names and pids, any operations, any number of crashes):

| theorem | statement |
|---|---|
| `TypeCorrect` | `Spec => []TypeOK` |
| `RecordsSound` | `Spec => []RecordSound` |
| `ProcessesWatched` | `Spec => []ChildrenWatched` |
| `StopsEffective` | `Spec => []StopTakesEffect` |
| `PromiseKept` | `Serial`, then `Spec => KeepsPromise` |

Assumptions: pids and ids are positive numbers, names differ from ids and 0,
menus hold API operations and numbers of crashes, `NoRecord` is neither a record nor
a name. As everywhere, each is named in the module that declares the constant
and evaluated by TLC.

The argument. Types alone are not inductive: the handlers' local variables have
to fit their position (a handler that is about to write has a record in `copy`
and an id in `id`; one past its Launch has a pid in `made`). `TypeInv` adds that
shape. `RecordSound` needs to know that a pid that is not yet launched is in
nobody's hands, so that giving it an owner disturbs no record: `SoundInv` adds
it (`Launched`). `WatchInv` needs nothing but those two and itself: a goroutine
leaves its wait only when its process is reaped, and reaped it stays. `StopInv`
says of each handler past its Stop that the process is launched and gone, so
that no later Launch revives it. Each is proved in three steps (initially, by every
step, implies the property), one step per action.

`PromiseKept` is the refinement of `Containers`. Its hypothesis `Serial` is what
`lifecycle_serial` has: one request at a time, and no stop, restart, list or rename
among them, since with any of these the promise does not hold (section 3). Crashes,
exits and the goroutines behind starts are as free as ever. `PromiseInv` adds what a
step needs to be one of `Containers`: names are apart, a container has one live
process, which its record names unless its start is still at work; a handler's copy
is up to date where it matters (`HandlerKeeps`: nobody else writes meanwhile but a
goroutine that takes Running away); and the goroutine of a start is the only one of
its container, which says Running until it has written (`WaiterKeeps`). Then every
step of `Next` is a step of `Containers` or changes neither names nor live processes.

`InitHandshakeProofs` proves, for a configuration of any length and pipes of any
capacity, `HandshakeTyped`, `MapsComeFirst`, `FailedStartsNothing` and
`NoDescriptorLeft`, from one invariant: where parent and child stand determines
the ends each holds (`Holding`), and what was read was sent, nothing being sent
before the maps are written (`Transfer`). A broken write then means that the child
is gone without having read everything, hence without having cloned.

`VolumesProofs` proves `VolumesTyped` (`VolSpec => []VolTypeOK`) and
`VolumesAreWhole` (`VolSpec => []VolumesWhole`) for any names, actors and menus;
the assumptions are that `NoVol` is no name and that no record is `NoRecord` or
`Torn`. `VolumesWhole` speaks of volumes between calls and says nothing of one
that is half made, so it is not inductive. `VolInv` adds four things: the step of
a call determines its fields (`VolShaped`); before the first overlap one call at
most is at work (`Alone`); without overlap and kill that call has come exactly as
far as its step says, and it alone excuses a volume that is not whole
(`Undisturbed`); and while nobody removes anything, every directory made stays
(`NothingTaken`), which needs neither of the two before it.

`CommandsProofs` proves `CommandsTyped` (`Spec => []TypeOK`) and `CommandsSound`
(`Spec => []RecordSound`) for any containers, commands, names, pids, menus and
number of kills; the assumptions are those on ids, names, menus and values that
`Commands` and `ContainerRecord` name. `RecordSound` does not say that the process
a command is about to record is its container's, nor that a pid in a record was
handed out before. `CmdInv` adds both (`GoodCmd`, `SoundIn`), and when a command
holds a copy at all (`Shaped`): a copy is taken for one container, and the command
goes on to another only after it is written. What a write leaves is then a sound
record, a torn file or what was there; a kill or an exit changes no owner
(`Later`); and a launch gives an owner to a pid that is in no record. A lemma
says what a step of one command has to establish when it touches no file
(`Moved`) and when it does (`Filed`), and there is one lemma per action.

`CommandsOrderly` is `Spec => []Orderly`. `Orderly` is about moments when no command
is at work, in behaviours where none overlapped and none was killed; `OrdInv` says how
far the one command has come. It alone is busy (`OneBusy`) and writes to the file it
has opened (`CleanWrites`). A torn file is one that it is about to write (`NoneTorn`).
And a live process is named by its container's record, by the copy about to be
written over it, or by the command that has launched it and will record it
(`NoneLost`), which in turn needs what the command knows of the files at each of its
steps (`Steady`).

`NetworksProofs` proves, for any ids, names, addresses, actors and menus:

| theorem | statement |
|---|---|
| `NetworksTyped` | `NetSpec => []NetTypeOK` |
| `NameLeadsHome` | `NetSpec => []NamesLeadHome` |
| `NetworksKeptApart` | `NetSpec => []NetworksApart` |
| `NetworksAreFound` | `NetSpec => []NetworksFound` |
| `ConnectedAreSpared` | `NetSpec => []EndpointsSpared` |
| `AskedKept` | `NetSpec => AskedIsKept` |

assuming that ids, names and the words that stand for nothing are told apart, that
subnets and addresses are the numbers of the code, and that no record is a name file,
`NoRecord` or `Torn`. What a network is called is said in three places: by its
record, by the file of its name, and by the copies that calls are about to write. They
never disagree, whoever overwrites whose file (`NamesAgree`), because an id is made
once and a network is never renamed. What calls know when they come one at a time is
in two layers: what nobody disturbs even after a kill (`Sole`: the name and the subnet
looked up are still free), and how much of the work is done if nobody was killed
(`NetUndisturbed`: each name leads to its record, but for the call between its two
files). `NetShapes` and `NetAlone` are those of volumes.

`ImagesProofs` proves `ImagesTyped`, `ImagesAreComplete`, `ReferencesTyped`,
`ReferencesAreTold`, `RootfsTyped` and `RootfsIsComplete`, the invariants of `Images`,
`References` and `Rootfs`: for any images that share any layers, any actors and menus;
for texts of any words and length; for any paths, closed under beginnings
(`PathsClosed`), and any number of layers and entries.

* `ImagesComplete` speaks of listed images, and a pull lists its image last, long
  after it looked at the layers. `LayersInv` says which layers a pull is through with,
  that nobody extracts over a layer of a listed image, and that a partial layer is in
  the hands of an extraction that goes on; each under the conditions that the code
  needs for it (one command at a time, or no failed extraction, and no kill).
* `ReferencesTold` follows from the types alone, since pulling is a function of the
  text: the work is in the lemmas on parsing and writing, which have no recursion.
* `RootfsComplete` speaks of the moment between two layers. `RfInv` says, while a
  layer is copied, that every path of the image is in the root file system or in what
  the walk has not come to, and that what is in the root file system without being in
  the image is below a file which the walk has yet to come to: where the copy fails.

`ResourcesProofs` stands on these and on `VolumesProofs`:

| theorem | statement |
|---|---|
| `StacksTyped`, `OneEach` | `StkSpec => []StkTypeOK`, `StkSpec => []OneContainerEach` |
| `StacksSettle` | `StkSpec /\ CalledByName /\ OthersOnlyMake => []StackSettled` |
| `OwnSpared` | `StkSpec /\ OthersOnlyMake => OwnVolumesSpared` |
| `ParserTyped`, `FilesAreRead` | `CfSpec => []CfTypeOK`, `CfSpec => []ComposeRead` |
| `ResourcesTyped` | `ResSpec => []ResTypeOK` |
| `ResourcesKeepTheirs` | `ResSpec =>` always all ten safety invariants of the components that hold of every menu |
| `ResourcesKeepAsked` | `ResSpec => AskedIsKept` |
| `ResourcesSettle` | `MenusOfStacks`, then `ResSpec => []StackSettled /\ OwnVolumesSpared` |

`StackSettled` relates three kinds of things a command makes or removes one after
another, through calls that others may race. `StkInv` says of each kind how far the
command has come: what a deployment has done away with exists, is still to come, or is
what its call is about; what a removal has not listed carries no label. `CtrsCome` is
about containers, `NetsCome` about networks and `VolsCome` about volumes, where
`VolsSafe` adds what the command knows though others make volumes meanwhile.
`OthersOnlyMake` and `CalledByName` are the menus of the run: others remove no volumes
while a stack command is at work, and nobody uses `AliasPrefix`. `MenusOfStacks` says
the same of the constants.

`CfInv` ties the state of the line parser to the path of keys that the next line may be
under (`StateFits`), for files of any length. `ResInv` puts the invariants together: a
component keeps its own while it is at work, and a stack command's steps on networks
and volumes are steps of those.

`CgroupWeights` proves `WeightAccepted` (for integers of any width and any number
of shares, the weight is in 1..10000), `MoreSharesMoreWeight` (monotone as long as
the product fits) and `EndsMeet`.

Left to TLC: liveness, because neither fairness nor ENABLED is within the prover's
reach: `RequestsEnd`, `ZombiesReaped`, `ExitRecorded` (of both modules),
`PollingRepairs`, `StartReturns`, `ChildLeaves`, `WaitEnds`; and the six properties
that do not hold. Every safety property of the passing runs has a theorem. The bounds
of the runs are constants of the theorems, so they are proved for any bound; what is
left out of the model (section 2) is left out of the theorems too.

## 5. What is left

To prove: the refinement says nothing of stop, restart, list and rename; a second,
weaker promise that allows the late write of a goroutine would say what these still
keep. `StackSettled` is proved for users who make volumes but do not remove them.

Not modelled, and why:

* `exec`, `logs`, `ps`, `inspect`, `stats`, `top`, `port`, `diff`, `info`: they
  read state, or stream it; none decides what another operation does. `cp` runs
  cp(1) on files that no other operation looks at.
* HTTP routing, JSON, flags, formatting, terminals, configuration paths: text and
  I/O with no state of their own. A record that JSON cannot decode is modelled.
* Mounts, devices, id map ranges, cgroup control files: calls to the kernel whose
  outcome, where it decides something, is a step that may fail.
* The wire format of registries, tokens and platforms: one step, `Resolve`.
* Networks without a name, which only the API can create, and two of the three
  built-in networks, which differ from the third in their names.
* Links, devices and modes of files in layers.
