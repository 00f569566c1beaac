# kdump in TLA+

Specifications of kdump, the program that saves a crash dump of a Linux
machine. This directory models the parts of it where the order of events,
failures in the middle, or several processes at a time make the code hard to
test: TLC checks the models on small instances, TLAPS proves some of their
properties for instances of every size. `PROJECT.json` lists for each definition
the source lines it models, for each run its properties, and for each property a
plausible bug that the property catches.

## 1. The system

A panicking kernel jumps into a second kernel that was loaded beforehand. Kdump

* **loads that kernel** while the machine works normally (`init/load.sh`, started
  by systemd and, after memory or CPU hotplug, by udev through
  `init/load-once.sh`), and builds its initrd (`init/mkdumprd`);
* **saves the dump** in the initrd of the second kernel (`init/save_dump.sh`),
  with `kdumptool delete_dumps` and `kdumptool save_dump`, to a local directory
  or to a server, and then reboots.

```
 normal system                              kdump environment
 -------------                              -----------------
 systemd: kdump-early, kdump  --+           save_dump.sh
                                v             | prescript
 hotplug -> udev -> load-once.sh -> load.sh   | kdumptool delete_dumps --> save directories
            (lock, jobs file)        |        | kdumptool save_dump
                                     v        |    | Routable (wait for the network)
                     panic kernel in memory   |    | data provider --> Transfer
                                |             |    |   file | nfs | cifs | ssh | sftp | ftp
                                +-- panic --> |    | mail, free space, README, kernel
                                              | postscript, error shell, reboot
```

The parts call each other and share files; there are no threads. The processes
that run at the same time are the scripts started by udev and systemd, the
children that kdumptool talks to through pipes (makedumpfile, ssh, mount), the
remote ends of an upload, and the kernel, which announces routes.

| part (source) | state | operations | what is hard | what makes it correct |
|---|---|---|---|---|
| `save_dump` (`savedump.cc`, `transfer.cc`, `dataprovider.cc`) | error code, members set by one step and read by later ones, files on the target, mails sent | the steps of `execute()`, in a fixed order | every step can fail, and has its own catch block that goes on or stops | exit status, mails, README and files agree about what happened |
| `delete_dumps` (`deletedumps.cc`, `fileutil.cc`) | dump directories and their files | list, sort, remove the oldest, file by file | interrupted between two files; runs before the new dump exists | the newest dumps stay, the rest goes, oldest first |
| `save_dump.sh` | step of the script, directories over several crashes | prescript, delete, save, postscript, shell, reboot | power loss at any point, an operator in the error shell | bounded number of dumps; the machine comes back |
| `load-once.sh` | lock file, jobs file | append, lock, test, truncate, load | any number of instances interleave | one loader at a time, no event forgotten |
| `load.sh`, `unload.sh`, udev rules, units | loaded image, initrd, installed rule | load, unload, hotplug | the services do not take the lock | the image describes the present hardware |
| SSH upload (`sshtransfer.cc`) | pipe, ssh child, remote `dd`, two file names | mkdir, write blocks, finish, wait | each of four parties can end first; blocking waits | no child left over, the final name comes last, the upload ends |
| SFTP upload (`sshtransfer.cc`) | last request id, offset, handle on the server | mkpath, open, write, close | refusals and dead peers in every state; cleanup that fails itself | the confirmed file is whole, replies match, handles are closed |
| `Routable` (`routable.cc`) | netlink socket, time limit | resolve, subscribe, ask, wait | routes come up between two queries | no route is missed, no endless wait |
| `ProcessFilter`, `MultiplexIO` (`process.cc`, `multiplexio.cc`) | pipes of a child | poll loop | child and parent both blocked on full pipes; data and hangup at once; a child that cannot be executed | all input fed, all output read, no child left |
| FTP, NFS, CIFS transfers (`transfer.cc`) | libcurl callback, mount points | open, perform, mount, unmount | errors inside callbacks, several targets, a mount that is killed | a file counts as saved only if it is whole; it lies on the share it is meant for; mounts undone |
| configuration (`configuration.cc`, `configparser.cc`, `quotedstring.cc`, `dumpconfig.cc`) | options | read through a shell, quote, print | quoting must survive a second parser | a value comes out as it went in |
| kernel search, `mkdumprd` (`findkernel.cc`, `kerneltool.cc`, `kconfig.cc`, `mkdumprd`) | files in `/boot` and their times | find a kernel, read its configuration, rebuild its initrd | packages and configuration change meanwhile; one bad image ends the search; a compressed configuration anywhere in an image | the best kernel, with an initrd that fits it and the configuration |
| `calibrate` (`calibrate.cc`) | none | compute the reservation | the need grows with what is reserved; rounding; every input may be unreadable | large enough, and where the memory map has room |
| mounts (`mounts.cc`) | mount tables | find the devices under a path | fstab against what is mounted, btrfs, `root=` | every device that holds the path |
| device timeouts (`device-timeout-generator.c`) | drop-ins for systemd | read `rd.timeout`, fstab | names escaped as systemd does it | every device gets the limit |
| multipath (`multipath.cc`) | none | edit `multipath.conf` | sections in any order, twice, missing | the file means what it meant, and the additions |
| paths and URLs (`fileutil.cc`, `urlparser.cc`) | none | canonical paths, targets | links below a root, special characters | the file or host that is meant |
| VMCOREINFO (`vmcoreinfo.cc`, `util.cc`) | none | walk over ELF notes | padding, truncation | time and release of the crash, Xen or not |
| initrd contents, mail, LED, progress, options, logging | none that others read | output | - | - |

## 2. Modules

| module | models | instance |
|---|---|---|
| `SaveDump` | one `kdumptool save_dump`, from the creation of the directories to the exit status | `MCSaveDump` |
| `SaveDumpProofs` | proofs about `SaveDump` | |
| `DeleteDumps` | one `kdumptool delete_dumps`; also the specification that its caller must respect | through `MCCrashCycle` |
| `CrashCycle` | `EXTENDS DeleteDumps`: `save_dump.sh` over several crashes, with power losses and an operator | `MCCrashCycle` |
| `CrashCycleProofs` | proofs about `CrashCycle` and `DeleteDumps`: the one respects the other | |
| `LoadOnce` | all instances of `load-once.sh`, the lock and the jobs file | through `MCKdumpService` |
| `KdumpService` | `EXTENDS LoadOnce`: boot, both services, hotplug, udev, `load.sh`, `unload.sh` | `MCKdumpService` |
| `KdumpServiceProofs` | proofs about `LoadOnce`, and about `KdumpService`, which uses it | |
| `SshTransfer` | an upload to `ssh://`: kdumptool, ssh, the connection, `dd ... && mv ...` | `MCSshTransfer` |
| `SshTransferProofs` | proofs about `SshTransfer` | |
| `Routable` | `Routable::check()` and the netlink socket against a changing network | through `MCSftpTransfer` |
| `SftpTransfer` | `EXTENDS Routable`: an upload to `sftp://` with a server that refuses and dies | `MCSftpTransfer` |
| `SftpTransferProofs` | proofs about `SftpTransfer` and `Routable` | |
| `PanicKernel` | `kdumptool find_kernel`, `mkdumprd` and the loading by `load.sh`, while `/boot` and the configuration change | `MCPanicKernel` |
| `PanicKernelProofs` | proofs about `PanicKernel` | |
| `Filter` | what a caller of `ProcessFilter::execute()` relies on, without pipes | through `ProcessFilter` |
| `ProcessFilter` | a command on up to three bounded pipes, and the poll loop of its parent; implements `Filter` | through `MCRemoteTransfers` |
| `RemoteTransfers` | `EXTENDS ProcessFilter`: a `save_dump` to `ftp://`, `nfs://` or `cifs://`, from reading the configuration to the destructors | `MCRemoteTransfers` |
| `RemoteTransfersProofs` | proofs about `ProcessFilter`, which implements `Filter`, and about `RemoteTransfers`, one of them that it uses `ProcessFilter` as any caller may | |
| `Calibrate`, `Mounts`, `CanonicalPath`, `CommandLine`, `KernelImage`, `KernelConfig`, `DeviceTimeout`, `ElfNotes`, `Urls`, `Multipath`, `SftpPacket` | one algorithm each, see below | `MCAlgorithms` |
| `CalibrateProofs` | proofs about `Calibrate` and `Mounts` | |

Operators whose comment begins with `altered:` are the plausible bugs; no
specification uses them.

The modules of the larger systems have a `TypeOK`, which documents the values of its
variables. It is proved for `LoadOnce`, `KdumpService`, `SshTransfer`, `SftpTransfer`,
`PanicKernel`, `SaveDump`, and `CrashCycle` with `DeleteDumps`, and for `ProcessFilter` and
`RemoteTransfers` in the parts that their proofs need; it was checked with TLC on
every instance, but is not among the runs' properties, as
a value of a wrong type makes one of these fail, too.

### SaveDump

`pc` names the step of `SaveDump::execute()` that comes next. An action is a step
with everything it calls, up to the point where the code catches an exception:
`SaveDmesg` and `SaveVmcore` are the two halves of `saveDump()`, `NotifyFailure`
and `CheckAfterFailure` its catch block, then `Notify`, `CheckAndDelete`,
`CopyMakedumpfile`, `GenerateRearrange`, `GenerateInfo`, `CopyMap`, `CopyKernel`.
`Raise` is what every catch block does: remember the error code, then go on or
leave. `usedDirectSave`, `useMakedumpfile`, `split` and `release` are the members
of the class that carry information between steps, and `cmd` is the command line of
makedumpfile. A file is absent, cut short or whole, and possibly in the flattened
format; a transfer may fail before, while or after it writes. The histories
`failed`, `silent` and `deleted` are read by properties only.

How a dump is written depends on the kind of target (`cfg.kind`): a local file, a
file below a mount point, or a stream. `Outcomes` is `FileTransfer::perform()` with
its three ways to write (direct save by makedumpfile, a pipe, a plain copy); for
streams it is what all of them have in common: no direct saving, one file.
`PrepareFails` are the errors before the transfer, with the members that are set by then.
`FinishedTwice` is what only FTP can do: the second `finish()` of its catch block is
`pclose(NULL)`, and kdumptool ends with nothing caught.

### DeleteDumps and CrashCycle

A dump directory is a time stamp in a save directory. It has a file `vmcore`, which
is what `FilterKdumpDirs` looks for, and others. `RemoveFile` and `RemoveDir` are the
system calls of `FilePath::rmdir(true)`, in any order within a directory because
`readdir` has none; `Throw` is any of them failing, `Killed` a lost machine.
`Outside` is everyone else writing to the save directories, allowed only while
delete_dumps does not run: with it `DDSpec` is what delete_dumps expects of its caller.

`CrashCycle` drives it. `script` is the step of `save_dump.sh`; `ContinueError` is
`continue_error()` with its shell, `LeaveShell` and `Reboot` the operator's two ways
out of it, and `HandleExit` is `handle_exit()`. `SaveMkdir`, `SaveWrite`,
`SaveGivesBack`, `SaveFails` and `SaveSucceeds` are what `save_dump` does to the
directories; giving a directory back removes its files in any order, and may end before the
last of them. The script is executed by systemd or sourced by dracut
(`set.sourced`), and `return` means different things in the two cases. `DDSpec` is
checked as a property of `CrashCycle`.

### LoadOnce and KdumpService

Each command of `load-once.sh` is one action of one instance: `AppendJob`, `Flock`,
`FlockBusy`, `TestPending`, `TestEmpty`, `Truncate`, `TruncateFails`, `LoadBegin`,
`LoadEnd`, `Unlock`. The jobs file is the set of process ids in it. `LoadOnce` knows
nothing about `load.sh` but its beginning and its end. `KdumpService` fills these in:
`hw` counts versions of the hardware, `image` remembers which version the loaded
kernel's ELF headers describe, and `load.sh` finds the kernel, rebuilds the initrd,
reads the hardware and installs the image in separate steps (`FindKernel`,
`RebuildKdumprd`, `CheckInitrd`, `KexecInstalls`, `KexecFails`, `InstallRule`).
The initrd is missing, older than its inputs, or new: `RebuildKdumprd` makes it new,
`CheckInitrd` only asks whether there is one. `Udev` may pass any event by, as the rule
matches some of them only. `KdumpService` is built from `LoadOnce`'s own actions, so
that every theorem about `LoadOnce` holds in it.

### SshTransfer

The file is a number of blocks; the variables count how many of them were given by
the provider, are in the pipe, on the network, in the file `F-incomplete` and in the
final file. `pc` is the position in `SSHTransfer::perform()` including the destructor
of `SubProcess` (`Unwind` kills, `Reap` waits). The ssh client, the connection and
the remote shell take steps of their own and may end at any time. A broken
connection loses what is on the network, and `dd` then sees the end of its input.
`sigpipe` says whether a write to a closed pipe kills kdumptool or is an error.

### Routable and SftpTransfer

`Routable` counts time in ticks. `Subscribe` opens the socket that hears of route
changes, `Ask` is `hasRoute()` for one address, `Receive` and `TimeUp` are one round
of the poll loop of `receive()`. `Resolve` tries the name again, whatever the error was, until
`tried` reaches the limit, which counts from the start of `check()`; `AskFails` is an
exception of `talk()`, `checkRoute()` or `parseAttrs()`. The network changes in between
(`RouteChange`, `NameService`); an announcement may be one that the code skips
(a cloned route) or one that it cannot read (too long).

In `SftpTransfer` a request is a record in a one-place pipe, as the code always waits
for the reply before it sends again; ids count modulo `IdMod`. There is one action
for each kind of reply, and `Refused` and `Raise` for the error paths; the
catch blocks of `perform()` and the destructor are steps of their own, so that
a failure while cleaning up is covered. `OtherHost` is another machine that makes the
same directories on the server.

### PanicKernel

`KdumpService` takes it for granted that `load.sh` finds a kernel with an initrd;
`PanicKernel` is about which ones. An image in `/boot` is what the code can tell
apart: its format, relocatable or not, whether a configuration can be read, a Xen
kernel, one to be avoided (realtime, or for too many processors). `FindKernelAuto` is
the first of eight `Tries` that does not say no; an image that makes the code throw
ends the search. `ManPage` are the seven of kdump(5), with which `BestChosen` compares it. `Mkdumprd` compares the times of the initrd, the kernel and the
configuration (`NotRegenerating`), `Dracut` writes the initrd, with the
configuration of any moment while it ran, and `KexecLoads` and `KexecFails` end the
script. Each of these is a step, so that `Install`, `Remove` and `EditConfig` may come in
between. `began` and `settled` are histories. The other files whose times `mkdumprd` looks
at (ssh keys, hosts, nsswitch.conf) count as part of the configuration. The initrd of a release `5` is
named `initrd-5-kdump`, and so is that of the release `5-kdump` (`kernelpath.cc:110`); `OwnInitrd` says
which kernels do not share theirs.

### Filter, ProcessFilter and RemoteTransfers

`Filter` has five variables: the phase of the call, input not yet handed over, output
made and output collected for each descriptor, and how the command ended. `Return` is
only possible when nothing is left to give or to take; `Throw` may lose data but leaves
no command behind.

`ProcessFilter` is the program: `Spawn` makes the pipes and the child, `Poll` fills
`revents` for all descriptors that are still open, and then the descriptors are handled one
after the other with what `poll` said *before* (`Refill`, `Write`, `Written`,
`Collect`, `NoEvent`), while the command goes on reading and writing. `Write` is a blocking
`write()`: what does not fit in the pipe keeps kdumptool asleep. Sizes count
pages. `Quits` is a shell script that says `exit 0` before its end. A child for which `execvp` fails (`Exec` to `"second"`) is a second
kdumptool that goes on in the caller's catch blocks; how that ends depends on the caller, so
it is part of the command's record. `KeepsFilter` states the refinement:
`left` is what is in the stream and in the buffer, `ended` is the status of the child.
`PSpec` is `ProcessFilter` with any caller: one that executes any of `Commands` whenever no
call is under way.

`RemoteTransfers` calls `Execute` for the shell that reads the configuration, and for each mount
and umount. `mounts` is the mount table in the order of mounting; a mount point is a
sequence of names, and what lies on it is in the last mount at it or above it
(`Newest`): a share can hide another one at the same place, or, for NFS, below it. The FTP part is `Open`, `Prepare`, `Callback`, `DataEnds`,
`CurlFails`, `Finish` and `Catch`, once for each file; after an exception in
the callback libcurl's handle is `"torn"`. `astray` and `refused` are histories: a command
whose status was good although it did not do its work, and an unmount that failed.

### The algorithms

`MCAlgorithms` has one variable, `input`. Each disjunct of `Next` chooses an input of one
kind, and the invariant for that kind compares what the code computes with a
definition that works in another way. The modules hold both, the code first.

| module | the code | compared with |
|---|---|---|
| `Calibrate` | `Calibrate::execute()`: what user space, framebuffers, LUKS, slabs, dirty pages and page tables need on each of nine architectures, then low and high memory and where it is found in `/proc/iomem`; a step that throws discards all and leaves the defaults; the memory for each CPU, announced and never added, is `Omitted` | `Suffices`: the parts subtracted again from the reservation leave what is needed |
| `Mounts` | the mount point of each of several paths from two tables, btrfs devices, `root=` as a name, `8:1` or `0801`, with the static variable that keeps it from one path to the next; lsblk fails for all devices if it does not know one | `Really`: what is mounted there once all of fstab is |
| `CanonicalPath` | `getCanonicalPath(root)`: one text that is cut and extended | `Lookup`: the kernel's walk from directory to directory |
| `CommandLine` | quoting for a shell and for the kernel; `KernelConfigParser`; the parser of `system_root`; the generator's | each other, and a shell |
| `KernelImage` | search for the markers of the configuration in overlapping pieces, for a compressed kernel in a bzImage, and inflating with a growing buffer | where the markers are |
| `KernelConfig` | one line of a configuration, the files, and which of file and image is used | how the kernel's build writes a line |
| `DeviceTimeout` | the generator with its reads, its parsing of fstab and its escaping, where `char` is signed and where it is not | systemd's names for units |
| `ElfNotes` | the walk over the notes for VMCOREINFO, its time and its release, and the walk for Xen | the set of notes, and the time and release that the kernel wrote |
| `Urls` | `URLParser` | how a URL is put together |
| `Multipath` | `kdumptool multipath` | the contents of the sections before and after |
| `SftpPacket` | how `SFTPPacket` is filled and taken apart, `recvPacket` by buffers | the fields in the protocol |

Texts are sequences of characters, where a letter may stand for any word: only what a
parser treats in a special way has a character of its own. Where the code does not do
what the comparison expects, the property names the case as an exception, with its
line; the comment above each property lists them.

## 3. Runs

| run | shows | bounds, and why they suffice |
|---|---|---|
| `save_dump` | for every configuration, every step failing or not: the exit status is 0 exactly if nothing failed; status 0 means the dump is whole; the README describes the dump; "copied" mails are true | two targets, since the code treats the first and the others; up to 3 parts, so that parts wrap around the targets; one representative of each branch for dump level, format, flags and number of processors |
| `silent_truncation` | disagreement 1 | one configuration |
| `crash_cycle` | retention over four crashes, deletion in the order of age and never among the newest, the caller respects `DDSpec` (`DeleteDumpsSpec`), an unattended machine comes back | keep 1: four crashes are enough for the first dumps to be deleted twice and for an interrupted deletion to be met again; two local directories, because each is reduced on its own; the clock may stand still |
| `cycle_split` | disagreement 2 | one directory, four crashes |
| `kdump_service` | the lock protects the jobs (one loader, jobs taken are served, the holder drains), every cause of a stale image is known, every script ends | two instances, two hotplug events, both services started once: the lock has one holder and one contender, beside two loaders that ignore it |
| `lost_hotplug` | disagreement 3 | three instances, three events, no services; symmetric in the instances |
| `ssh_transfer` | nothing is left running, the provider is finished once, final names come last, failures end | 3 blocks and room for 2 in the pipe: the pipe can be full, empty and in between |
| `ssh_hangs` | disagreement 4 | the same instance |
| `sftp_transfer` | a confirmed file is whole; handles are closed and the provider is finished once on every path (`CleansUp`); no route is missed; `check()` does not give up before its time (`GivesUpInTime`); failed uploads end | 2 path components (one recursive call of mkpath), 2 buffers (an offset that is not 0), ids modulo 3 (they wrap around), 2 addresses, 3 changes of the network |
| `panic_kernel` | the kernel is the one that the man page's order of tries finds, but for the one try more that the code has, a kernel to avoid is chosen only if there is no better one, and some kernel is found if one will do (`BestChosen`); after `load.sh --update` the initrd has the present configuration and fits the kernel, and it is not rebuilt if nothing changed (`FreshInitrd`) | the five names that the search tries, and `5`, whose initrd has the name of another's; `KDUMP_KERNELVER` unset or `5`; at first up to two usable images or one of any kind; two runs of load.sh with one change anywhere, so that the second run meets what the first left behind |
| `remote_transfers` | what is saved lies on the configured share; what stays mounted has a cause; an FTP file that counts as saved is whole; `ProcessFilter` implements `Filter`; kdumptool ends unless the script for the shell fills a pipe | pipes of 4 pages and buffers of 2; the shell reads scripts of 0, 3, 4 and 8 pages: none, one that fits with room left, one that just fits, one longer than a pipe; up to 2 pages of output for a page of input, and 1 of messages; two targets on the same share, on two, with two protocols, or one below the other; three files, one for each kind of provider |
| `algorithms` | each algorithm against its definition | pieces, buffers, lines and bytes are shortened (`BufSize` 9, `MagicLen` 3, `ChunkAdd` 12, `LineSize` 10, a byte has `Base` 4 values and a buffer of `recvPacket` `Chunk` 3), so that every position relative to a boundary occurs; all texts up to 3 to 7 characters over the characters that the parsers distinguish; five memory maps, all nine architectures |

Bounds are constants of the models: `MaxCrashes`, `Stamps`, `MaxHw`, `MaxStarts`,
`MaxChanges`, `MaxLoads`, `Blocks`, `PipeCap`, `PipeSize`, `BufSize`, `MaxReport`, `MaxOwed`, `MaxLinks`, `GzipHeader`, `ZipMagicLen`, `Depth`, `IdMod`, `Timeout`, `Addrs`, and the
lengths of the configured sequences. Except in `SaveDump`, where the end of the
program is a state with a step of its own, deadlock is not checked: these systems stop
(a machine with no further crash, scripts that ended, an upload that is over), and
liveness properties say which of them must get there.

### Fairness

* `CrashCycle`: weak fairness of the script's steps. The script runs alone in the kdump
  environment, so a step that can be taken is. Nothing is assumed about the operator,
  and crashes and power losses are bounded by `MaxCrashes`.
* `KdumpService`: weak fairness of udev, of each `load-once.sh` and of each running
  `load.sh`: processes that the scheduler runs. Hotplug events and service starts
  are not fair.
* `SshTransfer`: weak fairness of kdumptool, of ssh and of the remote command. No
  fairness for anything that breaks.
* `RemoteTransfers`: weak fairness of kdumptool, and of a command that can read, write or
  end. Nothing is assumed about being killed, and a command that reads its input may fail
  before the end, but need not. `EndsUnlessLong` has a premise because the fairness cannot
  help where both sides sleep: that is how the code behaves.
* `PanicKernel`, `MCAlgorithms`: none, as they have no liveness property.
* `SftpTransfer`: weak fairness of kdumptool, of the clock, of the server answering
  *or* refusing, and of ssh ending once its pipes are closed. The network changes
  as it likes, a bounded number of times.

## 4. Proofs

TLAPS checks these for every value of the constants, from the named assumptions in
the modules (`NoneAssumption`: no process is called `None`; `SshAssumption`: at least
one block, a pipe that holds at least one, and `NoFile` is not a number;
`FilterAssumption`: pipes and buffers hold at least one page, and the bounds on what a
command reports are numbers; `RemoteAssumption` and `TargetsAssumption`: scripts and files have
a length, and a target is at least one URL with a share, a path that is not empty; `SftpAssumption`, `NoMsgAssumption`,
`RoutableAssumption`: at least one path component and one address, more than one request id, and
`NoMsg` is not a message; `ServiceAssumption`: a unit is not a process; `SaveDirsAssumption`,
`StampsAssumption`, `KeepAssumption`, `SettingsAssumption`, `CycleAssumption`: directories in a
list, times that are numbers, a number to keep or -1, settings that are true or false;
`PartAssumption`: the parts of a dump have names of their own; `ConfigsAssumption`: a configuration
has the options of `ConfigType` and no more processors than there are names for parts;
`PanicKernelAssumption`, `TriesAssumption`: versions are sequences of words, and all that the search tries are
among them; `BootsAssumption`: at first no kernel is newer than the clock, and only
`vmlinuz` and `vmlinuz-kdump` hold a release that their names do not tell; `NoFileAssumption`: `NoFile` is no file). TLC evaluates each
of them on the instances.

**KdumpServiceProofs, about LoadOnce.** For any set of instances, finite or not: types (`TypeCorrect`),
`MutualExclusion`, `TakenJobsAreServed`, `HolderDrainsJobs`, and `LockProtects`, which
puts the three together as the run's property `LockProtectsJobs`. None of them is inductive
alone. The invariant `LIInv` adds
`LockInv` - an instance is between `flock` and the end of its command exactly if it
holds the lock, which makes two loaders the same process - and `FoundInv` - the jobs
that an instance found belong to instances that have appended already, so
that no job can come back after `Truncate` removed it. One lemma for each conjunct,
one case for each command of the script. `Invariant` states `[]LIInv`; the others
follow from it.

**SshTransferProofs.** For a file and a pipe of any length: `TypeCorrect`,
`NoChildIsLeft`, `ProviderIsFinishedOnce`, `FinalNameComesLast`. The invariant `IInv`
has a part for each actor: `ChildInv` (which steps of `perform()` have a child),
`ProviderInv` (how often `finish()` was called at each step), `TargetInv` (which of the
two files exist, and who has ended when), and `Conserved`: no block is in two
places. `Conserved` is needed for the types already: that `incomplete` never
exceeds `Blocks` depends on what is in the pipe, on the network and given by the provider.

**RemoteTransfersProofs, about ProcessFilter.** For pipes and buffers of any size and for any caller, `ImplementsFilter`
says `PSpec => KeepsFilter`: the poll loop is a refinement of `Filter`. The hard step is
`Return`: when it happens, nothing may be left in any stream, buffer or pipe. It needs `PInv`,
whose parts are `Types`; `ChildInv`, at which steps there is a child, and whether it has been
reaped; `InputInv`, that the pipe for the input is closed only after its end was written; and
`OutputInv`. The last has three parts for each descriptor: `Counted`, what was made was collected
or is in the pipe; `Closed`, a pipe that was closed is empty and stays so; and `Told`, that what
`poll()` said is still true when the pipe's turn comes, although the command went on in the
meantime. Without `Told`, closing after a hangup could lose output. `FilterInvariant` states
`[]PInv`; there is one case for each action, of the parent and of the child.

**RemoteTransfersProofs, about RemoteTransfers.** `RemoteKeepsFilter`: each step of `RemoteTransfers` is a step of `PSpec`
or leaves the variables of `ProcessFilter` alone, so that `KeepsFilter` holds for kdumptool as the
caller, whatever the targets and files.

On this rests what becomes of the mounts, for any sequence of targets. `MountInvariant` says that
as long as no command said 0 without doing its work (`astray`), the mount table is
`Stack(n)`: the first `n` targets in their order, where `n` follows from the step of the
constructor and from whether the present command has ended (`MountsInv`). That the
status of a command is only read of a command that ended comes from `PInv` of
`ProcessFilter`. `PointInv` relates `m_mountpoint` to the last target mounted. Two theorems
follow. `FilesAreWhereConfigured` looks for a share in the stack from its top
(`NewestInStack`): what hides it belongs to a later target, mounted at or above its
mount point. Mount points of NFS are named after the share, so the later one is the share itself or a
directory above it; with CIFS there is one mount point for all.
`MountsAreUndone`: with one target the stack has one element, and `close()` removes it or fails.
`FtpFilesAreWhole` needs `FileInv` only: `finish()` is reached with status 0 only when the
provider had nothing left to give. `Largest`, that a set of bounded numbers has a greatest, is proved with the
well-foundedness of strict subsets, because the induction over numbers cannot be instantiated.

**SftpTransferProofs.** For paths and files of any length, and request ids of any width:
`TypeCorrect`, `ConfirmedIsWhole` and `EveryPathCleansUp`. The invariant `IInv` has `OneMessage` -
a request or a reply is under way, never both, and it belongs to the present
step, so the id that kdumptool compares is always that of its last request;
`ContentsInv` - the file holds the first buffers in their order, one more than kdumptool knows of if
the server has done the write already (`Done`); `HandleInv` and `ProviderInv`,
for each step the number of open handles and of calls of `finish()`.
For any number of addresses and any time limit, `RoutesAreNotMissed` and `GivesUpAfterTheTime`
hold of `check()`. `RouteInv` is the argument: a route that was not there when its address was asked for
is either still not there, or its announcement is in the socket (`Pending`), because the
subscription is older than the question; and the time without an announcement and the rest
of the wait add up to the limit, as do, while the name is resolved, the time since `check()` began and the
rest. `GivesUpAfterTheTime` is about every way to the answer "no"; that the time to resolve
starts once, whatever changes, is an exception in it.

**KdumpServiceProofs, about KdumpService.** `ServiceLockProtects`: what `LockProtects` says holds in the whole service too, where the services run
`load.sh` without the lock and udev starts an instance at any time. `NoEventIsLost` is
the safety part of what hotplug is about: when everything is at rest and the image is older than the hardware, an event was
skipped, something broke, or the jobs file still has a job. The invariant follows an event on its
way: `Covered` says that it is in udev, in the jobs file, with an instance that will append or load,
or with a `load.sh` that has not read the hardware yet (`WillRead`); `StaleInv`, that an image, or a
reading during the call of kexec, is out of date only while `Covered`. It needs `Alone` - one `load.sh`
at a time, unless the services got in the way - since a slow one could otherwise install an older image
over a newer one, and `RunInv` - a `load.sh` has a caller that waits for it.

**CrashCycleProofs.** For any number of crashes, directories and dumps. `CycleUsesDeleteDumps`:
the script and what comes after a power loss use `delete_dumps` as `DDSpec` allows; `Waits` says that
nobody else is at work while it runs. `DeletesOldestFirst` needs `Deleting`: while
delete_dumps works on a directory, exactly `KeepCount` dumps will stay, and all of them are newer
than those that go; after an interruption the next run finds the same, with fewer to delete.
`DumpsAreBounded` needs `Tidy`: without trouble the directories are reduced one after the other, all of them
are when `save_dump` writes, and it adds one dump. `TypeCorrect` needs `Counted` beside the
invariant: a dump is saved at most once for each crash, since wherever the script is on its way
to save one (`Owed`), a crash is still without a dump.

**SaveDumpProofs.** For every configuration, any number of targets and of parts:
`ExitStatusIsRight`, `SavedMeansDump`, `CopiedMailTellsTruth` and `ReadmeTellsTruth`. `StatusInv`
relates the error code to the errors; it is wrong only within the catch block around `saveDump()`,
where the code has not been set yet. `WrittenInv` says that the dump is as `SaveVmcore` wrote it, and the members as it
set them, at every later step unless an error was remembered: the steps after the
dump write only to other names (`LateFacts`), and the check of the free space deletes everything or
nothing of it. That is why README.txt, written three steps later from the members, is right.
`MailInv` is about the order of the mails. That the parts of a dump cover the targets
rests on `SpreadFacts` and `UsedFacts`, about the operators that choose targets. `TypeCorrect` adds
`Ranges` and `Rest`, and `Plain`: no file is in the flattened format where the targets are
files, not streams.

**PanicKernelProofs.** For any versions, kernels and number of changes: `TypeCorrect`, `TakesTheBest`
(`BestChosen`) and `LoadsFreshInitrd` (`FreshInitrd`). `TakesTheBest` is about one step, but a long one:
`AutoAnswers` says which of the eight tries answers, `CandidateTried` that every image that
`BestChosen` counts has its two tries, the strict one before the lenient one, `ManPageAnswers` compares the eight with the seven of the man
page, and `BestStep` combines them.
`FreshInitrd` is about several runs of `load.sh`, between and during which anything may change, and
`mkdumprd` sees nothing but modification times. The invariant says what the times tell: an
initrd newer than the configuration has its present contents, unless something changed while it was made
(`EditInv`), and one that belongs to a single kernel was made for that kernel (`NamedInv`). `MakingInv`
is the same for the one that dracut is making; `KexecInv` and `SettledInv` carry what `mkdumprd` found out to
the call of kexec, and to its next run, while nothing changes. `Fits`, that an image has the release
that its name says, relates the two arguments of `mkdumprd`.

**CalibrateProofs.** `ReservationIsEnough`: on every machine but a Xen guest, for which nothing is reserved, the sizes that `calibrate` prints are enough to
boot, leave (where `long` has 64 bits) what is needed at run time after everything that grows with the reservation took its
share (`Enough` but for its count of processors, and what is announced but for `Omitted`, the memory for each CPU),
and hold above 4 GiB what does not fit below it. The
function adds dirty pages, hash tables and memmap in this order, each rounded; the reader of the result
has to take them away in the reverse order from a larger number. `DirtyFits`, `HashesFit` and `MemmapFits`
say for each that no more is lost than a few KiB, `UsableIs` chains them (`Slack` is the sum), and `RunTimeWraps` says that
on 32-bit machines, where the computation may wrap, a number is still printed. `FindFits` and `SplitIs` are about the place in the memory map.
`FindsFileSystem`: of any two mount tables, the entry taken is that of the file system really over
the path. `DevicesAreCovered`: the devices of that file system are asked for, whatever paths were looked
up before, unless lsblk fails because of one of these. That
a table has a longest mount point needs `Greatest`, from the well-foundedness of the order on numbers.
Their premises are what would need an induction over data: `Machine(m)`, in which the sums over devices and
caches are numbers; for `DevicesAreCovered`, that `root=` is read as it is meant. Only TLC checks
these two, btrfs, and `CountsAll`, the count of processors. TLC also checked that the premises hold
of the inputs of `algorithms`.

The proofs corrected the models in four places. `SaveWrite` of `CrashCycle` wrote to the first save
directory where none is configured; the code throws there (`savedump.cc:782`). `PointOf` of `RemoteTransfers` went by
the protocol of each URL; the code goes by the class of the transfer, which the first URL chooses
(`savedump.cc:785`). `FreshInitrd` did not except kernels that share the name of their initrd, and was false
for the releases `5` and `5-kdump`; TLC refuted that form as soon as the instance had both. `TypeOK` of `SaveDump` had
`cmd.threads < cfg.online`, which is false where `KDUMP_CPUS` is 0 (`savedump.cc:284`).

**Only model-checked:** liveness (fairness and ENABLED are out of the prover's reach); what
`CalibrateProofs` excludes; and the other algorithms, which recurse over texts and lists, so that what they compute
for every input would need an induction over data that the installed provers cannot do.

## 5. Where code and documentation disagree

1. A makedumpfile that is killed by a signal counts as successful, because only
   `WEXITSTATUS` is looked at, and the result of `fclose` is ignored
   (`dataprovider.cc:244`): a truncated dump is reported as saved.
2. Split dumps have no file `vmcore`, so that `delete_dumps` never sees them
   (`fileutil.cc:479`, `kdump.5`: "4 dumps are on disk").
3. `load-once.sh` can leave a job behind: queued after the holder's last test of the
   file, and before it releases the lock.
4. An SSH upload in which nothing fails does not end: kdumptool waits for ssh
   while it holds the write end of ssh's input (`sshtransfer.cc:138`).

Five smaller ones have no run of their own. A passing property says what the code does
instead, and names the case in which that differs from the text.

5. `sysconfig.kdump.in:312-313`: "Kdumptool gives up waiting for a
   working network setup when it does not change for the given number of seconds." While the name
   of the host does not resolve, the limit counts from the start of `check()`, whatever
   changes (`routable.cc:497-507`, as the comment at lines 494-496 says). `GivesUpInTime`, `GivesUpAfterTheTime`.
6. `kdump.5.txt.in:101-109` lists seven tries for the kernel, the code makes eight: it also takes
   _BASEVERSION_-default with the weak check, before the last entry (`findkernel.cc:294-303`).
   `BestChosen`, `TakesTheBest`.
7. `calibrate.cc:59` ("additional kernel memory for each online CPU") and `calibrate.cc:1104` ("Add
   memory based on CPU count"): the code counts the CPUs and adds nothing.
   `ReservationSuffices`, `ReservationIsEnough` (`Announced`, `Omitted`).
8. The generator writes drop-ins for the units of devices, but `hex_escape`
   shifts the sign of a byte from 128 up along where `char` is signed
   (`device-timeout-generator.c:343-351`): the drop-in of a device with a label in UTF-8 has a name that no unit has.
   `TimeoutsApply`.
9. kdump(5) allows a user and a password in a URL (`kdump.5.txt.in:717`: "*ftp*://[_user_[:__password__]@]_hostname_...")
   and does not say what has to be encoded in them:
   "/", "?" and "#" end the authority (`urlparser.cc:120`), so such a password sends the
   rest to the path or is an error. `UrlsMeanTargets`.

Properties of a run that passes are phrased around the first four, too: `SuccessMeansDump` and
`CopiedMailIsTrue` except unnoticed truncations, `StaleHasCause` lists the lost job as
a cause, `ErrorsEnd` speaks of uploads in which something failed. `PlacedWhereConfigured`,
`LeftMountsHaveCause` and `EndsUnlessLong` name what `transfer.cc` and `process.cc`
leave open, and the algorithms' properties their exceptions. `FreshInitrd`
excepts an initrd during whose making something changed, which then counts as up to date
(`mkdumprd:155`), and the release of a kernel behind `/boot/vmlinuz` or
`/boot/vmlinuz-kdump`, or of one of two kernels that share an initrd (`kernelpath.cc:110`); `BestChosen` excepts images that cannot be read. The code makes no
promise there.

## 6. What is not modelled

* What libcurl, libesmtp, libmount, libblkid, libelf, zlib, lsblk and mount do inside: they are
  not in the repository, and appear as outcomes.
* What dracut puts into the initrd (`setup-kdump.functions`, `module-setup.sh`): lists of
  files and shell text, read by no part that is modelled.
* What a dump contains, the command line of kexec, the initrd's contents and
  the bytes of netlink and SMTP messages: data that no property tells apart.
* LED, progress, logging, option parsing, boot loader edits and the older
  mkinitrd hooks: output, or no state that another part reads.
* FADUMP, and the names of kernels on machines other than x86.
* Values the documentation excludes: `KDUMP_KEEP_OLD_DUMPS` below -1, dump levels
  that only makedumpfile looks at.

## 7. Plan

Done, in this order: saving and retention (`SaveDump`, `DeleteDumps`, `CrashCycle`); loading
(`LoadOnce`, `KdumpService`) with its proofs; uploads (`SshTransfer` with proofs, `Routable`,
`SftpTransfer`); the kernel and its initrd (`PanicKernel`); commands run through pipes, and the
transfers that use them (`Filter`, `ProcessFilter`, `RemoteTransfers`) with the proof of the
refinement; the algorithms; proofs for `SftpTransfer`, `KdumpService`, `CrashCycle`, `SaveDump`,
`RemoteTransfers`, `PanicKernel`, and for `Calibrate` and `Mounts` as far as they do not recurse.

Left, the most useful first:

1. The contents of the initrd as far as `save_dump` depends on them (which programs and keys
   are copied for which target), and the command lines for kexec and FADUMP.
2. Proofs about the algorithms that recurse, with a prover that can use the library's induction
   theorems: first that `root=` is read as it is meant, and that the sums of `Calibrate` are numbers.

Three observations have no run of their own. With `KDUMP_CONTINUE_ON_ERROR` a dump
that failed is first mailed as failed and then as copied (`savedump.cc:159`; `CopiedMailIsTrue`
excepts it). And `return` in `save_dump.sh` does not end a script that is executed rather than
sourced (`save_dump.sh:176`), which `CrashCycle` models with `set.sourced`. The comment of
`70-kdump.rules.in` speaks of CPUs or memory that change, but its rules match a CPU on POWER
only; `Udev` therefore may pass an event by, which `StaleHasCause` counts as a cause (`skipped`).
