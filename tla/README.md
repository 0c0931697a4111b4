# A verification project for the OS X SAT SMART driver

The driver of `src/SATSMARTDriver` gives applications the S.M.A.R.T. data of a
disk behind a USB or FireWire enclosure. This directory holds TLA+ models of
its layers, the configurations that model-check them with TLC, and proofs
checked by TLAPS. Paths below are relative to `src/SATSMARTDriver`.

## The system

    application (TestTools, Disk Utility ...)
      |  COM-style calls in the process
    SATSMARTClient            UserClientLib/   a CFPlugIn in the process
      |  IOServiceOpen, IOConnectCall*, IOServiceClose
    SATSMARTUserClient        UserClient/      one per open connection
      |  open, close, sendSMARTCommand
    IOSATServices             the nub; the storage stack opens it too
      |  sendSMARTCommand
    fi_dungeon_driver_IOSATDriver              one per enclosure
      |  SCSI commands in one of four pass-through layouts
    enclosure and ATA disk

| Part | State it keeps | Operations | What makes it correct |
|---|---|---|---|
| `SATSMARTClient` | `fRefCount`, `fConnection`, `fService`; the factory's count | AddRef, Release, QueryInterface, Start, Stop, nine SMART methods | requests are checked before they leave; the object and its connection live as long as they are used |
| `SATSMARTUserClient` | `fOutstandingCommands`, `fProvider`, `fCommandGate`; per call a command, a buffer, `isDone` | start, nine methods, message, clientClose, HandleTerminate | no call loses the nub while it uses it; each call gets the outcome of its own command and gives back what it took; it returns; an unplugged device is let go of |
| `IOSATServices` | `fClients`, the superclass's open, `fProvider` | attach, detach, newUserClient, handleOpen, handleClose, handleIsOpen, sendSMARTCommand | each client is freed exactly once; the nub outlives its clients and does go in the end |
| `IOSATDriver` | `fPassThroughMode`, `fSATSMARTCapable`, `fPermissive`, `fDelayIdentify`, the thread call, registry properties, the retain count | probe, start, sProcessPoll, stop, setProperties, IdentifyDevice, sendSMARTCommand | a disk is found in the first mode that works; the registry says what is so; the thread call neither keeps nor outlives the driver; a command means the same at both ends |
| `IOSATCommand`, `IOSATBusCommand(64)` | the fields of an ATA command | allocate, zero, set, get, executeCallback | a command starts out blank, its callback is run once |
| enclosure matching | `Identifiers` of `Info.plist` | probe | the entry of the enclosure, or UNKNOWN, sets the mode |
| `TestTools` | the two pointers to the object of the library | create, query, SMART calls, release, destroy | every pointer is released once and used no more; whatever step fails, or kills the process, nothing stays behind |

Hard behaviours: the threads of a task inside the methods at once, with a plain
counter between them; two threads that tear a client down; a client that is
terminated while it is still being made; a process killed while it opens a
connection, or with a pointer released too early; a thread call that is
cancelled, runs late, or runs while `setProperties` changes the mode; a table walked
in no particular order; error ladders; lengths that are stated in three places;
answers of an enclosure that mean less than they seem to. Nothing is persisted, so there is no recovery to model, and no
messages are retried. `PROJECT.json` lists the hazards line by line.

## The modules

### SMARTConnection
What an open connection promises to its task: a request reaches the driver once
or not at all, its answer is the driver's or a refusal, a closed connection
reaches nothing, and a connection does not close under a request at the driver.
The promise can become void, and says nothing from then on. No thread, counter or
reference occurs in it.

### SATSMARTUserClient (core)
One user client, from the end of `start` on. The nine methods have one body; a
call is a walk through it (`pc`), one action per step at which another thread
may see or change something: the load and the store of `fOutstandingCommands++`,
the `isInactive` test, the retain of the nub, the command, the buffer, the way
through `SendSMARTCommand` and `IOSATServices::sendSMARTCommand` to the driver,
the callback, the wait, the ladder of labels, the release, the load and the
store of `--`. `TerminateNub` and `TerminateClient` are IOKit's, `Message` and
`ClientClose` start `HandleTerminate`, whose five steps run on either of two
threads. A use of a NULL `fProvider` leads to the label `panic`. `held` counts
what each call has taken and not given back.

Nothing in the code keeps the updates of the plain counter apart, nor a task from
closing its connection while another of its threads comes in. Both are therefore in
every behaviour of the module, and two history variables remember them:

- `lost`: a store to the counter has overwritten another thread's update (finding
  `uc_lost_update`);
- `late`: the connection was closed while a call was on its way to the `++`, or a
  call came in after the close (finding `uc_close_race`).

`Orderly` is that neither has happened yet. `CallKeepsConnection` and
`ImplementsConnection` speak of the behaviours up to there, `CounterExact` and
`TerminationCompletes` of those up to the first lost update;
`ReferencesBalanced` has no exception, and `CallReturns` only the panic. These are properties of
histories, not assumptions on the task: a task of one thread never loses
an update (`SingleThreadLosesNothing`), the termination message may come at
any time and overlap with the close in all of them, and so may calls that are counted
when the close comes.

`clientClose` tests `fProvider` and names it again in its call of `HandleTerminate`
(341-342). When `message` clears it in between, a build that loads it once goes on with
the old pointer and one that loads it twice goes through NULL: `LoadProvider` takes both.

Not told apart: methods whose argument checks fail before the `++` touch no
state and are no calls; the two `kIOReturnInvalid` branches of `Forward`
(`IOSATServices.cpp` 315-326), for a nub without a driver below it, which a nub that is
attached does not meet; the two statuses a failed buffer can give; the
`kIOReturnIOError` branches after `SendSMARTCommand`, which no driver result
reaches, since it calls back with success or timeout only.

`SATSMARTUserClientProofs` holds the theorems, `SATSMARTUserClientRefinement` the
proof that the module implements SMARTConnection. The proofs of the other
components are in `IOSATServicesProofs`, `SATSMARTClientProofs` and `IOSATDriverProofs`;
those of the command path in `SATCommandPathProofs` (invariants),
`SATCommandPathRefinement` (SMARTService) and `SATCommandPathChecksum`
(the loop of `sSMARTValidateReadData`).

### OpenedNub
The nub as those see it who open it: clients that are made, let in, over and
released, the storage stack, the device. It has no reference count, set, registry
entry or error label.

### IOSATServices
`newUserClient` step by step for each connection (allocate, attach, start, open,
or the labels `DetachClient` and `ReleaseClient`), for the type of connection the
library asks for and for any other. `initWithTask` refuses the latter: the client is
released at 192 and the label `ReleaseClient` releases it again, through a pointer to
what is freed by then (`phase` "freed", `ReleaseFreed`; finding
`nub_double_release`). The branch for a class that is no IOUserClient (183-187) is not
reached, since `attach` of the nub sets the class. The other actions are the close, the
termination message, the storage stack's open, and `detach`, which may leave a client in the registry that
`newUserClient` has yet to give up. `references` counts the retains
of each client: its maker's or user's, the registry's (`attached`), the set's
(`fClients`). The message reaches a client from its attach on, whatever `start`
is doing. `HandleTerminate` is one step here, its interleavings being the subject
of SATSMARTUserClient. `detach` refuses while there are clients in the set, and
IOKit does not ask again: `nub = "stranded"`. `Life` reads the life of a client in
OpenedNub from its place in `fClients` and, outside of it, from its phase.

### SATSMARTClient
The object of the library in the processes that run the tools, over
`IOSATServices`, which the module extends: `StartOpens` is `newUserClient` of the
kernel, `Stop` is its `ClientClose`, and `StartOpened` or `StartFails` is how
IOServiceOpen comes back, so that the unplugging, the storage stack and the
clients of other programs interleave with every step of a process. `fRefCount` and
`fConnection` are the fields of the object; `at` says which statement of
`PrintSMARTData` (ATASMARTSample) or `CheckSMARTStatus` (smart_status) comes next.
The SMART calls in between only succeed or fail, as far as the object goes; so does
QueryInterface (`WithInterface`, `WithoutInterface`), although the library has the
interface the tools ask for, because their ladders say what comes after a refusal. A
process may be killed at any step (`Exit`); the kernel then closes its connection,
once a `newUserClient` in progress has come to its end (`Reap`). `usedFreed`
remembers a call through an object whose last reference was gone. IOKit's part
(the plug-in is released when `Probe` or `Start` fails, and
IODestroyPlugInInterface stops before it releases) is external.

### IOSATDriver
`probe`, `start`, the thread call, `stop`, `setProperties` and the identification they
share. An identification is a chain of blocking commands; each action runs from
one answer to the next command, so that identifications of several threads
interleave at commands. Within a step code runs on one thread without blocking; races
between single assignments of two threads are not modelled. The enclosure is
chosen once: what it calls itself, the modes it understands, what it answers to others (CHECK
CONDITION, no medium, failure), whether IDENTIFY returns data or zeros, what READ
DATA returns. `Probe` walks the dictionary entry by entry (`Look`, `Walk`), in any of the `Orders`,
which the code does not control: UNKNOWN is put by where it comes, an entry that fits
ends the loop, one that does not leaves its key in `name`. It leaves settings and a name in the registry, and IOKit starts the driver or
passes it over, which is what the score decides. `JMicron_get_registers` looks at sense data
it has not initialised when a command failed without any; both outcomes are
taken (`AnswerRegisters`). `overlapped` remembers that the mode was set while another thread
identified; properties about the verdict are stated for the other case, because
the code promises nothing in this one. A call of setProperties is made under a
reference of IOKit, which counts in `references`; it comes while the driver is started,
the time its user has a registry entry to look at. An enclosure answers alike for
ever: an IDENTIFY that fails once and works later, or fails for want of a buffer or
a task (1080-1093), is an enclosure that rejects it, as far as the mode under trial goes.

### SMARTService
What the sender of a request may count on. The disk does it once or not at all, and
nothing else; a refusal has not reached the disk, and an error leaves it open
whether the disk obeyed; an application's request reaches no disk whose driver
promises no SMART; a success of a driver that is not permissive (`strict`) means that it
was done; data come with a successful READ DATA only. It has no register, layout,
transfer or enclosure.

### SATCommandPath
One request from the library to the disk and back, or a command of the driver's
own, which takes the second half of the way. Operators named after the
functions build the ATA command of each method, the transfer
(`Count`, `Protocol`, `Arguments`), the arguments of each `Send_ATA_` function, the CDB of each of the four
layouts, byte by byte, and `PASS_THROUGH_12or16`. `Unpack`, `Operation`,
`TransferOf` and `Effect` stand for the enclosure and the disk: they are written
from the layouts of the SAT, JMicron and Sunplus commands and the ATA command
set, which are outside the repository. Bytes keep their width (`NumSectors` is cut
to 8 bits before it is compared; `Signed` sums the checksum of
`sSMARTValidateReadData` in a signed byte). Of the data only READ DATA's are modelled,
as a few bytes and their checksum: the code treats 511 bytes alike.
The library's checks stand before it: GetATAIdentifyData takes a length of 1
to 512, which goes no further;
the logs have a limit of 16 (`LibraryAccepts`).
`JMicron_get_registers` calls its layout directly, so that the checks of
`PASS_THROUGH_12or16`, which would refuse its byte of data, do not stand in its way
(`OwnRequest`). `Meaning` says what a request means to the disk in SMARTService, and
names the two places where that is not what it says: autosave on turns autosave off
(finding `cmd_autosave`), and the JMicron register read, whose success promises nothing,
is `Waived`.

### How they fit together
`SATSMARTUserClient` and `IOSATServices` share the boundary of a connected
client: the first takes the connection for granted and shows that
`HandleTerminate` ends (`TerminationCompletes`), which the second relies on in
taking it as one step. `SATSMARTClient` extends `IOSATServices`: its processes are
some of the clients. `SATSMARTUserClient` lets the driver answer in any way;
`SATCommandPath` says how it answers. `SATCommandPath` starts in any mode with
any promise; `IOSATDriver` says which. `TriedAsUsed` ties the two: IOSATDriver
concludes from the driver's own IDENTIFY and READ DATA that a mode works for applications.
The three abstract specifications are the three layers seen from above: OpenedNub how a
client comes to be connected, SMARTConnection what its connection does with requests,
SMARTService what comes of a request that reaches the driver.

## The runs

| Run | Shows | Instance |
|---|---|---|
| `uc_calls` | `TypeOK`; `CallKeepsConnection`; `CounterExact`; `ReferencesBalanced`; `ImplementsConnection` (refinement of SMARTConnection); `CallReturns`; `TerminationCompletes` | 2 callers, a counter that just holds them, fair, up to the first lost update; 117,082 states |
| `uc_close_race` | *violation*: with an exact counter still a call uses a closed nub (`CountKeepsConnection`) | 2 callers |
| `uc_lost_update` | *violation*: the termination polls for ever (`DeviceIsLetGo`) | 2 callers, fair |
| `library` | of the kernel: `TypeOK` (the limit, off by one); `ReferencesExact`; `NubOutlivesClients`; `NubDetaches`; `ImplementsNub` (refinement of OpenedNub). Of the processes: `ClientTypeOK`; `ConnectionOwned`; `SampleObjectLives`; `SampleLeavesNothing`; `ProcessGone` | a process with either tool and 2 clients of other programs, limit 1; 133,185 states |
| `library_status` | *violation*: smart_status calls through the object it has freed | as `library` |
| `nub_open_race` | *violation*: the message clears `fProvider` under `start` | 3 clients, limit 1 |
| `nub_double_release` | *violation*: a refused client is released twice (`MakerHoldsClient`) | 3 clients, limit 1 |
| `driver` | `TypeOK`; `ReferencesExact`; `ModeAgrees`; `CapablePropertyTrue`; `CommandsAsConfigured`; `KnownByName`; `AutoFindsMode`; `PollReachesVerdict`; `DriverFreed` | 1 setter, 420 enclosures, 36 entries in 6 orders; 574,396 states |
| `driver_flash` | *violation*: "Yes" without an IDENTIFY that succeeded | as `driver` |
| `cmd_path` | `TypeOK`; `TaskFilePreserved`; `TransferAgrees`; `SuccessMeansDone`; `LogsWhole`; `TriedAsUsed`; `ChecksumDecides`; `ImplementsService` (refinement of SMARTService) | 2 log addresses, 6 buffer lengths, 125 samples; 164,048 states |
| `cmd_autosave` | *violation*: autosave is turned off when asked on | as `cmd_path` |
| `cmd_return_status` | *violation*: an exceeded threshold is reported as good | as `cmd_path` |

The bounds. Two callers against two terminating threads have every pair of
threads that share the counter, the nub or the client; a third call would only add
more of the pairs, and the theorems remove the bound. `CounterMod` is 3 rather than 2^32, the
least that can count two calls, so that a wrap would show. `uc_calls` stops where an update is
lost (`NothingLost`): beyond, all its safety properties but `ReferencesBalanced` hold by
their exception, and that one is proved of every behaviour. `CallReturns`
is checked up to there only. In `library` a process has one object with its
connection, and the other clients stand for any programs, further processes of the
same tool included; what two objects of one process share is the factory count,
which is not modelled. Three clients and a limit of 1 reach one over the
limit and one refused; 100 in the code is the same comparison. Enclosures that
understand nothing, one mode or two cover every branch of the detection; an
enclosure that understands nothing has one disk, which nobody gets to ask. The dictionary is walked forwards and
backwards, with UNKNOWN first, in the middle and last. The entries
have every combination of settings, and there are ids that two entries fit with
different modes, that fit by another bus, that fit nothing, or that are missing. One
setter, the thread call and the thread of `start` are the three callers of
`IdentifyDevice`. The buffer lengths, of logs and of IDENTIFY, are below, at and above a sector, 16
sectors, 17, and 256, whose count is 0 in a byte; the log addresses are
a log and one past a byte. The samples are all of three bytes out of 0, 1,
127, 128 and 255, whose sums reach and pass both ends of a signed byte. Deadlock is checked for `cmd_path`; in the
other passing runs the system stops for good reason (a detached nub or driver, a
closed connection), and the cfg says so.

Fairness. A thread in the kernel runs on; `SendCommand` has a timeout (thirty
seconds), so that a driver always answers; a queued thread call runs; IOKit
delivers its messages and finalizes what it has terminated. All fairness is weak.
No process is assumed to call, to close or to exit, and nobody to unplug: in `library`
only the kernel's own steps and the reaping of dead processes are fair, so that
`NubDetaches` does not lean on a tool that comes to its end.

Each property of a passing run has a mutant, an operator next to the definition
it replaces, that breaks it in the way a slip in the code would.

## Findings

`uc_lost_update`, `uc_close_race`, `nub_open_race`, `nub_double_release`, `library_status`,
`driver_flash`, `cmd_autosave` and `cmd_return_status` are behaviours in which
the code does not do what a comment or the README says; `PROJECT.json` quotes
the lines. Two more have no run of their own: an enclosure that no entry fits may
appear under the name of another product (`probe`, when UNKNOWN comes last; `KnownByName`
speaks of the others), and
SATSMARTCapable stays "Yes" in the registry after the mode was set to none.

Further observations: a log of more than one sector is
always refused, although the library lets 16 pass (`LogsWhole` says it is never
half read); `sSMARTValidateReadData` rejects good data whose sum and checksum are
both 80h (`ChecksumDecides`); smart_status returns without a Release when
SMARTEnableDisableOperations fails, and leaves its connection open in any case until it
exits (`ConnectionOwned`, `ProcessGone`); `Probe` of the library means to reject a service without
IOCFPlugInTypes and accepts it, since its status is still success there; a soft reset in the layouts of JMicron and Sunplus is the ATA
command 00h (`TransferAgrees`); `Send_ATA_CHECK_POWER_MODE` reports 42 whatever the
disk said, and takes the CHECK CONDITION it has asked for with CK_COND for a failure; `IOSATCommand::init` uses its
allocation before it tests it; a client whose open fails leaves its gate on the work
loop; `clientClose` passes on a pointer it has tested in an earlier statement, which the
message may have cleared since; the limit of 100 admits 101 clients.

## What is proved

Every safety property that a passing run checks, action property and refinement
included, is also a theorem, for every value of the constants. Each proof has the same shape: an
inductive invariant (checked by TLC first, on the instance of the run), one lemma
per action that it is preserved, and the properties as consequences. The
assumptions are those the modules declare: finitely many callers, clients and
processes; fewer callers than the counter can count; a limit, log addresses and
buffer lengths that are numbers, no buffer being empty; samples of bytes, with at least
one before the checksum; entries whose settings are of their kind.

| Component | Theorems | Under |
|---|---|---|
| SATSMARTUserClient | `TypeCorrect`: TypeOK; `ReferencesCorrect`: ReferencesBalanced | any callers, every behaviour |
| | `ConnectionKept`: CallKeepsConnection; `CountCorrect`: CounterExact; `Refinement`: ImplementsConnection | any callers, every behaviour; what they say ends with a lost update (the count) or that or a late call (the others) |
| | `SingleThreadLosesNothing` | one caller: no update is ever lost |
| IOSATServices | `ServicesTypeCorrect`: TypeOK; `ServicesReferencesExact`: ReferencesExact; `NubGoesLast`: NubOutlivesClients; `ServicesRefinement`: ImplementsNub | any clients, any limit |
| SATSMARTClient | `ClientTypeCorrect`: ClientTypeOK; `ConnectionsOwned`: ConnectionOwned; `SampleUsesLive`: SampleObjectLives; `SampleCleans`: SampleLeavesNothing; `ToolsKeepNub`: the three invariants of the nub; `ToolsSeeNub`: ImplementsNub | any mixture of tools and other programs |
| IOSATDriver | `DriverTypeCorrect`: TypeOK; `DriverReferencesExact`: ReferencesExact; `RegistrySaysMode`: ModeAgrees; `RegistrySaysCapable`: CapablePropertyTrue; `DetectionFindsMode`: AutoFindsMode; `OnlyConfiguredCommands`: CommandsAsConfigured; `EntryNames`: KnownByName | any enclosures, entries and setters |
| SATCommandPath | `PathTypeCorrect`: TypeOK; `LayoutsCarry`: TaskFilePreserved; `TransfersAgree`: TransferAgrees; `SuccessIsDone`: SuccessMeansDone; `LogsAreWhole`: LogsWhole; `TrialsAreUses`: TriedAsUsed; `VerdictIsSum`: ChecksumDecides; `PathImplementsService`: ImplementsService; `ThresholdsNeverExceeded` | any log addresses, lengths and samples |

**SATSMARTUserClient.** `CallKeepsConnection` is not inductive: that no call is
past its test when `HandleTerminate` goes on must be remembered from the moment the
counter was 0. `IInv` adds to it that the counter is the number of calls between
`++` and `--` as long as no update was lost (`CounterExact`): a store that loses nothing
writes one more or one less than what is there, so that nothing need be known of who else is
half done with an update. Further, how far a termination can be and what it has seen
(`StartOfTermination`); and, in the orderly behaviours, that from the end of the polling on no
call is past its `isInactive` test (`Drained`), because by then the client is inactive or its
task has closed it, and a call that enters after that makes the behaviour late. `Kept` then says that the nub is there until that point, and
`NoPanic` that no call of an orderly behaviour goes through a NULL `fProvider`. One lemma each covers
the counter's two updates (`IncrementExact`, `DecrementExact`), which are facts
about cardinalities and arithmetic modulo `CounterMod`. No theorem assumes anything of the
task: `[][Next]_vars` has the races, and the two violation runs show what comes of them, so that
neither exception can be dropped. `ReferencesBalanced` needs none,
because each call takes and gives back what is its own.

The refinement maps each step of a call to a request, a refusal, a trip to the
driver, its answer, a return, or nothing (`StepMaps`). That the way to the driver
and the close map to steps the connection allows is where `Drained` is needed: the
connection does not close under a request at the driver, and lets none through once
it is closed. A lost update or a late call maps to the step with which the promise becomes void.

**IOSATServices.** `ClientExact` relates the references of one client to its phase,
its place in the registry and in the set, and `NubClosed` says that a detached nub
has nobody in its set and no storage stack on it. A client that
`initWithTask` refused has no reference while `newUserClient` has it, and the two places that would give it one
are empty; this is all of the exception in `ReferencesExact`. The one conjunct that is not plain from the properties: a connected
client whose `fProvider` is gone has lost its places in set and registry with it, so
that the close that follows frees it. The invariant is proved of `Init` and
`[][Next]_vars`, without fairness, so that other programs may drive the nub.

The refinement of OpenedNub needs no further invariant. Each step of the kernel
concerns one client (`MapsAtClient`), and `ClientMaps` says what it is for that client:
nothing, its making, its admission, its end or its release. What the invariant gives is
that a client in the set is connected and one still being made is not in the set; that
the clients who have the nub open are the set `handleOpen` counts (`OpenIsSet`);
and that the set is empty when the nub detaches.

**SATSMARTClient.** `ToolsDrive` shows that every step of a tool, kernel included,
is a step of IOSATServices or leaves it alone; the invariant of the nub therefore
holds here without a new proof, and so does the refinement (`ToolsSeeNub`). `Way` is the reading of the two ladders: at each statement, how
many references the object has and whether it has a connection; and an object with a
connection has a connected user client.

**IOSATDriver.** Three invariants. `LifeInv` says who may be inside the driver when
(`Orderly`) and counts the references over the processes inside setProperties
(`Counted`). `RegistryInv`: as long as identifications do not overlap there is one
thread at it; if it detects, it is at a mode before which none worked
(`Detecting`), otherwise at the mode it was given (`Trying`); and between
identifications the registry has the mode, or a disk that will not be taken as
capable in it (`Agreed`). The second disjunct is needed, because a call of
`setProperties` whose disk is not found leaves "none" in the registry and its mode in
`fPassThroughMode`; a thread call that is still queued then tries that mode, and must not
find the disk capable. `ConfigInv`: until a process sets the mode, the property, the
queued thread call and the identification under way all go by an entry that fits.

`Probe` is proved by a lemma about the walk, `WalkEnds`: after any number of entries the locals
say whether one of them fits, and if so `details` and `name` are that one, otherwise
`details` is NULL or UNKNOWN. It goes by the least prefix for which this would fail (`WalksExist`
shows first that the recursive function exists). `EntryNames` and `OnlyConfiguredCommands` follow for
every order: that the walk does not stop at UNKNOWN, does not keep an entry that does not fit, and does not
mix the name of one entry with the settings of another is in the lemma, not in the definition.

**SATCommandPath.** The lemmas say first, for any arguments that fit their
fields, that each of the four layouts loses nothing (`SAT12Carries`,
`SAT16Carries`, `JMicronCarries`, `SunplusCarries`), by arithmetic on the bytes that
hold several fields; then that what passes the checks is no data or one
sector (`RequestCarried`); then that the disk takes each command for what it
was sent for, but for autosave on and a reset that the layout cannot say
(`RequestMeaning`, `OwnMeaning`). `SentUnderstood` puts them together. The invariant
`IInv` keeps from step to step that the task is the one made for the request in the
layout in force (`TaskHeld`) and that a good answer means the disk has obeyed
(`GoodMeansObeyed`). The bounds of the run `cmd_path`, six lengths and two addresses,
do not matter for the result any more.

The refinement of SMARTService takes one more invariant, `Waiting`: a request that still
waits for the enclosure has done nothing, one without its answer has no data, and
an application's is out only if the driver promises SMART. With it `Obey` is the one
step that changes the disk, and what it does is the `Meaning` of the request
(by `SentUnderstood`); `Refuse` and the checks before it are nothing, or the answer. Permissive
drivers are part of the theorem: only the promise of a success is withdrawn for them.

`ThresholdsNeverExceeded` says why `cmd_return_status` fails, and that it always does: for any
disk, mode and request the library reports no threshold as exceeded, because what
`ReturnStatus` compares is the command as it wrote it.

`VerdictIsSum` is about a loop over data of any length. The induction theorems
of the library cannot be used, since they take an operator as a parameter; the
proofs argue by a least counterexample instead (`LeastNumber`, from the fact that the
order of the numbers is well-founded). They do so three times here (and once for the walk of `probe`): a recursive function of
TLA+ is a choice among functions with its equation, and that there is one has to be shown for the
signed sums of the code and for the plain sums (`SignedSumsExist`, `SumsExist`);
and the two agree modulo 256 after each byte (`SumsAgree`). The last addition, in an int, is
0 exactly if the total is 0 modulo 256 and the checksum is not 80h (`LastSum`).
`DataHeld` ties the verdict to the data the caller holds.

Only model-checked:

- what needs fairness (`CallReturns`, `TerminationCompletes`, `NubDetaches`,
  `ProcessGone`, `PollReachesVerdict`, `DriverFreed`): liveness and ENABLED are out of the
  prover's reach;
- the eight violations, which are counterexamples.

## What is not modelled

- The branches that cannot be reached: a user client of the wrong class and a nub without a
  driver (above); `setProperties` before `start` and after `stop`; transient failures of an enclosure
  that is being identified.
- The score of `probe`, and with it which driver IOKit starts; "DISABLE" only lowers it.
- The factory count of the library; what it prints; the search of the tools for devices.
- Of the DEBUG experiments of `setProperties` those that set the mode to JMicron for the
  time of one command ("FIXME race condition"): a DEBUG build is not what is shipped,
  and IOSATDriver would show what the comment says.
- Sense data logging and INQUIRY: nothing reads what they leave.
- `CreateStorageServiceNub`, `attach`, `detach` and `open` of the driver, which pass on to the superclass.
- What is inside the allocation of a command (`IOSATCommand::init`): a call either
  gets one or not. Its DMA, packet and LBA48 fields, which nobody uses.
- The work loop itself and the command gate's lock: the driver calls back on the
  calling thread, so a wait under the gate never really sleeps.
- `fPort` and `fDevice` (one byte of a JMicron command, A0h to B0h; IDENTIFY and READ DATA go to
  the same one as the rest), `fIdentified` (nobody reads it).
- `IOSyncer.h`, a declaration; packaging.

## Plan

1. *Done*: the core (SMARTConnection, SATSMARTUserClient, proofs), the driver's life
   (IOSATDriver), the command path (SATCommandPath), the nub (IOSATServices).
2. *Done*: the library's object and the tools over the clients of the nub (SATSMARTClient);
   `sSMARTValidateReadData`.
3. *Done*: `probe` (IOSATDriver), and the driver's own commands (SATCommandPath).
4. *Done*: the inductive invariants and safety theorems of all five components, and the
   refinement of SMARTConnection.
5. *Done*: SMARTService, implemented by SATCommandPath, and OpenedNub, implemented by
   IOSATServices alone and under the tools, model-checked and proved; `ChecksumDecides` for
   data of every length.
6. Left: an abstract specification of the driver's life (which mode it stands for, and since
   when), for IOSATDriver; a user client whose `newUserClient` and calls are in one model, so
   that `TerminationCompletes` need not be cited by hand where `HandleTerminate` is one step.
