# A TLA+ verification of the CTS host harness

The repository holds the Android Compatibility Test Suite: the tests, the tools
that package them, and the programs that *run* tests and decide what the verdict
of a device is.  The tests themselves are content.  The logic that can be wrong
for everybody at once is in the harnesses:

* `tools/tradefed-host` (Java): the CTS harness on top of Trade Federation.  It
  walks a list of packages on a device, filters and collects the events of the
  package tests, survives lost devices, and writes and continues reports.
* `suite/audio_quality` (C++ host, Java device client): a harness for audio
  tests, with threads, semaphores and a command protocol over a socket.
* `suite/cts/deviceTests/browserbench` (Java and TypeScript): a test that starts
  a browser with a benchmark page and collects what the page posts.

This directory models the core of all three.

## Inventory

### The CTS session (`tools/tradefed-host`)

| Part | State | Operations | Talks to |
|---|---|---|---|
| `CtsTest` | `mRemainingTestPkgs`, options, `mContinueSessionId` | `run` (again on resume), `split`, `buildTestsToRun` | package tests, `ResultFilter`, device |
| `ResultFilter` | `mKnownTestsMap`, `mRemainingTestsMap`, `mCurrentTestRun` | the test callbacks, `reportUnexecutedTests` | reporter |
| `CtsXmlResultReporter` with `TestResults` .. `Test` | `mResults`, `mCurrentPkgResult`, `mIsDeviceInfoRun`, report directory | `invocationStarted`, the test callbacks, `invocationEnded` | `testResult.xml`, `CtsHostStore` |
| `CtsHostStore` | static map: device and test to performance result | store, remove | host tests write, the reporter takes |
| `PlanCreator`, `TestPlan`, `TestFilter` | none across calls | `createDerivedPlan` | report, package repository |
| `TestPackageRepo`, `TestPackageDef` | package definitions | lookup, `createTest` | package XML files |
| `TestResultRepo` | a directory listing | session id to report | report directories |
| `GeeTestResultParser`, `WrappedGTestResultParser` | test in progress, counters | `processNewLines`, `done` | shell output, `ResultFilter` |
| `JarHostTest` | test list | `run` with a timeout per test | test threads, `ResultFilter` |
| `DeviceInfoResult` | metrics | `populateMetrics` | devices of resumed and sharded runs |
| `IssueReporter` | current issue, executor | test callbacks, `invocationEnded` | issue server |

What is hard here: a device can vanish at every call made on it; an invocation
is then resumed on another device with the same `CtsTest` and a new filter; a
report is continued by a later process; a package test may be cut off between
any two of its events, or send events for tests nobody asked for; two objects
(filter and reporter) each track "the current package" and are moved by
different callers; performance results travel beside the test events, through a
static map.

Correct means: no expected test is missing from a report; a verdict is the one
the executions earned, for the package that earned it; a report names defined
tests only; continuing a session preserves its verdicts; invocations end.

### The audio quality suite (`suite/audio_quality`)

| Part | State | Operations |
|---|---|---|
| `AudioLocal` (`AudioPlaybackLocal`, `AudioRecordingLocal`) | `mState`, `mCurrentCommand`, three semaphores | client: `prepare`, start, wait, stop; audio thread: `threadLoop` |
| `RemoteAudio`, `Looper` shim, `Semaphore` | command handlers with `mActive`, `mNotifyOnReply`; message queue, wake pipe | client: commands with timeouts; looper thread: `pollOnce`, `handlePacket` |
| `ClientSocket`, `AudioProtocol` | socket | packets |
| `TaskBatch`, `TaskCase`, `TaskSequential`, `TaskAsync`, ... | task tree, loop index, queue of asynchronous tasks, results of the stages | `run`, with repetition and failure policy |
| device client `AudioProtocol.java` | `mPlayback`, `mRecord` and their threads, `mDataMap` | command loop, player and recorder threads, replies |

What is hard here: two or three threads around fields without locks; time-outs
that race late answers, in a slot or a semaphore that the next command uses too;
a device that dies, or goes on with what was stopped; asynchronous tasks that
hold hardware over every way out of a loop.

Correct means: an answer is taken for the command it belongs to; a completion
means that all was played or recorded; every call returns; a case is passed only
if a process said so and nothing failed.

### Browser benchmarks (`suite/cts/deviceTests/browserbench`)

| Part | State | Operations |
|---|---|---|
| `BrowserBenchTest` | `mRunIndex`, `mLatch`, `mResultsMap` | test thread: rounds, report; server threads: `onPost` |
| `WatchDog` (`libs/deviceutil`) | `mSemaphore`, `mStopRequested` | own thread; `reset` by the server's, `stop` by the test's |
| `CtsTestServer` (`libs/testserver`) | accept loop, request threads | accept, answer, shutdown |
| Octane's `base.ts` and the script of its `index.html` | continuations, suites, scores | `RunStep` and what it calls, reports |
| RoboHornet's `robohornet.ts` | status of benchmarks, active one, frame, timers | `run`, `next_`, `loadBenchmark_`, `done_`, callbacks |

What is hard here: the page, the server's threads, the watch-dog and the test run
at once and share fields; the page is driven by timers and callbacks that may
overtake each other; benchmarks fail.  Correct means: a score is of its round, a
round ends on its own final score, silence and nothing else ends the process.

### Other parts

`libs/` (utilities used by tests on the device), `tools/` (XML and coverage
generators, scanners, assemblers, the signature tools), `apps/CtsVerifier`
(manual tests with a UI), `hostsidetests/` and `tests/` (test content),
the rest of `suite/cts` (benchmarks as test content; the vendored Octane and
RoboHornet benchmarks that the pages measure), `skills/` and the build files.  None of them is a protocol or a long-lived state machine
of its own; `PROJECT.json` lists each with the reason it is left out.

## Modules

| Module | Models | Theorems |
|---|---|---|
| `TestReport` | the result tree of one package and its mutators | |
| `CtsSession` | `CtsTest.run`, `ResultFilter`, `CtsXmlResultReporter`, `CtsHostStore`, derived plans; composes `TestReport` | |
| `CtsSessionProofs` | proofs about `CtsSession` | seven |
| `VerdictLedger` | abstract: what a session promises about its report | |
| `CtsLedgerProofs` | `CtsSession` implements `VerdictLedger` | one |
| `NativeTests` | a gtest binary, the two parsers of its output, filter and reporter of its package; uses `TestReport` | |
| `NativeTestsProofs` | proofs about `NativeTests` | six |
| `AudioLocal` | client thread and audio thread around one `AudioLocal` object | |
| `AudioLocalProofs` | proofs about `AudioLocal` | four |
| `AudioClient` | the device client: server, player and recorder threads | |
| `RemoteAudio` | client and looper thread of the host; composes `AudioClient` | |
| `RemoteAudioProofs` | proofs about `RemoteAudio` and `AudioClient` | three |
| `TaskTree` | a test description that runs | |
| `TaskTreeProofs` | proofs about `TaskTree` | five |
| `JarHostTest` | a package of host tests, with threads left behind; uses `TestReport` | |
| `JarHostTestProofs` | proofs about `JarHostTest` | five |
| `CtsReport` | the request by which a page reports | |
| `OctanePage`, `RoboHornetPage` | the two benchmark pages, over `CtsReport` | |
| `BrowserBench` | test, watch-dog and server; composes the pages | |
| `BrowserBenchProofs` | proofs about `BrowserBench` and the two pages | six |
| `MC...` | the instances that TLC checks | |

### `CtsSession` and the code

The state is the state of the objects, under their names: `mRemainingTestPkgs`
(`CtsTest`), `mKnownTestsMap`, `mRemainingTestsMap`, `mCurrentTestRun`
(`ResultFilter`), `mResults`, `mCurrentPkgResult` (the reporter), `mMap`
(`CtsHostStore`).  `expected` is what `buildTestsToRun` left in the packages,
`knownTests` the package of the current turn of the loop, `saved` the file
`testResult.xml`.  `pc` is the place in `CtsTest.run` or between its calls:

```
idle -> started -> prepare -> loop -> running -> between -> loop ...
                                          |  +--> cleanup -> over -> idle
                 (any place of the try) --+--> lost -> prepare  (--resume)
                                                   +-> idle     (give up)
```

| Action | Code |
|---|---|
| `InvocationStarted`, `ContinueSession` | `CtsXmlResultReporter.invocationStarted`; parse of the saved report |
| `RunPlan`, `RunDerivedPlan`, `Resumed` | start of `run()`, on a fresh and on a resumed `CtsTest`; a new `ResultFilter` each time |
| `Prepare`, `StartPackage`, `PackageReturned`, `BetweenPackages` | prerequisites, loop head with `forwardPackageDetails`, removal from the list, reboot policy and home screen |
| `TestRunStarted`, `TestStarted`, `TestFailed`, `TestHasEnded` | the callbacks, through filter and reporter in one step: they are synchronous calls |
| `StoreCtsResult` | a host test delivers a performance result beside its events |
| `Finish`, `DeviceLost`, `PackageThrew` | the ways out of the try block, each with all of `finally`: `reportUnexecutedTests` |
| `InvocationEnded`, `HostCrash` | the report is written, or cut short; the process dies |

A package test is not in the repository's control (it is an instrumentation on a
device, a native binary or a jar), so it may start any tests, known or not,
within a run, then send any events for tests it has started, in any order, late,
twice or never, and stop anywhere.  Events for a test nobody started make the
reporter fail (`TestPackageResult.java:272`) and are left out, and so are those
of a thread that outlives its package (`JarHostTest` has those).  `NativeTests` is one
package test looked at from the inside, and `KeepsContract` there is that a
native package test sends nothing else.  Trade Federation is external too: that it calls `run()` again or ends
the invocation is its decision.

What is abstracted, and why that is sound for the properties:

* Lists of packages are sets with a rank (`PlanOrder`, `NameOrder`).  A list has
  no duplicates, and only its head and its last element are looked at.
* The name of a test run is its package: every test class under
  `testtype/` passes the package URI.
* `Plans` stands for plan files, `--package`, `--class` and excluded-test
  filters: a function from the chosen packages to the tests they exclude.
  `--exclude-package` is a plan with fewer packages.  A package whose
  `createTest` returns null is dropped by `buildTestsToRun` and is not chosen.
* Device info, run metrics, the reboot policy, prerequisite apks and screenshots
  appear as places where the device can be lost.
* The payload of a performance result is "none", "malformed" or "result".
* One chain of continued sessions has one saved report.  A report that was cut
  short does not parse, so it cannot be continued; the next invocation starts
  a new session.

### `VerdictLedger`

The ledger is what a reader of the report may rely on: a line per test, opened
empty or from the ledger on file, filled while it is open, complete when closed.
It knows no package list, filter, current package or place in `run()`.
`CtsSession` implements it under `Ledger`: `stage` is the place in the code
(`none` between invocations, `closed` once `finally` has run, `open` otherwise),
`chosen` is `expected`, `ledger` is `mResults`, `kept` is `saved`,
`Again` is `--run-known-failures`.  Leaving the try block at any place, and
nothing else, is `Close`: it enters all chosen tests that have no line at once.

### `NativeTests` and the code

| Action | Code |
|---|---|
| `StatusLine`, `NextLine`, `StatusCode`, `NextRead` | one turn of the loop in `WrappedGTestResultParser.parseInstrumentation`; `NextRead` is the next call of it.  If the package is no `WrappedGTest` (`wrapped`, chosen in `Init`) `StatusLine` is `parse` alone |
| `Parse` and the `Process..` operators, `DoTestEnded` | `GeeTestResultParser.parse` and its handlers, with the callbacks through `ResultFilter` to the reporter, which are synchronous |
| `Done`, `HandleTestRunFailed` | `done()`, also when `GeeTest.runTest` flushes after an exception |
| `Begin`, `RunTest`, `EndTest`, `Output`, `End`, `FailedTests`, `Exit`, `Die`, `CutOff` | the binary and adb, external |

* A line is delivered when the binary prints it.  How long it is under way makes
  no difference: nobody else talks to the parser.
* A test may print text without a line break, so that the next marker does not
  begin a line; `column` has this.  In an instrumentation each message begins a
  line of its own.
* A line that is cut off is handed on as it is by `MultiLineReceiver.flush`.
  Its name is that of no test (a name that is cut to that of another test is left
  out), and an unreadable name is `UNKNOWN_CLASS#UNKNOWN_TEST`.
* Output of tests that looks like a marker, and names that two tests
  share, are left out.
* `INSTRUMENTATION_RESULT`, after which `WrappedGTestResultParser` drops
  everything, is the last an instrumentation prints: it is `Die` or comes after
  `Exit`.
* Without a test in progress `doTestEnded` builds a `TestIdentifier` from null
  names before it notices.  Should its constructor refuse, the exception ends
  the output and the parser is flushed: the same as `Die` right after, so the
  model has both.
* Results of tests are "ok" and "failed"; traces, times and metrics are not kept.

### `AudioLocal` and the code

The client's calls are `Prepare`, `Start`, `WaitForCompletion`, `Stop` and
`Destroy`, each followed by the steps it goes through (`cpc`); the audio thread
is `threadEntry` and `threadLoop` (`tpc`).  No lock protects the fields they
share, so storing a command, posting the semaphore, taking the answer and
reading the result are separate steps, and the audio thread may run between any
two of them.  `use` names what the object is used for: the buffer, the repetitions, whether
hardware is slow or fails, and `Usage`, which is the client: for every call and
result, what it may call next.  `MCAudioLocal` has three clients: a single cycle, an object used again (as the
tests in `AudioPlayTestCommon.h` do), and one dropped after a failed call (as
`TaskOutput.start` does).  What all of these keep to is `ClientAssumption`: prepare
a new, a stopped or a just prepared object, start only what was prepared, wait only
for what was started.  The theorems are about any client that does.

* `TimeOut`: with `SlowHardware` a time-out may pass at any time while no answer
  is there.  Otherwise that of a command is taken to be long enough, so it passes
  only when the audio thread is gone or blocked for good.
* `CompletionTimeOut`: `waitForCompletion` waits for the length of the buffer and
  `COMMAND_WAIT_TIME_MSEC`, 4 s, however often the buffer is repeated
  (`AudioLocal.cpp:57`).  Hardware that keeps time has handled `BufferSize +
  CommandWait` when this has passed, `CommandWait` being what it handles in 4 s; so
  on such hardware the time-out may pass from that amount on, and not before.  A
  buffer whose further repetitions take 4 s or more is therefore timed out while it
  plays.  `PlaybackCompletes` excludes it by `InTime`; without that hypothesis TLC
  finds the property violated.
* The buffer is its length and position.  The clients rewind it before start.
* `played` is a history variable.
* After the destructor has returned, `CreateAudioHw` goes on with a new object:
  every task makes one.  This also keeps the model from ending.
* Left out: a pcm handle that is null after a failed open, the pcm handle closed
  by the destructor of the derived class while the thread is alive, destruction
  of a semaphore that is waited on.

### `AudioClient`, `RemoteAudio` and the code

`RemoteAudio` is one object with four command handlers.  A call is `Enter`,
the step it does with the handler's `mStateLock` held (`LockDownload`,
`LockStart`, `LockWait`, `LockStop`, ...), `SendMessage` and `Wake` (the queue and
the pipe), `Await` and `Answered`.  The looper thread is `Connect`, `Poll`,
`Drain`, `HandleMessage`, `HandleExit`, `HandlePacket` and `Notify`.  The socket is
two queues; `AudioClient` is what is at its other end: `Server` takes a command a
time, `Player` and `Recorder` are the threads it starts.

* `pipeBlocks`: the looper in `compat/` empties its wake pipe with reads until
  one fails, and the pipe blocks, so nothing is handled after the first message
  (`remote_download`).  What `RemoteAudio` does over a pipe that does not block, the
  behaviour of Android's looper that the shim stands in for, is the other value,
  and the value in which everything else happens.  Both are in the run `remote`.
* `startPlayback` of unknown data returns with `mStateLock` held (`Leaked`).  If a
  playback was stopped before and its late reply comes now, the looper thread waits
  in `handlePacket` for that lock, and replies behind that one are never read: a wait
  for a recording is timed out though the recording is over.  `WaitSeesEnd` has this
  as its exception.  It takes six calls, more than the run makes; the attempt to
  prove the property without the exception led to it, and TLC then found the
  behaviour.
* `slow`: an answer may take longer than the client waits.  Otherwise a
  time-out passes only when no answer will come (`TimeOut`).
* Exceptions on the device that nobody catches are `Crash`: the process is gone,
  and with it the connection.  They come from fields that another thread has
  set to null and from calls on a released track.  The data downloaded is lost with
  it; the other fields, which `reset()` clears, are read by nobody afterwards and
  are left as they are.
* A start is refused for an unknown id only.  That a rate is wrong, or a recording
  is to be stereo, does not happen: `TaskInput::start` and `TaskOutput::start` ask for
  44100 Hz always, and `TaskInput::start` for mono when it records on the device.
* An older playback or recording thread that has one step left (its reply, its
  finally block) is a counter.
* A handler that `doStop` made and abandoned is `"gone"`; its late message is sent
  and nobody is told.
* Left out: packet layout, partial reads, payloads (so that a refused recording
  leaves its payload in the socket, `AudioProtocol.cpp:160`, is not modelled), the
  signal that a send to a closed connection raises, and reconnection.

### `TaskTree` and the code

`stack` is the C++ call stack of `run()`; `child` the position in the list of
children, `ret` what the child returned last.  `Stage` is `TaskGeneric.run`;
`ChildReturned`, `Complete`, `NextLoop`, `LoopsDone`, `LoopBroken` and
`LoopsStopped` are the loop of `TaskSequential.run`; `CaseStage`, `StageReturned` and
`CaseReturns` are `TaskCase.run`; `RunCase` and `CaseReturned` the batch.
`TreeAssumption` is the table of `ModelBuilder`, `ShapeAssumption` that a parsed
description is a tree, so that no task is inside itself or has two parents.  A leaf returns any of its
`results`.  `ModelBuilder` asks for a setup and an action in a case, in any order and
number, and `TaskCase.run` takes the first three children for setup, action and save by
their place; the model has them in that order, as all descriptions in
`test_description` do, and any number of children after them, which are never run.

`failures` and `passed` are history variables.  `failures` records every error and
failure of a task, by what its loop had come to (`firstError`) when the task
returned it.  That is "OK" for a task that is run, but an asynchronous task is
completed at the end of the loop, and after a continue, a break or a pass of a process
its error is lost (`TaskSequential.cpp:66-69`): the loop goes on and the case may be
reported as passed, although `TaskGeneric.h:65` says that an error "stops everything".
The three results are `Overruling`, and `PassedCasePassed` and
`FailureStopsEverything` are about failures with another than these, by name.
Without the exception TLC finds `FailureStopsEverything` violated after 24 states: a
process in the inner loop returns continue, the error of the input started before it
is lost, and the loop is repeated.

### `JarHostTest` and the code

`Harness` is `JarHostTest.run` and `runTest`, `Thread` the `TestRunnable` of a test.
A test that ran out of time (`TimedOut`) is failed and ended by the harness while
its thread goes on; both go through `TestResult`, filter and reporter without a
lock, so `reportTestEnded` is two steps, the look at the status (`EndTest`,
`LateEndTest`) and the assignment (`EndedTest`, `LateEndedTest`).  `NextRun` is
the moment from which the filter names another run.  The properties name three
deviations as exceptions: an end that had looked at the status before a failure
came overwrites it; a performance result turns a failure into a pass
(`session_perf`); a test that throws something else leaves no verdict
(`EXCEPTION` is not looked at in `JarHostTest.java:209`).

### `BrowserBench`, its pages and the code

Test thread (`Launch`, `Await`, `Iterate`, `Reported`, `Stop`, `Join`, `Shutdown`),
watch-dog (`Acquire`, `TimedOut`, `Loop`), each request thread (`Accept`, `Store`,
`CountDown`, `Reset`, `Release`, `Respond`) and the page take steps of their own.
A page's script runs to its end before the next timer, and a report is a
synchronous request: its actions wait for `Free`.

* The reports of the Octane page are those of the script in its `index.html` (lines
  47-72); `octane.ts`, which resembles it, is loaded by no page.  A complete score is
  posted as `"Octane Score "`, with a space.  Of `"Octane Score(incomplete)"` `onPost`'s
  regular expression takes what is before the bracket, so an incomplete score is a
  message of its own.
* A suite goes through set-up, measurement and tear-down of its benchmarks, each
  of which may throw; `turn` names the continuation.  How often a benchmark is
  run before it has a result is left out.
* RoboHornet's timers, frame and running suites are counted, because the page can
  be started again while they are outstanding: by its own timer, when the button or
  the link has been clicked before.  The button is disabled while the runner runs, and
  the link is replaced by its first start.
* A score is the number of the page load that measured it, which is what
  `RoundsEarned` compares with the column it is stored in.
* Time passes only when no thread of the process can go on (`Waiting`), and with
  `prompt` not at all.
* Left out: `mResultsMap = null` in `tearDown` against a request that outlasts the
  server's minute (`CtsTestServer.java:915`); all requests but the posts.

## Runs

| Run | Question | States |
|---|---|---|
| `session` | can any order of events, losses, resumes, crashes and continued sessions lose a test, spoil a verdict, or credit the wrong package? Is the session, from outside, a `VerdictLedger`? Does every invocation end once faults stop? | 26,975 |
| `session_known_failures` | does a continued session keep verdicts with `--run-known-failures`? No. | |
| `session_perf` | is a reported failure a failure? Not if a performance result comes with it. | |
| `native` | can lost markers, crashes or cut-off output invent a pass, lose a test without failing the run, or break the contract with `CtsSession`; is an undisturbed run reported exactly, however its messages are split over reads? | 12,675 |
| `native_crash` | does the test in which the binary dies fail? No. | |
| `audio` | over slow, failing and working hardware, an object used once, again or dropped: is a completion earned, does the client take the right answer, is a stopped object quiet, does every call return and playing complete in time? | 233,120 |
| `audio_again` | does `prepare` work after `stop`? Not always. | |
| `remote` | with a device that dies, answers that come late, stops that race the end: is a wait for completion right, is registered data on the device, is one thing started at a time, does every call return? | 619,700 |
| `remote_download` | does a download over the looper shim succeed? No. | |
| `tasks` | is a pass earned, does a failure stop the case, is hardware released and the index right on every way out of nested loops, are all cases reported? | 5,682 |
| `jarhost` | can a thread that outlives its test or its run withdraw a failure, invent a pass, lose a verdict or write into another run? | 166,129 |
| `browser` | can interleavings of page, server, watch-dog and test put a score into the wrong round, end a round early, kill a test that is not silent? Do the pages run every benchmark once and report in order? Does a prompt test pass? | 544,709 |

`remote` takes between two and three minutes, `browser` one and a half, the others
less than one each.  `TypeOK` is checked where it is part of an inductive invariant
that is proved or planned.

Bounds of the session runs: two packages, one with two tests, both with a test
of the same name; a plan, a plan that excludes a test and a single-package
plan; plan order and name order differ.  Two packages are enough for a package
that is over, one in progress and one to come to differ pairwise, and for the
last package with unexecuted tests to differ from the current one; a shared name
is what could confuse filter and reporter.  The number of invocations, resumes,
runs and events is not bounded.  Known failures are off in `session`, because
with them `ContinueKeepsVerdicts` does not hold; the theorems cover the case
of known failures that are not included.

Bounds of the native runs: three tests, one of which the package does not list.
Two known tests are enough for the end of one to be taken for that of the other
(each side of a lost marker), the third for an event that the filter drops; every
test is run once, so the output is finite and the checks end where it ends
(`CHECK_DEADLOCK FALSE`).

Bounds of the audio runs: a buffer of two and a half goes (the cut last go) and
of exactly two; one or two repetitions, on working hardware three too: with
`CommandWait` = 5 a buffer of 4 that is played twice is over in time and one that is
played three times is not.  `MaxToken` = 1 keeps the client
from calling `prepare` with more than one token left over in a semaphore.
Failed calls leave tokens behind, and without the bound their number grows for
ever; one left over is enough to take a late answer for the current one.

Bounds of `remote`: `Uses` is the ways to use the object: which calls, and how
many (`maxCalls`, two to five).  Download, two starts and two waits are enough for
a reply that belongs to the earlier playback; with stops four calls of playback or
three of recording, enough for a start after a stop.  The safety properties hold with
five calls that stop one kind and wait for the other too (5.2 and 7.7 million states,
without liveness), and by the theorems with any number.  Of a kind that is stopped
neither "a wait means the end" nor `OneAtATime` is stated: the late reply of the
stopped playback clears the new one's `mActive`, and a third start then goes out
while it plays.

Bounds of `tasks`: a batch of two cases, a loop in a loop with asynchronous tasks at
both levels and two repetitions each, two loops with one index name, with and
without a save stage, and with a fourth stage.  A process returns anything.  The description ends
(`CHECK_DEADLOCK FALSE`).

Bounds of `jarhost`: four tests, one that cannot be loaded, one that is no
`TestCase`, one with a performance result.  Three that can run are enough for two
threads left behind while a third test runs.

Bounds of `browser`: two rounds of two Octane suites, one of them with two
benchmarks; one round of two RoboHornet benchmarks and one click (on the runner while it
is not running, or on a tag); two request threads; a post time-out of two ticks in a round of three, so that the watch-dog
is first, as the constants in `BrowserBenchTest` say, and yet a round of slow posts
can outlast `await`.

### Fairness

* `CtsSession`: `WF_vars(Harness)`.  The thread that runs `CtsTest.run` goes on,
  a package test is ended by its own time-outs (`PackageReturned`), and Trade
  Federation resumes or ends an aborted invocation.  No fairness for faults, for
  the events of a package test or for the start of an invocation.
  `InvocationsEnd` is conditional on faults that stop: a device that is lost in
  every attempt may be resumed for ever, in the code as in the model.
* `AudioLocal`: `WF_vars(InCall)` and `WF_vars(AudioThread)`.  Both threads are
  scheduled and a pcm call returns.  Nothing makes the client call anything.
* `RemoteAudio`: weak fairness of both threads of the host and of the three of
  the device, and `SF_vars(SendMessage)`: at the end of the stream the looper thread
  takes and gives up its lock for ever, and a mutex that is free again and again
  is got.  Nothing makes the client call anything or the device disconnect.
* `TaskTree`: `WF_vars(Next)`; the program goes on and every task returns.
* `BrowserBench`: the test thread, the watch-dog, each request thread, the browser
  and the page's timers.  `Tick` is not fair: a page that hangs is a behaviour in
  which the clock ticks.
* `NativeTests` and `JarHostTest` have safety properties only.

## Findings

1. `session_perf`: a failed test with a performance result is reported as
   passed (`CtsXmlResultReporter.java:292`).
2. `session_known_failures`: the derived plan of `--continue-session` does not
   know `--run-known-failures` (`CtsTest.java:636`).
3. `audio_again`: a stale `ECmThreadStop` ends the next audio thread
   (`AudioLocal.cpp:76`).
4. `native_crash`: the failure of a test that kills its binary is reported under
   a name the filter does not know (`GeeTestResultParser.java:622`).
5. `remote_download`: the looper thread blocks in its wake pipe after the first
   message, and no command is sent (`Looper_impl.h:75`).

`PROJECT.json` quotes the lines each contradicts.  Other deviations the models have
and no run of their own: a repeated buffer of a single go never ends
(`AudioPlaybackLocal.cpp:85`; excluded in `PlaybackCompletes`); the destructor joins a
blocked audio thread (`threads.h:104`; excluded in `CallsReturn`); a multi-line
message split over two reads loses its rest (`WrappedGTestResultParser.java:74`;
verdicts are not affected); `startPlayback` of unknown data keeps `mStateLock`
(`RemoteAudio.cpp:245`; excluded in `CallsReturn`); a suite that fails in one round
only can displace the final score as summary (`BrowserBenchTest.java:79`; excluded
in `CleanSummary`); a page all of whose suites fail posts NaN and is waited for
(`base.ts:145`; excluded in `TestPasses`); a buffer whose repetitions after the first
take 4 s or more is timed out on working hardware (`AudioLocal.cpp:57`; excluded in
`PlaybackCompletes`); the error of an asynchronous task after a continue, a break or a
pass stops nothing, which contradicts `TaskGeneric.h:65` (`TaskSequential.cpp:67`;
excluded in `FailureStopsEverything` and `PassedCasePassed`); and a failure overwritten by an end that was under way
(`TestPackageResult.java:297`; excluded in `FailureStays`).

## Proofs

`CtsSessionProofs` proves for all packages, tests, plans, orders and options
that satisfy `SessionAssumption` (types of the constants; `None` is neither a
package nor a test):

* `TypeCorrect`: `Spec => []TypeOK`.
* `Invariant`: `Spec => []IInv`, and from it `NothingLost` (`Accounted`),
  `VerdictsCorrect` (`VerdictsEarned`), `EventsCorrect` (`EventsCredited`),
  `ReportDefined` (`OnlyDefinedTests`).
* `ContinueCorrect`: if known failures are not included,
  `Spec => []ContinueKeepsVerdicts`.  The run `session_known_failures` shows
  that the assumption is needed.

None of the properties is inductive.  `IInv` adds four parts:

* `InProgress`: the package in progress is still in the list, only it has tests
  begun.  Without it an event could come from a package the filter of a
  resumed run no longer knows.
* `FilterCurrent`: the filter's sets lie between nothing and `expected`, and
  are complete for packages still to run.  `Accounted` rests on it: a test that
  is in neither the tree nor the filter's remaining set would be lost.
* `SavedDefined`: the saved report names defined tests only, which
  `OnlyDefinedTests` needs when a session is continued.
* `ContinueExpected`: a continued session expects only tests that the saved
  report has as notExecuted, and has not touched the others.

The proof has one lemma per event for its effect on one test of one package
(`StartedEffect`, `FailedEffect`, `EndedEffect`, `LeaveTryEffect`), one per
event for the preservation of `IInv`, and `IInvStep` that combines them, with a
step for every action.

`CtsLedgerProofs` proves `SessionImplementsLedger` (`Spec => Ledger!Spec`) under
the same assumptions: `LedgerInit`, and `LedgerStep` with one case per action,
each a named step of the ledger or a stutter on `LedgerView`.  The invariant
enters in three places: `InProgress` and `FilterCurrent` make the filter's known
tests the chosen ones and `finally` complete (`LedgerLeave`), `VerdictsEarned`
makes a pass after a failure impossible without a performance result
(`LedgerEnded`), and `ContinueExpected` restricts what a reopened ledger chooses.

`NativeTestsProofs` proves, for any finite set of tests, any package and either
parser, `NativeTypeCorrect` (`TypeOK`), `PassesEarned` (`PassEarned`) and
`ContractKept` (`KeepsContract`).  The invariant `NativeTests!IInv` adds
`InProgress` (a test in progress is one the reporter has a Test for, a run in
progress is open until `done()`, only cut-off output leaves an unreadable name)
and `Executing` (a test has no verdict while it runs).  The argument goes
through what is delivered: `StepDelivers` shows that every step of the binary
delivers one line (`Delivered`) or leaves the parser alone (`Quiet`), and
`ParseProgress` what a line does whatever its kind.

* `LostTestsFailTheRun` (`AllOrFailed`): `done()` compares two numbers only, so `Counted`
  says which tests were counted: a set of as many tests as `mNumTestsRun`, each at its
  end in the binary and with a result in the report.  If the number is that of all
  tests, the set is all tests.  `CountInv` is `IInv` with `Counted` and `AllOrFailed`;
  cardinalities are those of `FiniteSetTheorems`.
* `ReportIsFaithful` (`Faithful`) is about a run that nothing disturbs: `Agreed` says at
  which test parser, reporter and binary are, and that the verdicts so far are those of
  the binary.  `AgreedInv` is `IInv` and, unless something was disturbed, `Agreed`.

`JarHostTestProofs` proves, for any sets of tests that satisfy `JarAssumption`,
`TypeCorrect` (`TypeOK`), `PassesAreEarned` (`PassEarned`), `RunAccountsForTests`
(`RunAccounts`), and the action properties `FailuresStay` (`FailureStays`) and
`LateEventsAreDropped` (`LateIsDropped`).  Its `IInv` is `TypeOK` with `Places` (where
harness, filter and threads are relative to each other), `Earned` (what thread or
harness has *seen* and will act on is as true as what is reported) and `Accounts`
(what the run has left behind has a verdict and is not with the filter).
`ThreadPreserves` and `HarnessPreserves` have a case per action; the action
properties need only `IInv` and one look at each step.

`TaskTreeProofs` proves, for any description that satisfies `TreeAssumption` and
`ShapeAssumption`, `TypeCorrect` (`TypeOK`), `HardwareIsReleased` (`HardwareReleased`),
`VerdictCorrect` (`PassedCasePassed`), `IndexCorrect` (`IndexOfLoop`) and the action property
`FailureStops` (`FailureStopsEverything`).  Its `IInv` says what the call stack is:
`StackIsPath` (a path in the tree, no task twice), `Nested`, `QueueOfLoop` and
`HeldIsQueued` (what is held was queued by a loop on the stack, and once: so it is
released on every way out), `FailureKnown` and `PassKnown` (who on the stack knows
of a failure that is not overruled, and of a pass), `ThreeStages` (a case is not past its
third child, so that save is the last to run), `LoopsOnStack` (a loop's index is its number unless a
task inside uses the name).  A step is one of six kinds by what it does to the stack
(`Pushes`, `Queues`, `Counts`, `Pops`, `Completes`, `Stays`), and most parts of `IInv`
need the kind only.  How deep loops nest is not bounded.  `Below`, the tasks inside a task, is a recursive
function; that it satisfies its equation and is closed under "child of" follows from
`ShapeAssumption` (of the tasks that did not, one would be innermost) and the table
of types.

`AudioLocalProofs` proves, for any buffer, period, repetitions, hardware and any client
that keeps to `ClientAssumption`, `TypeCorrect` (`TypeOK`), `StoppedStaysQuiet`
(`StoppedIsQuiet`), `CompletionIsEarned` (`CompletionEarned`) and `AnswersAreOwn` (`AnswersMatch`).
`Quiet` is what is true without a thread, `InWhichCall` where the client is;
`PlayedIsCounted` ties what was played to position and repetition (products of
variables: the lemmas about them are separate steps), `CompletedOnce` says that a
start is completed at most once and older completions are taken back, `AnswersInTurn`
that an answer in the semaphore is that of the command the client has sent last.
The last holds for an object that is prepared once; `audio_again` is what happens
to others.

`RemoteAudioProofs` proves, for any uses that satisfy `RemoteAssumption`, so for any
calls in any number over either pipe, three theorems.  `Base` (types, what the
client is doing, what may be sent by which way, when a connection is there) is
common to them.

* `StartsDoNotOverlap` (`OneAtATime`): a start command, and all that becomes of it, is in
  one place at most (`Alone`) of call, queue, looper's hand, socket, device, reply,
  notification (`Stage`, `At`).  `AllMove` shows that every step leaves it where it
  is, moves it ahead or opens a new call (`Moves`); `Tasks` adds that its handler is
  active all the while, so that no second call is opened.
* `RegisteredDataIsThere` (`RegisteredIsThere`): the same of a download (`Underway`),
  whose notification is therefore that of its own reply (`Registered`), as long as the
  looper thread is not `Stuck`, a state it never leaves (`StuckStays`).
* `WaitsSeeTheEnd` (`WaitSeesEnd`): `ReplyDue` says that for whatever is active a reply is
  due somewhere between client and device, also over stops and older threads;
  `Waiting` that who waits has been posted or will be by that reply.  So a time-out
  needs a looper thread that is stuck, and `StuckIsKept` says when (`Waits`).  `Told` is
  why a wait that returns true has seen the end: a handler is posted once
  (`PostedOnce`), for the call that is in progress (`PostedFor`).

`BrowserBenchProofs` proves about `BrowserBench` with both pages, for any suites,
benchmarks, rounds, workers and time-outs that satisfy the assumptions,
`VerdictOfEachSuite` (`OneVerdictEach`), `WatchDogIsPatient` (`WatchDogPatient`),
`RoundsAreEarned` (`RoundsEarned`), `SummaryIsClean` (`CleanSummary`) and
`BenchmarksAreMeasuredAlone` (`MeasuredOnItsOwn`), from one `IInv`, `Inductive`.
`OctaneInv` says where an Octane page is in its suites and what it has reported;
`RoboInv` that one timer, frame or suite of a RoboHornet page at most is outstanding
(`OneInProgress`), and that a success is counted once.  `WatchInv` relates the
watch-dog's clock and semaphore to what was stored and not yet reset.  `InRound`,
`Requests`, `RoundOver` and `RoundsWon` place the requests: the page has one at a time,
what workers still have of earlier pages is stored, and a latch is opened by the
final score of its round only.  `Columns` and `FinalIsLast` are what the arrays of
scores hold.  The steps of the pages are reduced to what they post (`Posted`,
`BenchmarkPosted`, `FinalPosted`, `TakesNone`) before the parts about the server are
looked at.

Only model-checked: the liveness properties (`InvocationsEnd`, `CallsReturn` of
`AudioLocal` and of `RemoteAudio`, `PlaybackCompletes`, `TestPasses`, `BatchReportsAll`), since
liveness under fairness is out of the prover's reach, and what the violated runs
refute.  All other properties of the passing runs are proved for every value of the
constants.  No module uses a RECURSIVE operator.

## Plan

Done: 1 `TestReport` and `CtsSession` with its proofs; 2 `VerdictLedger`, checked
and proved; 3 `NativeTests`; 4 `AudioLocal`; 5 `JarHostTest`; 6 `AudioClient` and
`RemoteAudio`; 7 `TaskTree`; 8 the browser benchmarks; 9 the proofs of 3 to 8.  To come,
in this order:

10. Several devices: `split()` into shards, `CtsHostStore` with device keys,
    device info merged over devices (`DeviceInfoResult.java:386`).
11. `TestResultRepo`: session ids as indices into a directory that changes;
    `IssueReporter` with its executor.
12. Plans: `TestPlan`, `TestFilter` and `PlanCreator` as functions, checked against
    a reference definition, in place of `Plans`.

## Not modelled

`PROJECT.json` lists every part with its reason.  In short: the test content
and CtsVerifier (the harness runs it), build-time generators, scanners,
assemblers and coverage tools (batch programs without lasting state), signal
processing (numeric), file formats and command lines, and Trade Federation and
Android themselves, which are not in the repository.

Of the TypeScript in the repository nearly all is the vendored benchmarks that
Octane runs (`mandreel.ts`, `pdfjs.ts`, `gbemu.ts`, jQuery and others, some 340,000
lines); they are the load that is measured.  What is this program's own, the two
runners and the report, is modelled.

Small things of the modelled parts that no model has: options of `CtsTest` that
shards do not inherit (`CtsTest.java:736`), the reboot interval computed in int
(`CtsTest.java:491`), device options left changed by a failed reboot
(`CtsTest.java:520`), what `Test.parse` does not read back (`Test.java:326`), a write of
a continued report that fails half way (`CtsXmlResultReporter.java:365`; the truncated
file is modelled, nothing promises more), and the minute that `IssueReporter` waits
at the end (`IssueReporter.java:150`).
