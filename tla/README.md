# Verification of the Furuta-pendulum controllers

TLA+ models of the programs in this repository, TLC runs over small instances of
them, and proofs that TLAPS checks for every value of the constants.  The
emphasis is on `teensy_uart_web/src/main.cpp`, the Teensy firmware that
supervises the ODrive over UART: it is the current controller, the largest
program, and the one in which a mistake moves a motor.

## 1. Inventory

| Component | State | Operations | Correct when |
|---|---|---|---|
| **UART supervisor** (`teensy_uart_web/src/main.cpp`, `include/config.hpp`) | mode, `guarded_swing_trial`, `zero_valid`, fault reason, commanded torque, swing settings, last accepted sample, encoder and drive health, five error counts, the times of the last dead-man, feedback, phase start, settle start, watchdog feed and tick | `loop()`: console commands, then a control tick when one is due; the tick diagnoses the encoder, makes one UART transaction, samples, decides, commands | torque stays in the clamp of the mode, moves only on fresh inputs, needs a saved zero and a held dead-man; every trial ends |
| **Drive sequences** (same file: `requestIdle`, `armODriveTorque`, `armODrivePosition`, `switchODriveToTorqueControl`, `disarm`, `clearODriveErrors`, `setup`) | none of their own; they change the drive, which keeps its state over a Teensy restart | unacknowledged writes, read-backs, a comparison | a trial starts only on a drive proven to be in the right modes with its watchdog on; a stop stops |
| **ODrive axis** (external) | state, control and input mode, limits, watchdog, errors, setpoints | executes the ASCII protocol, expires, fails | relied on, not verified |
| **ODrive transactions** (`ODriveUart`, `uart_protocol.hpp`) | the receive FIFO | request, checksum, shape filter, drain | an answer is the answer to the present question |
| **AS5048A driver and estimator** (`PendulumEncoder`, `sampleEncoder`, `as5048a_protocol.hpp`) | last angle, its time, filters, counters | pipelined SPI read, parity, diagnostics, plausibility, velocity | an implausible step never reaches the filters, a lost encoder is noticed |
| **Control math** (`control_math.hpp`) | none | clamps, energy and balance laws, travel prediction, gain checks | bounds |
| **Browser console** (`web/app.js`) | Space held, heartbeat timer, start-sent flags, port | key, blur, visibility and click handlers, `send()` (async), automatic start on telemetry | holds stop when Space, focus or page is lost; one start per hold |
| **Raspberry Pi controller** (`raspberry_pi_usb/src/furuta_pi/`: `controller.py`, `__main__.py`) | mode, zero, command queue, stop request, last feedback | asyncio loop: commands, feedback, sample, fault or torque, pacing; clean-up | the axis stops whatever fails on the way; a stop request ends the program |
| **Pi drive operations** (`odrive_usb.py`) | none; they change the drive | arming, feedback, torque, `safe_idle`, each awaited with a timeout | independent steps; the watchdog goes off only after IDLE is confirmed |
| **Pi inputs and configuration** (`pi_inputs.py`, `as5048a.py`, `config.py`) | pin and SPI handles | read a count, read the E-stop, parse TOML | pure I/O |
| **Legacy CAN controller** (`legacy_teensy_can/src/main.cpp`) | mode, zero, heartbeats, filter | callbacks, schedule, console | as the supervisor, with an E-stop and no dead-man |
| **Bench sketches, design tool, page servers** | – | read and print; compute gains offline | no control of a motor |

### How they interact

The browser sends `deadman_hold` every 150 ms while Space is held, commands on
clicks, and `tune_start` or `swing_start` by itself once telemetry shows the
start position.  The Teensy handles every pending line, then runs at most one tick;
everything is one thread, so a command that blocks (disarm, arming, clearing)
delays the tick behind it.  A tick makes one UART transaction with the drive.  The
drive runs on: it holds its last setpoint until told otherwise, and its own
50 ms watchdog is the fallback when nothing feeds it.  The Pi, the legacy
Teensy and the bench sketches are separate programs on separate hardware; they
share formulas with the supervisor, not state.

### What is hard

Ages read in one place and compared in another, after blocking; ticks that
return early and so look at nothing; counters that reset each other; a mode that
changes within a tick, and with it the limits; clamps applied before a slew
limit; unacknowledged writes; a drive that outlives a Teensy restart; several
troubles found in one tick of which only the first decides.
`PROJECT.json` lists them under `hazards` at the line where each bites, with the
properties that watch over it, or a note where none does yet.

## 2. Modules

| Module | Models | Composes |
|---|---|---|
| `MotorGate` | the abstract promise of a controller: off, prepare, drive or fault; a reference; a bounded torque with bounded steps; with `Restarts`, an end of the process | – |
| `Supervisor` | the supervisor, with drive, encoder and browser as environment | instantiates `MotorGate` |
| `MCSupervisor` | poses, demands and other small sets for TLC | extends `Supervisor` |
| `SupervisorProofs`, `DriveLinkProofs`, `PiProofs`, `ControlProofs` (`Encoder` and `SwingLaw`), `HoldProofs`, `BusProofs` (`UartLink` and `LegacyCan`), `PageProofs` | theorems and proofs, see section 4 | each extends its component and `TLAPS` |
| `PartsProofs` | theorems about `MCParts` | extends `MCParts` and the last four of these |
| `DriveLink` | the drive sequences message by message, on a lossy link, with the axis | – |
| `PositionHold` | the schedule of CENTERING and SETTLING in half milliseconds, against the drive's watchdog | – |
| `PiController` | the Raspberry Pi program await by await, with its drive, console and signals | instantiates `MotorGate` |
| `BrowserDeadman` | the page's Space dead-man with its awaited writes, the port, and the lines as the Teensy executes them | – |
| `Encoder` | register reads frame by frame, diagnostics, and the estimator under tick and zero | – |
| `UartLink` | questions and answers on the drive's UART, with late, cut and damaged replies | – |
| `SwingLaw` | the torque law of SWING_UP from the sample to the command | – |
| `LegacyCan` | the legacy controller with its drive behind a lossy bus | – |
| `MCParts` | the instances of the last five and of `PositionHold` | extends all six |

### Supervisor

A state is the controller between two console commands or ticks.  `Tick*` are
the outcomes of `runControlTick()` together with the deadline check of
`loop()`; the other actions are the branches of `executeCommand()`.  The code
decides in a fixed order, which the model keeps: `Sense` is all the tick measures
(diagnostics, the one transaction, the sample), `Cause` the first trouble in
the order in which `loop()`, `pollODriveHealth()`, the feedback branch,
`sampleEncoder()`, `stateIsHealthy()` and the phase look for it, `Trip` is
`enterFault()`, `TickCoast` the early returns that leave the last command
standing, and the rest is what the phase does.

| Variable | Code |
|---|---|
| `mode`, `guarded`, `zeroValid`, `cmd` | `mode`, `guarded_swing_trial`, `zero_valid`, `commanded_torque_nm` |
| `fault` | `fault_reason`, by kind |
| `swingLimit` | `swing_settings.torque_limit_nm` |
| `pose`, `rateKnown` | `state`, `pendulum_rate_initialized` |
| `encoderHealthy`, `odriveOnline`, `activeErrors` | `encoder_healthy`, `odrive_online`, `odrive_active_errors != 0` |
| `encErrs`, `outliers`, `fbErrs`, `healthErrs`, `misses` | the five `consecutive_*` counters |
| `holdAge`, `fbAge` | now minus `browser_deadman_ms`, `last_feedback_us` |
| `phaseAge` | now minus `tuning_started_ms` or `swing_phase_started_ms` |
| `settleAge` | now minus `swing_settle_ready_ms`; `NotSettled` for its 0 |
| `sampleAge` | now minus `last_valid_encoder_sample_us`, up to `RecoverTime` |
| `sinceFeed` | since the last torque write or watchdog feed |
| `sinceTick` | since the last tick began, hence whether this one is late |

Abstractions, all named at their definitions:

* Time is counted in periods of 5 ms; ages saturate at `AgeCap`, above every
  limit they are compared with.  A tick begins when a period has passed and is
  late when two have.  A released dead-man (`browser_deadman_held = false`) is
  an age of `AgeCap`.
* The mechanism is any member of `Poses` at every accepted sample.  Filters,
  gains and swing law are any member of `Demands`; the clamps, the slew limit
  and their order are the code's.
* A readable sample may be an outlier as long as the last accepted one is younger
  than `RecoverTime`.  The envelope of `sampleEncoder()` is multiplied by the time since
  that sample, which neither an outlier nor a failed read moves, so that it covers
  half a turn after some 7 ticks at its narrowest (100 rad/s upright) and
  everything is plausible; `Encoder` has the envelope itself (`NoLockout`).
* When a health poll or diagnostic read falls due is left open: more orders than
  the 200 ms and 100 ms schedules allow.
* Error counts saturate at their limit; `phaseAge`, `settleAge` and `sinceFeed`
  are 0 (or `NotSettled`) outside trials, where the code does not read them.
* `Failures` selects what may go wrong in a run.
* The non-finite check of `stateIsHealthy()` cannot be reached, since
  `parseFeedback` rejects non-finite numbers and the encoder yields integers.
* `setup()` takes longer than the feedback limit, so no feedback is fresh at
  boot although `last_feedback_us` starts at 0.

### DriveLink

`Steps` gives each sequence as the list of its writes, read-backs and
comparisons in the order of the code, `at` is the one that comes next, and `Send`,
`Receive`, `Verify`, `Refuse` run it one message at a time.  A write reaches the axis or is lost without the
controller noticing; a read-back is answered or times out.  Between the messages
the axis may fail, its watchdog expire, the Teensy restart (`Restart` is
`setup()`).  Between the sequences a trial ticks and polls.  `seen` is
`odrive_active_errors`: `pollODriveHealth()` only stores an error, and the tick that
looks at it ends the trial, the poll's own (`HealthAnswered`) or, when that one's sample
failed, a later one (`TripTrial`); until then no torque, feed or hand-over gets past it.
The axis is external: a torque command selects torque control, `c`,
`q`, `u` and enabling the watchdog feed it, an axis in error does not enter
closed loop.  Of the properties that are written, read back and compared alike
(gains, limits, bandwidth, current), the velocity limit and gain stand for all.
A refused sequence stops the drive twice, in its own `fail()` and in
`enterFault()`.

### PiController

The program is one asyncio task, so a step runs from one await to the next, and
only at an await can a line be typed, a signal come or the E-stop be seen to
change.  `pc` is where `run()` is: at the top of its loop (and in the sleep
before it), at the queue, in an awaited drive call, at the feedback after arming, at
the feedback of the round, at the torque write, at the end of the round, or off.  `ops`
are the USB operations left of a call, `then` where the program goes on after it:
`"main"` is the `safe_idle()` at the end of `run()`, `"raise"` the way of an
exception out of it, and both lead to the one in `async_main()`'s `finally`.

| Variable | Code |
|---|---|
| `mode`, `zeroValid`, `stop`, `queue` | `mode`, `_zero_valid`, `_stop_requested`, `_command_queue` |
| `lastFeedback` | `_last_feedback`: none, without or with active errors |
| `pc`, `ops`, `then` | the suspended coroutines |
| `failed` | how many operations of the last `safe_idle()` raised (the code swallows them); all after a kill |
| `estop` | `inputs.estop_closed` |
| `axis`, `unfed` | the drive: closed loop, torque, watchdog, error; waits since a feed |
| `typed` | lines typed so far, a bound |

Each operation may raise, and one that raises may have reached the drive.
`Kill` is an end without clean-up and `Restart` a new process; the drive keeps
its state over both.  The motion is left open: a sample may show any motion
fault, any catch or drop, and torque is zero or not.

`GateState` maps the program to `MotorGate`: it is off while DISARMED or ended, prepares
from the first operation of arming to the feedback after it, drives in the two trial modes,
and faults in FAULT.  `MotorGate`'s torque is the axis's own while the gate drives and 0
otherwise, so that `KeepsGate` says that no torque stands on an axis when a trial takes
it over; the torque that a stop has still to remove is not in it, which is
`OneFailureStops` and `OffStops`.  Assumed of USB: operations
reach the drive in the order in which they were begun, so a write that timed out does
not arrive after the `safe_idle()` that follows it.

### PositionHold

A step is a tick, from the end of the one before, and the tick is told apart by
the one transaction it makes: none (`TickQuiet`), a feedback request that is
answered (`TickFeedback`) or not (`TickMiss`), a health query that is answered
(`TickHealth`) or not (`TickUnanswered`).  The request blocks the tick and so
moves the next.  `Ends` are the faults that end the mode, `Feeds` is
`commandODriveCenter()`, which feeds only when its own 20 ms have passed and the
tick got that far.  The feed follows the tick's own transaction, so `Reaches` keeps what
the drive's watchdog had run to by then (`gap`), and the troubles since the feed before
(`met`), also in the tick that feeds.  The periods, windows and limits are those of `config.hpp`;
`Quick` and `Slow` are what a reply takes.  A lost sample counts as a read
failure.  What the SPI reads and telemetry take is not counted, and a mode is
taken to start with a deadline count of 0 (the code does not reset it, which is
`Supervisor`'s `misses`).

### BrowserDeadman

An event handler of the page runs to its first `await`; a queued write carries what
comes after it (`then`): the start that awaits its hold, the look at whether the
start went out, the rest of `disconnect()`.  `Written` and `Rejected` resolve the
oldest write.  The operator's key and focus, the cable and the tab's process are
free.  The Teensy's end is the dead-man's line handling, its age in heartbeat
periods, and the beginning of a line that a pulled cable left in the command
buffer (`cut`), which swallows the line after it.

| Variable | Code |
|---|---|
| `spaceHeld`, `heartbeat`, `startSent` | `state.spaceHeld`, `state.deadmanTimer`, `tuneStartSentForHold` and its twin |
| `focused`, `connected`, `shown` | `document.hasFocus()` and not hidden, `state.connected`, the last telemetry |
| `writes`, `lines` | writes of `send()` not yet resolved; lines between port and `readConsole()` |
| `teensy` | mode, `browser_deadman_held`, its age, `command_buffer` |

The two start buttons run the same code and are one.  The TEST mode, arming and
the setting buttons are left out.

### Encoder

The encoder is a ring of `Turn` counts and a step is a tick, with as many frames
of its transactions corrupted as the line is allowed.  `Transaction` is
`readRegister()`: the answer comes with the next frame, the sensor keeps its
error flag until it is cleared, and the clearing may fail.  `Believable` is the
envelope test on the way and the time since the last accepted sample, `Reject`
and `Accept` what each outcome changes.  `Twists` are wrong counts with good
parity.  The velocities are left open.  `sound` is history: the accepted
count was true, and no zero was taken on an old one (`zeroSystem()` does not look
at its age).

### UartLink

`owed` are the replies nobody has read, `Request` is `request()`: it drains what has
come, reads line by line what fits, and ends with the first that does.  Replies
carry no number and no name, so a late reply of the right shape is taken.  How
late a reply is, whether draining cuts it and whether it is damaged are left
open; a damaged line is taken to fail its checksum.

### SwingLaw

The law in whole numbers: eighths of a turn, 0.22 rad of the arm, 0.05 N m.
`TravelAware` is the energy term faded by `OutwardScale`, less damping and
centering; `SwingDemand` puts the nudge before it and the operator's limit behind
it, `Slewed` the slew limit, which is credited 5 or 25 ms (the clamp of the
elapsed time).  The motion follows the rates or lags behind; there is no
dynamics.  BALANCE is any demand in its clamp, since its gains are not the subject.

### LegacyCan

The CAN callbacks, the commands, the tick and a reset are a step each, as in
the one thread of `loop()`; time is in ticks.  Frames to the drive queue up,
arrive or are lost.  The drive has no watchdog, since the code sets none.  The pose is
left open.  `stopsLost` counts the frames of the last stop that were lost; a
reset sends no stop at all, which counts as both lost.

### MCParts

The six share no state, and neither do their properties.  Run by run they would
ask six times for the same thing, a small instance explored completely; `MCParts` lets
TLC pick one of them at the start (`part`) and move only that, so that its state
space is the sum of the six and not their product.  It composes nothing: what
connects the page and the supervisor is in both modules as the dead-man's age,
and the supervisor's is free.

## 3. Runs

Every run checks deadlock: no program may get stuck.

| Run | Shows |
|---|---|
| `torque` | `TorqueEnvelope`, `GuardedExactly`, `BalanceComesDown`, and `KeepsGate`: the supervisor implements `MotorGate` |
| `faults` | `TypeOK`, `TrialHasReference`, `WatchdogBackstop`, `ZeroLostOnEvidence` under lost replies, drive errors, failed writes and failed arming |
| `sensors` | `FreshCommands`, `ZeroLostOnEvidence` under encoder failures and lost feedback |
| `live` | `TrialsEnd`, `StaleDeadmanEnds` under SPI errors and outliers |
| `drive_link` | `VerifiedTrial`, `OneLossStops`, `TorqueKeepsWatchdog`, `TrialStartsStill`, `AxisErrorIsFound`, `TypeOK` |
| `pi` | `AxisWatched`, `OneFailureStops`, `OffStops`, `StopEnds`, `TypeOK`, and `KeepsGate`: the Pi program implements `MotorGate` |
| `parts`, page | `SpaceDecides`, `UnattendedTrialEnds` |
| `parts`, encoder | `CorruptionCostsOneRead`, `NoLockout`, `IsolatedOutlierIgnored`, `SteersOnCurrentZero` |
| `parts`, position hold | `HoldOutlastsTrouble`, `OwnWaitsNotLate`, `HoldSurvives` |
| `parts`, UART | `LateLinesCostNoFeedback`, `MixUpEnds` |
| `parts`, torque law | `GuardTakesOver` |
| `parts`, legacy | `OneFrameStops`, `LegacyTroubleEnds` |
| `parts`, all | `PartsTypeOK` |
| `clamp`, `stale`, `hold_loss`, `fallback`, `centering` | five statements of comments and documents that the code does not keep; see section 5 |

**Bounds.** Torques: tuning 1, balance 2, swing 4, with slews 1 and 2 and
demands up to 5 either way: a catch happens above the balance clamp, a drop
below it, and the slew limit acts in both.  `UserLimits = {1, 4}` puts the
operator's limit on either side of the balance clamp.  Times are one to three
periods.  They keep the order of the real ones that the properties depend on
(the torque-mode feedback limit below the position-mode one; a dead-man timeout
that a trial can outlive; time limits that a trial reaches; a settle hold short
of its limit, so the hand-over happens) and `AgeCap` lies above their sum.  `RecoverTime` is 3 where outliers may happen
(`torque`, `live`, `clamp`), longer than the two outliers that end a trial.  The
counts have their real limits (3, 2, 2, 3, and 3 or 2).  The poses are one of
each kind the comparisons tell apart where a run needs them; `faults`,
`sensors` and `live` take two, hanging and upright, since their subject is what
is measured and not where the pendulum is.  In `drive_link` one message of each
sequence may be lost (a second only in `fallback`), and three unfed waits expire
the watchdog.  In `pi` four lines are typed in all: zero and
arm in two processes, so an axis left in closed loop by a kill is armed again, or
zero, arm and two more lines in one.  Signals, kills and restarts are not bounded.
Two lines wait at a time, so a quit and an arm can be queued together, and one
unfed wait lets the watchdog expire.

In `parts`: the page may have three lines queued (a hold, a start and the release that
comes between their writes) and a dead-man of two heartbeat periods.  The
encoder has 13 counts, whose envelope is that of the code at 5 ms, rounded down
to hundredths of a count (`Envelope`): at the bottom it passes what at the top it
refuses, and half a turn takes six ticks of the slowest.  Two corrupted frames reach a
failed read and a failed clearing; one twisted count is what `IsolatedOutlierIgnored`
is about.  Replies take 3 or 5.5 ms, with which two troubles put a
feed of the position hold past the watchdog's 50 ms (at 50.5): the run tells one trouble from
two.  With three the mode need not end before the watchdog expires, so `hold_loss` has
five.  The proof has every reply time and is tight: 4.5 and 5.5 ms bring the feed at 52 ms.
Two replies may be owed, which is one more than the mix-up needs.  The torque law
has the real guards, clamps and slews in its units, the largest settings
and the default ones, a nudge of one tick instead of 36, and an arm that is
followed to 1.3 rad, beyond the guard and short of the 2.4 rad that end a trial.  On the legacy bus five frames fit, an
arming with a stop behind it.

**Fairness.** `Supervisor!FairSpec` has `WF_vars(Tick)`: `loop()` never ends and
no command blocks for ever, so a tick always comes.  Nothing is assumed about the
operator, the browser or the sensors.  `live` admits failed reads and outliers, which
reset each other's counts but cannot take turns for ever, since the envelope grows
until no sample is an outlier.  With lost replies and failed samples, which can,
`StaleDeadmanEnds` is false: that is run `stale`.  `DriveLink!FairSpec` has weak fairness of the sequence being run
(straight-line code with timeouts), of the periodic health poll, and of the
expiry of a watchdog that is due (the drive's clock).  It has none of a tick that
decides, which the turns of run `stale` put off for ever: `AxisErrorIsFound` promises
that the trial ends or the error stays where every tick that decides finds it.  `PiController!FairSpec` has
weak fairness of the program (every await has a timeout, and the task is the
only one) and of the drive's clock; nobody has to type, kill or restart.
`StopEnds` holds because typing ends: `run()` empties its queue before it looks at
the stop request, so lines that came faster than they are executed would put
the stop off.  `PartsFairness` has weak fairness of the Teensy's loop in
`BrowserDeadman` (a line is executed, the dead-man ages, a tick looks at it), of the
legacy bus and of the legacy tick.  Nothing is assumed of the page: it may stop
sending at any moment, and that is what `UnattendedTrialEnds` is about.

**Mutants.** Each property has one faulty variant of a definition
(commented *A faulty variant*) under which it fails in its own run: a clamp
taken from another mode, a check dropped, a flag not reset, a feed on the wrong
path, the stop in another order.

## 4. Proofs

Every state invariant that a passing run checks is also a theorem, for all values of
the constants that satisfy the module's named assumption; so is every action property
(`BalanceComesDown`, `FreshCommands`, `ZeroLostOnEvidence`, `TorqueKeepsWatchdog`,
`TrialStartsStill`), and so are the two refinements of `MotorGate`, by the supervisor and by the
Pi program.  Each module of proofs has the same shape: an inductive invariant, lemmas
about the operators, one lemma per action, and theorems that follow from the
invariant.  The invariants stand in the proof modules; TLC can be given them too, as
invariants of a run whose module extends the proof module.

| Module | Theorem | States |
|---|---|---|
| `SupervisorProofs` | `TypeCorrect`, `TorqueSafe`, `ReferenceHeld`, `GuardComplete`, `BackstopHolds` | `Spec => []TypeOK`, `[]TorqueEnvelope`, `[]TrialHasReference`, `[]GuardedExactly`, `[]WatchdogBackstop` |
| | `BalanceDescends`, `CommandsFresh`, `ZeroKept` | `Spec => BalanceComesDown`, `FreshCommands`, `ZeroLostOnEvidence` |
| | `GateKept` | `Spec => KeepsGate`: the supervisor implements `MotorGate` |
| `DriveLinkProofs` | `LinkTyped`, `TrialVerified`, `LossTolerated` | `Spec => []TypeOK`, `[]VerifiedTrial`, `[]OneLossStops`, however many messages are lost |
| | `WatchdogKept` | `MaxLost <= 1 /\ Spec => TorqueKeepsWatchdog` |
| | `StartsStill` | `Spec => TrialStartsStill`, however many messages are lost |
| `PiProofs` | `PiTyped`, `Watched`, `FailureTolerated` | `Spec => []TypeOK`, `[]AxisWatched`, `[]OneFailureStops` |
| | `GateKept` | `Spec => KeepsGate`: the Pi program implements `MotorGate` |
| `ControlProofs` | `OneReadLost`, `NeverLockedOut`, `CurrentZeroSteers` | `EncoderSpec => []CorruptionCostsOneRead`, `[]NoLockout`, `[]SteersOnCurrentZero` |
| | `OutlierIgnored` | `CountATick /\ EncoderSpec => []IsolatedOutlierIgnored` |
| | `GuardHolds` | `SwingSpec => []GuardTakesOver` |
| `HoldProofs` | `HoldTyped`, `HoldOutlasts`, `OwnWaitsForgiven`, `HoldEndsForCause` | `HoldSpec => []HoldTypeOK`, `[]HoldOutlastsTrouble`, `[]OwnWaitsNotLate`, `[]HoldSurvives` |
| `BusProofs` | `FeedbackAnswered`, `AnswersAreOwn` | `UartSpec => []LateLinesCostNoFeedback`, `[]MixUpEnds` |
| `BusProofs` | `OneFrameEnough` | `LegacySpec => []OneFrameStops` |
| `PageProofs` | `PageTyped`, `SpaceDecided` | `PageSpec => []PageTypeOK`, `[]SpaceDecides` |
| `PartsProofs` | `EachAsAlone` | `PartsSpec` implies the specification of each of its six components |
| | `PartsTyped` | `PartsSpec => []PartsTypeOK` |
| | `PromisesKept` | `CountATick /\ PartsSpec =>` every other state invariant of run `parts` |

**Assumptions.** `Supervisor`: types, the order of the torque limits that
`config.hpp` asserts statically, ages below `AgeCap`, and a feedback limit of the
torque modes (15 ms) no longer than that of the position modes (35 ms).
`PositionHold`: a reply comes within its window, 4.5 ms when quick and 9 ms when
slow.  `Encoder`: the envelope covers half a turn in `RecoverTicks`;
`OutlierIgnored`, and `PromisesKept` through it, also need an envelope that allows a count a tick
(`CountATick`; the least of the code's is 1.07).  `SwingLaw`: the default settings and
the limits are not negative; what the operator sends may be.  `WatchdogKept` has the
hypothesis that a sequence loses one message at most, without which it is false:
that is run `fallback`.

**Why the invariants are what they are.**

* `IInv` (supervisor).  `CountsBelowLimits`: while a trial runs its counts are below
  the limits of its mode, or the next increment would leave the type.
  `FaultExplained`: a fault is recorded exactly in `FAULT`, which is why a start
  from an idle mode begins without one.  `DeadmanBehindFeed`: in a trial
  `holdAge <= sinceFeed + HoldTimeout + MaxBlock`.  `WatchdogBackstop` alone is not
  inductive: a tick that returns early lets both ages grow.  What is invariant
  is their distance: it is set at every feed, which follows a dead-man check in
  the same tick or an arming sequence after one, and afterwards both ages run
  together.  The action properties and the refinement need a step and `IInv`
  before it; `Sensed` collects what the measuring half of a tick establishes.
* `LinkInv` (drive sequences).  `SeenInv` says for each position of each sequence
  which read-backs are behind it and what they have proved about the axis, unless it
  has failed since or a mismatch was noted.  A write between a read-back and the
  end of the sequence would break it, which is what the order of the code avoids.
  `StopInv` counts the losses of a stop against its position.
* `StillInv` (the same).  `TrialStartsStill` looks at the axis when a sequence ends, and
  a stop whose zero was lost may have left a torque there at any time before.  Every
  zero of an arming covers for those before it that were lost, so a torque that
  stands behind the n-th has cost n losses.  A hand-over counts none: the axis
  leaves position control by a torque command, and the control mode
  that is read back proves that it has, with a zero.
* `PiInv`.  What is left of a drive call is a tail of arming or of a stop
  (`CallInv`), and each tail says what the axis must already be (`OrderInv`,
  `StopInv`).  The refinement adds `HandInv`: what arms is DISARMED, and from the
  set-up to the first torque write of the trial no torque stands on the axis, whatever a kill
  or a failed stop had left there.
* `EncoderInv` and `TruthInv`.  Rejections do not outnumber the ticks since the
  accepted sample, which is the whole of `NoLockout`; that an accepted count that was
  true is as near to the pendulum as it can have moved makes
  `IsolatedOutlierIgnored` inductive.  The ring of counts needs the triangle
  inequality of its distance.
* `HoldInv`.  `HoldOutlastsTrouble` is about the moment a feed reaches the drive, after
  the transaction of its tick (`Reached`), and says nothing of three troubles, of the
  health query, or of how late a tick is, all of which decide that moment.
  `FeedDelay` bounds the delay of a feed that is due by the troubles so far and by one
  health query; `PollDelay` does so for the feedback, whose age must stay below
  35 ms for a tick to feed at all; `PollPhase` says where in the 5 ms schedule a
  request that is not due yet stands, which keeps a query and a late tick from
  adding up.  `CountInv` has what the counters and the deadline need: a missed request
  stays due, and a tick that is late by a period is not followed by another.
* `PageInv`.  What is under way is one sequence of words, of which an action takes the
  first or adds one.  The release of Space ends hold and trial unless it is the word
  that is lost on the rest of a cut line, so the invariant says that such a rest meets
  a stale dead-man and no trial: a page connects to nothing else.  The heartbeat runs
  exactly while Space is held.  The room a handler needs counts the starts that wait
  for their hold, since each will queue another write.
* `UartInv`, `LegacyInv`, `SwingInv`: what a reply in time leaves under way, what
  stands at the end of the bus after a stop, and how much torque the slew
  limit can have left, each after how long.

**Only model-checked.** Liveness (`TrialsEnd`, `StaleDeadmanEnds`, `AxisErrorIsFound`,
`OffStops`, `StopEnds`, `UnattendedTrialEnds`, `LegacyTroubleEnds`) is out of the
prover's reach.  Nothing else is left to TLC alone.

## 5. What the code does otherwise than its comments and documents say

* **Balance clamp** (`clamp`): the slew limit of `main.cpp:801-803` comes after
  the clamp and starts from the swing command, so the first commands in BALANCE
  exceed the balance clamp.  `BalanceComesDown` is what does hold.
* **Stale dead-man** (`stale`): a tick that lost its reply (`main.cpp:661`) or its sample
  (`647-656`) returns before the dead-man is looked at.  An answered request resets the
  feedback count and an accepted sample the encoder count, so a lost reply with a good
  sample and an answered request with a failed sample take turns for ever, and the
  health query every 200 ms fits in with a failed sample.  The drive's watchdog is
  then the only stop, and nothing in the trial's own bookkeeping ends it.
* **Health fault without feedback** (`hold_loss`): `main.cpp:556-558` keeps the zero
  on a third unanswered health query because feedback between the attempts has
  proved the reference.  Queries and feedback requests take turns on the link; when it
  dies as a query falls due, both requests in between are missed and the third
  query comes before the third miss.  `HoldSurvives` is what does hold.
* **Watchdog as fallback** (`fallback`): when the stop of a trial loses the zero torque
  and IDLE and its third message arrives, it takes the running watchdog from a motor
  that still turns.
* **Temporary centering limits** (`centering`): a tuning trial after an aborted
  centering keeps 0.5 turn/s and 0.167.

Met on the way, and not the subject of a run:

* A stale dead-man found in the tick of a corrupt magnet preserves the zero, since the
  first trouble decides (`ZeroLostOnEvidence` admits it).
* `README.md:142` and `config.hpp:348-349` have feedback loss fault the
  position hold before the watchdog does.  When a health query takes the tick of the
  feed and two requests are missed, the next feed may come 0.5 to 2 ms after the
  watchdog has expired, and with three the mode may end that late.  The watchdog
  stops the motor, and the next health poll finds its error.
* `README.md:143` has every SPI or parity failure take three strikes to cost the zero.
  One failed read of the diagnostics (`main.cpp:542-545`) makes the encoder unhealthy,
  which faults in the same tick and invalidates the zero; `ZeroLostOnEvidence` takes
  that read for evidence.
* A trial may start on a pose measured before the last zero; the next tick measures
  again before it commands (`SteersOnCurrentZero`).
* After `disconnect()` queued a release, the heartbeat still runs until the
  release is written and may queue a hold behind it; the dead-man ends what comes of it.
* The comment at `main.cpp:83-85` has replies of the wrong type ignored.  A
  late feedback line that arrives during a property query is not: the query fails
  on it, and is retried.
* When the zero of a stop and the first zero of the next arming are both lost, the
  loop is closed on the standing torque until the arming's second zero, before the
  trial starts (`TrialStartsStill` is about its start).
* The legacy `setup()` sends no stop to a drive that was left running by a reset.

## 6. Plan

In order of importance; all modules are written.

1. `MotorGate`, `Supervisor`, `SupervisorProofs`: runs and theorems above.
2. `DriveLink`, `PiController`: runs above.
3. `BrowserDeadman`, `PositionHold`, `Encoder`, `UartLink`, `LegacyCan`, `SwingLaw`: run
   `parts`.
4. Left of the control math: the balance law and the gain checks as operators
   against reference definitions, worth little until there is a plant to run
   them on.

Every invariant, action property and refinement that a run checks is proved (section 4).

## 7. Not modelled

* The plant: where the pendulum goes is free everywhere, so nothing is said of
  stability, of catching, or of how long a swing-up takes.
* The balance law and its gain checks, the velocity filters, the travel projection,
  and the velocity allowance of the drive; `Supervisor` takes any demand.
* The value of `watchdog_timeout`, which is written and not read back: what the
  drive does with another one is not in the code.
* The wrap of the 32-bit clocks after 49 days (71 minutes in microseconds); ages are unsigned
  differences, so only a stamp older than the wrap would show.
* The console: line length, `gains`, `status`, `help`, telemetry; of the page its
  rendering, the setting buttons, zero, test and clear.
* GPIO, SPI and TOML access on the Pi, its status, help and telemetry lines.
* The bench sketches (reader and UART probe) move no motor and keep no state that
  another part reads; the gain design and the page servers run offline.
