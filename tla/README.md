# Verification of vscpl2drv-automation

TLA+ models of the VSCP level II driver *automation*, the TLC runs that check
them on small instances, and proofs of their main properties checked by TLAPS.
The models are read off the code in `common/automation.cpp`,
`common/automation.h` and `linux/vscpl2drv-automation.cpp` (all paths below are
relative to the root of the repository). `PROJECT.json` lists for every
definition the lines it stands for.

## 1. The system

The driver is a shared library that the VSCP daemon loads. The daemon opens it
once for each configured driver, writes events to it and reads events from it.
What the driver produces is a handful of events a day: sunrise, sunset, the two
civil twilights, calculated noon, and "new calculation".

| Component | State | Operations | Threads |
|---|---|---|---|
| Driver objects and handles (`linux/vscpl2drv-automation.cpp`) | `g_ifMap`, `g_mapMutex`, the life of each `CAutomation` object | `_init`, `VSCPOpen`, `VSCPClose`, `getDriverObject`, `addDriverObject`, `removeDriverObject`, `_fini` | the daemon's |
| Receive path | `m_receiveList`, `m_semReceiveQueue`, `m_mutexReceiveQueue` | `eventExToReceiveQueue` (produces), `VSCPRead` (consumes) | worker; the daemon's |
| Send path and worker thread | `m_sendList`, `m_semSendQueue`, `m_mutexSendQueue`, `m_bQuit`, `m_threadWork` | `VSCPWrite`/`addEvent2SendQueue` (produce), `workerThread` (consumes), `open`, `close`, the destructor | the daemon's; worker |
| Day schedule | five due times, five sent times (never read), `m_bCalulationHasBeenDone`, `m_lastCalculation` | the constructor, `doCalc`, `doWork` | `VSCPOpen`'s thread; worker |
| Configuration | `m_bDebug`, `m_bWrite`, place, the enable flags | `doLoadConfig` (`doSaveConfig` does nothing) | `VSCPOpen`'s thread |
| Almanac arithmetic | the file statics `L`, `g`, `daylen`, `degs`, `rads` | `FNday`, `FNrange`, `f0`, `f1`, `FNsun`, `convert2HourMinute` | whoever calculates |
| HLO commands | none left | `parseHLO`, `handleHLO`: bodies commented out, return true | worker |

How they interact. `VSCPOpen` builds an object (the constructor makes the first
calculation), loads its configuration, starts its worker thread and enters the
object into the map. The worker loops: `doWork` (at most one event goes to the
receive list), wait up to a second for the send semaphore, take one event from
the send list if its size is not zero. `VSCPRead` waits for the receive
semaphore and pops. `VSCPClose` sets `m_bQuit`, joins the worker, and deletes
the object under the map's mutex; `_fini` does the same for whatever is still
in the map.

What is hard here: the two lists are protected in two different ways (the
receive list by a semaphore that counts it exactly; the send list by an
*unlocked* `size()` and a semaphore that does not); `m_bQuit` has two writers
and two meanings; the map is read without its mutex; the schedule reads the
clock several times in one round, and midnight may pass, or the clock be set,
between any two reads; one round sends one event although several may be due, and
ends inside the receive queue; the equation of time is the difference of two
angles that turn over on different days; its inputs are file statics that every
driver object writes. These are the hazards
of `PROJECT.json`, and the properties below are aimed at them.

What makes each component correct:

* handles: an open handle stands for its object; nothing is used after it was
  deleted; nothing is lost; `_fini` leaves nothing behind; every call returns.
* receive path: first-in first-out, each event to one reader, no `front()` on an
  empty list, no event left on the list without a unit of the semaphore.
* send path: the same safety, plus: the worker always comes back to `doWork`,
  obeys `m_bQuit`, and has ended when `close()` returns.
* schedule: each kind of event exactly once on each day, at that day's own time;
  one calculation a day, never more than 24 hours ago; a clock that is set disturbs
  no day but those it was set to, from or past.
* schedule and receive path together: whatever is sent reaches the daemon once,
  the announcement of a calculation before the events calculated with it.
* configuration: a bad key spoils no other key, and each flag is that of its own
  key; a file written after the documentation means what the documentation says
  (which is not so).
* almanac: the day count advances by the time that passes; due times are what a
  clock shows; the length of the day agrees with them.

## 2. Modules

```
EventChannel            what the receive path promises (abstract)
ReceiveQueue            the receive path; implements EventChannel
  MCReceiveQueue          its instance for TLC
  ReceiveQueueProofs      its invariants and the refinement, proved
SendQueue               the send path, the worker thread, close()
  MCSendQueue             its instance for TLC
  SendQueueProofs         its invariants, proved
DayEvents               the constructor's calculation, doWork, doCalc
  MCDayEvents             its instance for TLC
  DayEventsProofs         its invariants, proved
DriverTable             objects, handles, VSCPOpen/VSCPClose/_fini
  MCDriverTable           its instance for TLC
  DriverTableProofs       its invariants, proved
Configuration           open and doLoadConfig
  MCConfiguration         its instance for TLC
  ConfigurationProofs     its invariants, proved
DayNumber               FNday over the calendar
  MCDayNumber             its instance for TLC
  DayNumberProofs         FNday counts the hours, proved
SunTimes                doCalc, FNrange, L, f0, f1, convert2HourMinute
  MCSunTimes              its instance for TLC
  SunTimesProofs          due times are clock times, the length of the day, proved
SunEvents               DayEvents and ReceiveQueue composed
  MCSunEvents             its instance for TLC
  SunEventsProofs         both parts carried over, its own invariants, proved
```

ReceiveQueue instantiates EventChannel, and SunEvents composes DayEvents and
ReceiveQueue. The others meet through what one assumes of another and the other
shows: DriverTable's worker ends once `m_bQuit` is set because
`SendQueue!QuitIsObeyed` holds; SendQueue's `DoWork` is the whole of DayEvents' round.
That a due time is a minute of the day is an assumption of DayEvents (`Almanac`):
`SunTimes!ClockTimes` gives it where no moment lies before midnight, and
`suntimes_before` shows that the code does not always do so. A due time with a
negative hour or minute is outside DayEvents.

A property's mutant is defined next to the definition it alters (`Mutant of X`):
a plausible slip in that code under which TLC finds the property violated. The
mutants are not part of any specification.

### ReceiveQueue and EventChannel

Threads are a function `pc` from thread to step; there is one step for each
access another thread can observe: `sem_wait`, `sem_post`, taking and releasing
the mutex, and the list operation. The semaphore is its count. A timed-out wait
is possible exactly when the count is zero; an error (`EINTR`, `EINVAL`,
`EAGAIN`, or an error without `errno`) is possible at any time and takes no unit.
`front()` of an empty list is undefined behaviour; the model offers no step there,
and `FrontNeverEmpty` shows that no reader ever gets there. Events are model
values; `m_vscpfilter` is the set `Accepted`; a failing conversion is possible
for every event.

`EventChannel` says the same without list, semaphore and mutex: a queue, readers
that ask, claim and receive. The refinement mapping hides the event that has been
pushed but not yet posted; `sem_wait` is the claim, `pop_front` the delivery.

### SendQueue

One driver object from the start of its worker to the return of `close()`. The
worker reads `m_sendList.size()` without the mutex: `ObservedSizes` allows it the
length before or after a push that is in progress. After a timed-out wait the
worker still takes an event and does not take a unit, so units may be left over;
the property is that they are never too few (`WakeupsCoverQueue`). A NULL event
pointer is an event like others, as `VSCPWrite` does not refuse it. `doWork`
leaves this module's state alone and is one step, and so is everything that
happens to an event in the worker's hand, since the HLO handling is empty.
`pushed` and `finished` are history variables for the conservation property, and
`interrupted` tells whether a signal has ever interrupted a wait of the worker.

### DayEvents

A date is a day number and a minute of the day. `Almanac` is the set of the
results a calculation may have: a minute for each kind of event. Every
calculation chooses a member, so consecutive days may differ in any way. The
worker's round is split at its clock reads: `now` is captured, then the hour is
read for the calculation, then for the flag; the clock may tick before each.
The due kinds are compared with the captured `now` in the order of the code, and
a round ends with the first that is due. `+= SPAN24` moves a due time by
`SpanDays` days: the properties hold for every positive number, whatever
unit `vscpdatetime` (outside the repository) gives to the operator, because
the calculation of the next day overwrites it. The initial states are those after
the constructor, which may itself meet midnight between two due times.
`TickOverMidnight` is a clock that goes from 23:59 to 01:00, as it does where
daylight saving time begins at midnight; the history `skippedDays` keeps the days
that had no hour 0, which are excepted from what is promised for a day.
The clock is also set, at any moment, whatever the worker is doing. `SetClock` are
the settings that leave the day as it was: forward and back in the hours after the
first, back within hour 0; the history `missed` keeps what was due in minutes that
the clock was set over, and nothing else is promised away. `ResetClock` are all
others: into hour 0, out of it, back over midnight, to another day. On the days that
such a setting goes to, from or past (the history `resetDays`) `doWork` calculates,
announces and sends again what falls into hour 0 or is due again, and misses what was
set over; a time server's correction by seconds around midnight is enough. That
is against "once a day" (`automation.cpp:1687`) and "once every twenty four hours"
(`README.md:9`), and `NeverTwice`, `EveryDay`, `FreshCalculation`,
`OneCalculationPerDay` and `CalculatedUnlessSkipped` except exactly these days: what
they show is that the days after are in order again. A clock is not set to before the
day of `open()`, nor in the middle of `doCalc`, which is one step in the worker.
The event that a round sends is an entry of the history `firedDays` here; its way
to the daemon is the subject of SunEvents. The members `m_..._sent` are written
and never read, and are left out.

### SunEvents

The two modules share the worker. A round that sends something is one step of
both: of DayEvents, where the round ends, and of ReceiveQueue, where the worker
enters `eventExToReceiveQueue`; `doWork` returns what that call returns, so the
next round begins only when the worker is out of the queue (the guard of `Think`).
The clock ticks (here it is never set), and the reader takes every step of `VSCPRead`, in between. An
event is a kind and a day, `NEW_CALCULATION` a kind of its own. `delivered` and
`dropped` are histories. `OnePlaceEach` says that what was sent is on the list, in
the hands of one thread, delivered or dropped; `CalculationFirst` that the daemon
hears of a calculation first and of no day after the next; `EveryDayDelivered` that
every event of every day arrives, unless its conversion fails, the filter rejects
it, or the day has no hour 0. There is one reader, as the daemon has one receive
thread per driver: with two, the order of `VSCPRead`'s returns is not the order of
the list (EventChannel says what is then still true). `MaxQueue` makes the worker
wait for the reader when the list is full; the code's list has no bound.

### DriverTable

The map is a function from indices to objects; a handle is an index plus 1681.
An object's memory is used again once it is deleted, so that opens and closes go
on for ever on a small set of objects; an index is used again as well.
`close()` is called from three places (`VSCPClose`, the destructor, `_fini`) and
is modelled once, with the caller in `frame`. `m_bQuit`, the worker's state and
the object's life are per object. A lookup without the mutex that overlaps an
insertion or an erase is a data race, hence undefined behaviour, even with two
entries: the model lets it miss the entry (as a rotation of the tree makes likely in
a larger map, by hiding a node for a moment) or end the process. If `pthread_create`
fails, the object's destructor joins a thread that was never created: the join
fails or the process ends. What the daemon does is external, and is stated in
the module: calls on one handle may overlap, but a handle is closed once, when no
other call on it is under way, and the library is unloaded when no call is.

### Configuration

Parsing succeeds or fails, then the ten keys are looked up in the order of the
code: a key that is missing or of the wrong type leaves its member alone, one
whose conversion throws does too, any other is assigned. `Target` is the member
that the code assigns, which for `write-enable`, `zone` and `subzone` is
`m_bDebug` too. `zone` and `subzone` pass their test only as numbers, and then
always throw; so `write-enable`, or else `debug-enable`, decides about debug output,
and the other settings have no effect. A value is a boolean, a number, or a string,
which fails both tests. A file may have the keys of the events as the code spells
them (`sunrise-enable`) and as the documentation does (`enable-sunrise`); the latter
are never read. `MembersAsConfigured` says of every member what a file makes of it.

### DayNumber

A date walks through the calendar, `HourStep` hours at a time, and `FNday` is
applied to it with C++'s truncating division. The result is kept in hours, which
makes `luku - 730531.5 + h / 24` an integer; a calculation is made on a full
hour. The comment of `FNday` says that this hour is UT; `doCalc` passes the local one,
so noon in the count is noon by the local clock. `DaysToJ2000` compares it with a count of days by the rules of the calendar,
`DaysAdvance` with the time that has passed. `FNday` is said to work for 1901 to
2099, and these are the years of the model.

### SunTimes

Angles and times are integers with 86400 to a turn and to a day. What the model
computes as the code does: `FNrange`, the static `L` (read twice by `doCalc`, and
between the reads perhaps overwritten by another driver object that calculates
at the same moment: `drift`), the right ascension as `atan2` returns it, the
branch `if (L < pi)` and the equation of time, the clamp, `asin` and quarter turn
of `f0` and `f1`, the sums and differences, the wrap above 24 hours (which noon
does not get), the truncations and remainders of `convert2HourMinute`, and the
length of the day by its own formula. What it takes from a set (`Skies`): the mean
longitude before `FNrange`, the difference between right ascension and mean
longitude, the two products of tangents, zone and place. `Asin` is any monotone
table. `ClockTimes` compares each due time with the clock's at the exact moment.

Three things are excepted, each by name: `NoneBefore` (no moment before midnight,
the subject of `suntimes_before`); `NotLapped` (the mean longitude does not turn over,
which it does once a year, between the two reads of `L` by two objects); and, in
`SunTimesAssumption`, a right ascension that passes half a turn before the mean
longitude: in September the sun is behind it. In these September days the code's
equation of time is a whole day too large, and the wrap and the remainder put
the due times right, which `ClockTimes` shows and a reader of the code would doubt.
`pi` in the code has six digits and `atan2` does not; that difference is below a
second and left out.

## 3. Runs

| Run | Question | Bounds | Result |
|---|---|---|---|
| `receive` | Does the semaphore count the receive list, and is the whole a channel? | 2 readers, 2 accepted events and a rejected one, list of 3 | pass |
| `send` | Is the unlocked `size()` safe, are events conserved, does the worker keep working and obey, has it ended when `close()` returns without a signal? | 2 writers, 3 writes, NULL among the events, signals | pass |
| `send_signals` | Has the worker ended when `close()` returns, signal or not? | the same | **violated** |
| `day` | Each kind once a day, at that day's time, one calculation a day; does a skipped hour 0, or a clock that is set, disturb other days? | day of 4 minutes, hour 0 of 2, 3 midnights, 3 almanac days, one event under a clock set forward, any number of settings within a day, one to any time of the first two days | pass |
| `driver` | Handles, lifetimes, nothing lost, `_fini`; does every call return? | 2 threads, 2 objects used again, signals | pass |
| `driver_lookup` | Is a call with an open handle never refused? | 2 threads, 2 objects | **violated** |
| `config` | What is each member, whatever keys are bad? | 3 keys present, of either spelling, values of any type, the rest absent | pass |
| `config_documented` | Does a file written after the documentation do what it says? | a place and every choice of disabled events | **violated** |
| `daynumber` | Does `FNday` count days? | every year from 1901 to 2099, steps of 12 hours | pass |
| `suntimes` | Are due times clock times, does the length of the day agree? | seasons around the turns of `L` and `atan2`, hour angles and offsets around each boundary, no moment before midnight | pass |
| `suntimes_before` | Also for a moment before midnight? | the same, all offsets | **violated** |
| `sun_events` | Does each event of each day reach the daemon, once and in order? | day of 2 minutes, 2 midnights, list of 2, one failed conversion, a rejected kind | pass |

Why the bounds are enough. Two readers (writers) already give every pairwise
race for a semaphore, a mutex and a list; the worker is the only producer
(consumer). Three list entries let the queue be longer than the number of
readers. Three writes by two writers fill the list while the worker is stalled at
each of its steps. In the schedule, three midnights give a day of `open()`, two whole
days and a new one; the almanac puts all five kinds into the first minute of
the day (the minute of the calculation), all into the last, and spreads them
over an ordinary day with a twilight after midnight and a sunset in the last minute. Any
of the midnights may be one without an hour 0, also two in a row. One event lost
to a clock set forward is enough to see that nothing else is lost with it
(`MaxMissed`). One setting into hour 0, out of it or over midnight (`MaxResets`,
`MaxResetDay`) can be made anywhere in a round of the first two days, and at least one
day after it is whole. Four minutes are the least with two in hour 0 and two after it. `sun_events` puts four events and the calculation into one minute, so
that the list is at its bound while the reader is anywhere in a call, and one event
into the minute before midnight. Two objects suffice for
an index to be given back and used again beside another open driver, since their
memory is used again. Three keys in a file show every interference of one key
with another, and with one that throws. `daynumber` is the whole range for which
the code claims to work; the skies of `suntimes` lie just below and just above
each turn of an angle and each boundary of a minute, an hour and a day.
The proofs remove these bounds for every safety property of the passing runs.

What the violated runs show:

* `send_signals`: the worker sets `m_bQuit` itself when its wait is interrupted;
  `close()` then returns without a join ("Do nothing if already terminated"), while the
  worker is still in its loop, and the destructor proceeds.
* `driver_lookup`: the map has a mutex, and `getDriverObject` does not take it.
* `config_documented`, at the end of one trace, twice: `longitude` and `latitude` are
  tested to be numbers and then fetched as booleans, which throws, so that the place of
  the constructor stays; and `enable-sunrise`, which the documentation and the sample
  file give as the key that disables an event, is not the key that the code reads,
  so that every event stays enabled.
* `suntimes_before`: `doCalc` wraps times above 24 hours and none below 0, and
  `convert2HourMinute` takes remainders of negative numbers: an hour or a minute
  below zero. At the constructor's place that takes a twilight that lasts
  all night and a clock west of the place's own time, UTC for one.

Other disagreements with the documentation are seen in the code without a run of
their own:

* `automation.cpp:1687` says "once a day" and `README.md:9` "calculated once every
  twenty four hours"; a clock that is set back into hour 0 or over midnight makes
  `doWork` calculate, announce and send again (see DayEvents), and on the day of
  `open()` hour 0 repeats the constructor's calculation.
* `automation.h:471` says "Calculations done every 24 hours and at startup", which is
  not so where daylight saving time begins at midnight: that day has no hour 0 and no
  calculation (`CalculatedUnlessSkipped` is what is true of it, and `day` shows that
  the next day is like any other).
* `doCalc` says that daylight saving is "taken care of" (`automation.cpp:597`), and uses
  the offset of hour 0 for the whole day.
* `FNday` says that its hour is UT (`automation.cpp:466`), and `doCalc` passes the local
  hour (595, 607).
* `README.md` says how to disable each event, and `doWork` never reads the flags,
  under whatever name they were set.
* `README.md` documents `debug`, `write`, `enable-noon`, `filter` and `mask`, none of
  which the code reads (it reads `debug-enable` and `write-enable`), and `zone` and
  `subzone`, which always throw.
* `debug/conf_standard.json` gives every value as a string, so that no boolean and no
  number passes its test, and ends in a comma, so that it does not parse at all.

## 4. Fairness

A thread that is inside a call keeps running (weak fairness of its steps); a
timed wait ends (the wait, its timeout and its failure together are weakly fair).
A mutex is held for a few instructions and is not withheld for ever from a
thread that keeps asking for it, so taking it is strongly fair: POSIX mutexes give
no such guarantee in theory, but the producers run a few times a day and readers wait
on the semaphore first. The worker loops without being asked (weak fairness of
its next step). Nothing makes the daemon read, write, open or close, and
nothing makes a signal arrive. The schedule's properties need no fairness: they
say what holds whenever the clock has moved on by itself, under the assumption in `Tick`
that the worker completes at least `Rounds` (more than five) rounds in each
minute; it loops at least once a second. SunEvents adds that the daemon's receive
thread calls `VSCPRead` again and again, as it does for as long as the driver is
open, that not every wait on a semaphore with a unit fails, and that time passes
(weak fairness of the clock, which waits for the worker's rounds). In DriverTable a
worker with `m_bQuit` set ends: that is `QuitIsObeyed`, checked in SendQueue.

## 5. Proofs

All proofs are checked by TLAPS with the SMT, Zenon and PTL back ends; each module of
proofs extends the module it is about, and the assumptions are those named in that
module (finite thread sets, distinct sentinels, positive bounds). Three theorems add a
hypothesis of their own, which the text below and the comment above each of them name.

* `ReceiveQueueProofs`: the inductive invariant is type correctness, the lock discipline
  (a thread is in a critical section iff it owns the mutex) and `SemCountsEvents`. The
  count needs the lock discipline, since only then is there at most one thread at the
  list; `FrontNeverEmpty` follows from the count, since a claimant is one of the
  summands. The lemmas `ClaimantsChange`, `ClaimantsKept` say how the set of claimants
  changes when one thread moves. `Refinement` proves that every step is a step of
  `EventChannel` or a stutter under the mapping (safety; the fairness part of the
  refinement is checked by TLC).
* `SendQueueProofs`: the invariant adds what a worker past the unlocked `size()` knows
  (the list is not empty: only the worker pops), the surplus of units, and the
  conservation equation. `CloseTerminates` has an invariant of its own: until a signal
  interrupts a wait, `m_bQuit` is set by `close()` alone.
* `DayEventsProofs`: three invariants, all for every clock, one that skips hour 0 or is
  set included (`ClockMoves` says where a step of the clock leads, `ResetMoves` where a
  setting of `ResetClock` does). `DayIInv`: whatever is in the history lies before the
  due time of its kind, or on the day of a round in progress, or is of a day that the
  clock was set to, from or past; hence nothing is sent twice on any other day and the
  worker calculates it once. Where no such setting has touched the day (`Steady`),
  nothing that the worker keeps is ahead of the clock (`NotAhead`); after one, whatever
  is ahead of the clock is of a day in `resetDays`, so the exemption lasts no longer
  than those days. `ClockIInv`: on a day with a regular hour 0 the calculation follows
  the clock; after the rounds of a minute the flag agrees with the hour on any day, which
  is how the schedule comes back after a day without one; hence each event uses its own
  day's time, and the calculation is older than 24 hours only as
  `CalculatedUnlessSkipped` says. `ServiceIInv` is for `EveryDay`: while kinds are due in
  the current minute, the rounds made in it and the kinds still due are together at most
  six (`RoundsLeft`: five kinds, and the calculation of hour 0 takes a round for itself),
  and `Tick` waits for more rounds than five; hence no minute ends before its events are
  sent (`MinuteServed`), and each kind of a day that was calculated is sent, set over, or
  still to come (`Pending`), unless the clock was set to, from or past that day.
* `DayNumberProofs`: lemmas on `Luku` at the end of a day, of each month, of February in
  either kind of year, and of a year, each by cases on the remainders that the
  truncating quotients leave; hence the day count advances with the clock (`DaysCount`),
  for any step of at most a day. `CountsFromJ2000` compares it with the count from
  scratch: the leap years between two years are the fourth parts of an interval
  (`LeapCount`, a bijection), and a month adds its days to the set of the days before it
  (`MonthCount`), so no induction over years is needed, and eleven steps from January on
  are all there is over months.
* `SunTimesProofs`: hour and minute of a time that is not negative are quotient and
  remainder of its minute of the day, and the wrap does not change it (`ComputedTimes`);
  the equation of time is the true one up to whole days (`Equation`, by the half turn in
  which `L` and the right ascension lie); hence `DueByTheClock` for any skies and any
  monotone `Asin`, assuming `NoneBefore` and `NotLapped`. Under the same two,
  `DayLength`: `m_daylength` agrees with the two times it lies between.
  `SunTimesTypeCorrect` assumes neither: it covers the negative times too, since a
  remainder has the sign of its dividend.
* `DriverTableProofs`: the inductive invariant, for any number of threads and of
  objects, adds to types and the lock discipline where a thread may be in which
  function, and to the handles three things that no single property says. An entry of
  the map stands for an object unless the thread at `erase`, or the iterator of `_fini`,
  has just deleted it: `removeDriverObject` and `_fini` delete first and erase later, so
  `HandleDenotesObject` alone is not inductive. A live object is in such an entry or in
  the hands of the one `VSCPOpen` that made it. A thread that closes a handle is alone
  with it, which is the daemon's discipline and rules out a use after `delete`. The
  unlocked lookup may miss, and then a handle stays open with its object in the map
  (`NoObjectLost`), for `_fini` to find: `FiniCollectsAll` follows from the invariant of
  its iteration over the indices, those before the iterator being done.
* `ConfigurationProofs`: for any set of files, each member is what the keys seen so far
  make of it (`MembersSettled`). That is inductive because no other key has an event's
  flag as its `Target`, which `TargetFacts` establishes by cases, because `debug-enable`
  is seen before `write-enable`, and because a number never gets past `get<bool>()`.
* `SunEventsProofs`: the composition is first shown to implement each of its parts
  (`KeepsTheSchedule`, `KeepsTheQueue`): every step is one of DayEvents or leaves its
  state alone, and likewise for ReceiveQueue, for which the event of a round has to be
  one of the queue's events (no day after `MaxDay`). The clock is not set here
  (`NeverSet`), so that the days DayEvents excepts do not occur. So the invariants of both hold
  here, and the rest stands on them. `OnePlaceEach` counts places: a step brings one
  event to the worker or moves one on (`Moves`), and what each does to the count is
  `PlacesMove`; that a new event was in no place before is `FireFacts` of DayEvents for
  the five kinds, and for the calculation `NewsOnce`, since the flag is down. With
  `EveryDay` it gives `EveryDaySentOnce`, the safety part of what the driver promises
  end to end. For `CalculationFirst` the events on their way form one sequence, `Line`:
  those delivered, the one the reader holds, the list, and the one the worker holds. A
  step adds to its end, deletes its last or leaves it as it is (`LineMoves`), so its
  order is an invariant; that a sent event's calculation is already in it comes from
  `RoundKnowsDay` of DayEvents. The theorem is for one receive thread, and false for
  two: both may have popped, and the second copy its event first.

Only model-checked: liveness (`ReadReturns`, `EventuallyFinished`, `DoWorkRecurs`,
`QuitIsObeyed`, `CloseReturns`, `CallsReturn`, `EveryDayDelivered`) and the fairness
part of `ImplementsChannel`, since liveness and ENABLED are out of the prover's reach.

## 6. Not modelled

* The sines and tangents of the almanac (floating point): what `FNsun` adds to `L`,
  the right ascension and the products in `f0` and `f1` are constants of SunTimes.
  Declination and maximum altitude, which no event carries; a polar night (`fo`
  below -1), which needs a latitude that cannot be configured; `daylen` overwritten
  by another object, whose latitude is the same.
* `isDaylightSavingTime` and `getTimeZoneDiffHours`, which nothing calls.
* The contents, time stamps and GUIDs of events; logging.
* `doSaveConfig` (empty), the HLO commands (commented out in the source), getters
  and setters (single assignments, no caller).
* `linux/test.cpp`, a SocketCAN demonstration that is no part of the driver.
* `vscpdatetime`, `vscp_sem_wait` and the event helpers are external: their
  behaviour is taken from the way the code uses them.
* Memory of events left on the lists at destruction, and who owns an event handed to
  `VSCPWrite`: the daemon's side is not in the repository.
* A `VSCPClose` that overlaps a `VSCPRead` on the same handle: the interface leaves
  that to the daemon, and DriverTable takes it as the daemon's discipline.
* A clock set to before the day of `open()` or within `doCalc`; what the day's events
  are worth on a day that the clock was set to, from or past (see DayEvents); a zone
  whose offset changes between the calculation and an event of that day.

## 7. Plan

1. Done: every module, with a proof of each safety property that its run checks.
2. An abstract table of handles (an index is free, given to an object, or being
   closed) that DriverTable implements, its unlocked lookup being a refusal.
3. That the composition of SunEvents implements EventChannel as one theorem, rather than
   through `KeepsTheQueue` and `Refinement`.
4. Settings of the clock in SunEvents, which DayEvents has and the composition leaves out.
