# A verification development for the iotsketch sensor node

The repository holds generations of Arduino sketches for a battery-driven
ESP8266 node that measures humidity and temperature, uploads its readings to a
Firebase Realtime Database, mails when a reading leaves its range, and sleeps in
between. An app edits the node's settings in the same database. The newest
generation, `src/sketch_2022may30a_iot_basic_integrated_dht_tof.ino` ("the
sketch" below), is the one modelled in full: in it the whole program is
`setup()`, deep sleep ends in a reset, and `loop()` is empty. Two other
generations add behaviour it does not have and are modelled too: the one that
stays awake and listens to a reset button (`sketch_apr09d_...`, "the button
sketch"), and the water level node (`sketch_2022may11a_test_TOF10120` on the
bench, and integrated in the directory of the newest sketch).

## 1. Inventory

| Component | State | Operations | Talks to |
|---|---|---|---|
| Wake cycle, `setup()` 197-346 | the globals 107-134, lost at every reset | load, join, register, sense, mail, refresh, upload, persist, sleep | everything below |
| Settings in the EEPROM, 429-614, 1668-1979 | 512 bytes: credentials 0-223, mode 224, name 244, interval 308, thresholds 318-357, e-mail 358, switch 422; the user uid is written at 318 as well | load, one committed write per field | wake cycle, provisioning |
| Provisioning server, 847-1130 | none of its own | `/setting` writes fields, commits, and resets or reloads | a phone at the hotspot |
| Registration, 1275-1374 | mode field, device node | replaces the node, switches to burst mode, resets | database, EEPROM |
| Reading and upload, 710-783, 1133-1273 | history node and device node | `set` of an entry, then `updateNode` of the device | database |
| Refresh of settings, 1622-1907 | globals | reads interval and notification object | database, edited by the app at any time |
| Notification, 616-708 | none | compares the reading, mails | mail server |
| Clock, 1378-1399, 1995-2047 and `src/libraries/Time/Time.cpp` | `sysTime`, `nextSyncTime` | reads that may synchronise, date stamp | NTP server |
| Deep sleep, 351-371 | none | text to milliseconds to microseconds | wake-up timer |
| E-mail sender, `src/libraries/EMailSender-master/EMailSender.cpp` 197-221, 354-791 | one connection | SMTP dialogue, one line read per command | mail server |
| Button sketch: `setup()` and `loop()` 115-263, `processNormalTasks`, `listenResetButton`, `resetManufacturingMode` | EEPROM, press count, counted time | measure every ten counted seconds, poll the button, erase and restart | database, the person at the button |
| Task scheduler by `millis()`, 373-427 | last run times | run a task when due | earlier generations only |
| Water level node: `processWaterLeveling` 781-839 of the integrated sketch, `loop()` 54-83 of the bench sketch, `SimpleTimer.cpp` | relay flag, sensor buffer, timer | distance to relay | sensor, relay |
| Vendored libraries; one-feature test sketches; territory scenario | | | not part of the product's logic |

What is hard here: every network call can lose its request or its reply; the
battery can fail between any two of seven EEPROM commits; the app edits the
cloud between a read and the write-back of the same value; mail is decided on
the settings of an earlier wake; the clock may be set in the middle of being
read; texts of any length go into regions of a few bytes; a late answer of the
mail server is taken for the answer to the next command; counters of
milliseconds wrap around; the relay's state is lost in every sleep. None of it is tested anywhere in the repository. `PROJECT.json` lists each
hazard at its line with the properties that would notice it.

What makes each component correct:

- settings: what is committed at the end of a wake is what the next one loads;
  a wake without failures ends with EEPROM and cloud in agreement;
- interval: the device never imposes an old copy on the app;
- upload: the device node never names a reading that the history does not hold,
  and the history only grows outside of registration;
- mail: what is mailed is what the cloud's settings ask for, once they arrived;
- cycle: nothing short of the hotspot keeps a device from measuring for ever;
- clock: a reading is stored only once the clock is set, and the key is a date;
- sleep: the device sleeps as long as it was told, and wakes up;
- EEPROM: what was written to a region, and nothing of another, is read there;
  the commits of one wake repair what a text of the wrong length did;
- e-mail: "sent" means accepted, the message goes out only when it is asked for,
  and a silent server costs a bounded number of waits;
- button: a held button erases, an erased device stays silent, readings that
  were saved are not wiped by a second registration, a backlog is worked off;
- water level: the relay does not chatter and a silent sensor does not move it.

## 2. Modules

| Module | Models | Notes |
|---|---|---|
| `NotificationConfig` | the six notification settings in RAM, EEPROM and cloud, the conversions between them, the range decision | pure operators, no state |
| `DutyCycle` | the wake cycle with its EEPROM, its node in the cloud, the app, the power and the hotspot | one action per step of `setup()` |
| `Settings` | the settings as records, defaults, and what a request to `/setting` makes of them | pure operators, used by the next four |
| `IntervalSync` | the abstract promise about the three copies of the reading interval | implemented by `DutyCycle` (`Copies`) |
| `SettingsStore` | the abstract promise about the EEPROM: the five ways it may ever change | implemented by `DutyCycle` (`Kept`) and by `EepromLayout` (`Bytes`) |
| `EepromLayout` | the 512 bytes behind the settings: regions, texts of any length, every writer and reader | |
| `DutyCycleProofs` | proofs about `DutyCycle` | checked by TLAPS |
| `TimeKeeper` | Time library clock, NTP synchronisation, `getCurrentDateTime` | |
| `SleepTimer` | `strtol`, the default, the product in a machine word, deep sleep | |
| `SmtpDialogue` | `EMailSender::send` and a mail server that is slow, refuses or vanishes | |
| `ButtonNode` | the button sketch as a whole | |
| `WaterLevel` | sensor, relay and timer of both water level nodes | |
| `ButtonNodeProofs`, `WaterLevelProofs`, `TimeKeeperProofs`, `SleepTimerProofs`, `SmtpDialogueProofs`, `EepromLayoutProofs` | proofs about the module each is named after | checked by TLAPS |
| `LeastNumbers` | least elements and induction over the naturals, as lemmas | used by `SleepTimerProofs` and `EepromLayoutProofs` |
| `MC...` | constants for TLC | |

Two modules are detailed views of one step of `DutyCycle`: a mail (`MailHumid`,
`MailTemp`) is one run of `SmtpDialogue`, and a stamp one call in `TimeKeeper`.
`SettingsStore` ties the third: `DutyCycle` treats the EEPROM as a record, and
`EepromLayout` shows when bytes behave like that record.

### DutyCycle and the code

`pc` is the place `setup()` has reached, `ram` the globals, `flash` the committed
EEPROM, `cloud` the device's node. A label stands between two effects somebody
else can see or interrupt: a network call, a commit, a reset.

| Action | Code |
|---|---|
| `Boot` | `loadInternalConfig` |
| `JoinWifi`, `OpenHotspot` | `testWifi` true, false (then `setupAP`) |
| `Setting(q)` | the `/setting` handler |
| `CreateDevice`, `CreateNoTime`, `LeaveSetup` | `createDeviceDataToCloudDatabase`; `updateWorkingMode` and `ESP.reset` |
| `Sense`, `SenseFails` | `readSensor` and the test of `gIsSendNotify` |
| `MailHumid`, `MailTemp` | the halves of `processNotification` |
| `GetInterval`, `GetNotify` | the two refreshes in `processReadSensor` |
| `SaveHistory`, `SaveNoTime`, `SaveRoot` | `saveDataToCloudDatabase`, `saveDeviceRootDataToCloudDatabase` |
| `PersistNotify`, `PersistInterval` | `writeLocalNotificationInfo`, one commit each |
| `Sleep`, `Wake` | `processDeepSleep` and the reset that ends it |
| `PowerCycle`, `AppSetsInterval`, `AppSetsNotify`, `CalmDown` | the environment |

A call that writes has two parameters: `reached` (the database carried it out)
and `answered` (the firmware learnt of it); the reply is lost when the first
holds and not the second. The observer variables (`wish`, `excused`, `clean`,
`mailed`, `enabled`, `reported`) record what happened for the properties; no
guard reads them. Definitions headed "A defect" are wrong versions of the
definition below them; no specification uses them, and each shows that a
property notices that mistake.

Choices of abstraction:

- thresholds, readings and intervals are numbers; a text field is its number,
  `Absent` when it is cleared. Thresholds are those that two decimals carry
  exactly, intervals those a `float` carries exactly and of at most ten digits;
- a value in the cloud under `readingInterval` is a whole number: for any other
  type the code keeps its default, as for a missing value;
- a missing notification object is an object without keys (`NoNotifyNode`): the
  query sends no ETag, the answer `null` counts as a success, and what
  `jsonObject()` then holds is empty. So `GetNotify` resets all six settings, and
  notification is off. A registration leaves the cloud so until the app writes;
- a commit is atomic, as the flash layer of the core makes it (not in `src/`);
- a user uid starts with a letter, so its slices read as zero; its tail beyond
  byte 357 is hidden by clearing; credentials are right, wrong or none;
- a stamp is any of `Stamps`, as `TimeKeeper` shows that a key can repeat or be
  wrong; `getCurrentDateTime` may return false by falling off its end;
- erased flash (0xFF) shows only at the switch, the one field that provisioning
  does not clear.

### TimeKeeper and the code

`sys` is `sysTime` and `next` `nextSyncTime` of the Time library. `Now` is
`now()`: when a synchronisation is due it is tried, by `getNtpTime`, and either
sets the clock or postpones the next attempt. `ReadField` is one of the calls
that fill `date_buf`, in any order, as the arguments of one call; `CheckYear` is
the `year() < 1971` test, again a reading of the clock. `Return` includes the
missing return statement: true, false, or control past the end (`reset`). Dates
have a year, a minute and a second only; month, day and hour add longer
rollovers of the same kind.

### SleepTimer and the code

A text has a sign, an optional `0x` and digits. `Strtol` reads it with base 0 and
saturates, `OrDefault` replaces zero, `Microseconds` multiplies in the word. The
signed product overflows in C; the model takes the wrap-around the compiler
generates for it. `Word`, `Factor` and `Default` are parameters because TLC's own
integers are 32 bits wide.

### EepromLayout and the code

A text is a name with a length, a byte is zero or one character of a text. `Start`
and `Size` are the regions of `loadInternalConfig`; `WriteField` clears a region
and copies a text, however long, as `writeLocalNotificationConfig`,
`writeLocalReadingIntervalConfig` and the parts of `/setting` do; `CopyField` is
the copy without clearing of `updateWorkingMode` and of the credentials, which
follow the loop that clears bytes 0 to 397 (`ClearForOwner`); `WriteUid` goes over
the thresholds. `Keep` is one commit of `writeLocalNotificationInfo`. Observers in
`mem` remember what was given to each field, which fields another text ran into
(`spoiled`), which bytes an earlier owner left (`old`), and whether every text
fitted (`fits`). What a region with pieces of two texts spells is not tracked: as
a number it is any level.

### SmtpDialogue and the code

`Dialogue` lists the commands in the order of `send` with the code it passes to
`awaitSMTPResponse`; where the answer is not looked at, the code is `Unchecked`.
`ReadLine` reads one line and accepts the code anywhere in it (`indexOf`),
`TimeOut` is the wait of ten seconds, after which `send` returns or, where nobody
looks, goes on. The server is external: it takes the commands in order, refuses
any of them, may answer with a line too many (a second line, or a line that
`readStringUntil` saw in two halves), and the text of any answer may name another
code than its own.

### ButtonNode and the code

`pc` is the place in `setup()` or `loop()`; a turn of the loop is `Lap`, `Tasks`
and then `Press`, `ResetManufacturingMode`, or `Released` with `TasksAgain`: the
released branch counts the same lap again. `ledTime` is a signed long that wraps
around. Credentials are taken to be right, a network may still be missing. The
erasure leaves a blank EEPROM: the setup mode is written after `EEPROM.end`.

### WaterLevel and the code

`node` says which of the two it is, for good. `SampleOnTimer` is `loop()` of the
bench sketch with `SimpleTimer`, whose sum is taken in 64 bits; `SampleOnWake` is
`processWaterLeveling` at the end of a wake. `relay` is what was written to the
pin last; neither sketch makes the pin an output, and whether it then drives
anything is the board's matter. Inches are the product with 0.0394, in ten
thousandths. Of the integrated sketch the HEAD side of its merge markers is taken.

## 3. What the runs check

| Run | Properties | Shows |
|---|---|---|
| `cycle_safety` | `TypeOK`, `WakesWithWhatItSlept`, `CleanWakeSyncs`, `WishLostOnlyWithExcuse`, `RootPointsIntoHistory`, `HistoryKept`, `PushesOnlyFetched`, `FlashFollowsStore` | settings survive sleep; a clean wake syncs, a missing notification object included; when the app's interval can be lost; upload order; `DutyCycle` implements `IntervalSync` and `SettingsStore` |
| `cycle_mail` | `MailFollowsCloud` | mail against the cloud's settings, complete and partial objects |
| `cycle_liveness` | `Settles`, `KeepsMeasuring` | recovery once the environment is quiet |
| `eeprom` | `TypeOK`, `UnspoiledReadsBack`, `CommitsHeal`, `NothingOfPreviousOwner`, `BytesFollowRecord` | what the bytes read as, what repairs them, what a new owner can see; texts that fit implement `SettingsStore` |
| `clock` | `TypeOK`, `ReturnsWithClockSet`, `EpochOnlyAcrossSync`, `SyncsSpaced` | clock and stamp over all ways synchronisation fails |
| `sleep_timer` | `TypeOK`, `SleepsAsWritten`, `NoNumberSleepsDefault` | text to sleep |
| `smtp` | `TypeOK`, `SentMeansAccepted`, `MessageIsAskedFor`, `WaitsBounded`, `PromptMeansSent` | one mail against every server |
| `button` | `TypeOK`, `DurableHistory`, `BlankIsSilent`, `HeldButtonErases`, `CatchesUp`, `KeepsMeasuring` | the button sketch under faults, presses and slow turns |
| `water` | `TypeOK`, `IntegratedNeverReleases`, `SilentSensorMovesNothing`, `SwitchesSpanTheBand`, `StopsOnlyAtTheEnd`, `FullTankReleases` | both water level nodes |

Some of these say precisely how far the code goes, which is less than one would
wish: a request with an overlong text spoils its neighbour, and only what a
wake commits is repaired (`CommitsHeal`, but for what an overlong interval, the
last commit, runs into); a new owner may read the end of the last one's address
where another text adjoins it (`NothingOfPreviousOwner`); an answer whose text
names the code waited for passes for it (`SentMeansAccepted`); readings taken between a registration whose reply was lost
and the next boot are wiped (`DurableHistory` counts those saved later); the
bench timer stops for good when its sum leaves the 32 bits of the clock
(`StopsOnlyAtTheEnd`); the integrated node never lets go of its relay.

Three more runs each refute one thing the source says of itself; `PROJECT.json`
quotes the line:

- `cycle_default`: "value has updated from cloud database" is said, and done,
  when the read failed;
- `cycle_unsolicited`: notification is off by default, but not on erased flash
  nor on a device provisioned again;
- `sleep_week`: the week the comment promises does not fit the product. Above
  4294967 ms, 72 minutes, it wraps around; 536870912 ms even sleeps for ever.

### Bounds

- Two intervals (the default and another) suffice: every comparison in the code
  is with the default or for equality. Four addresses: empty, default, a number,
  the user's. Five levels make both readings in range and out of it.
- `cycle_mail` takes a reading in range and one out of it, and a complete and a
  partial object that replace each other. `cycle_safety` and `cycle_liveness` take
  one object, which may be missing, and the reading in range, which is of no
  consequence beyond the mail; in `cycle_safety` mail goes out all the same, on the
  zero thresholds that a uid leaves. `cycle_liveness` asks whether the copies come to
  agree, for which one limit unlike its default is enough, and an installation
  that leaves the mode to be changed, for which the uid does not matter.
- The wake cycle has one stamp: its properties ask for membership, an entry is
  still missing or repeated, and the theorems hold for any set of stamps.
- The requests are an installation with a uid, one without, one with wrong
  credentials and a change of the interval alone: each branch of the handler.
- Faults, edits and provisioning are unbounded in number; nothing counts.
- `clock`: synchronisation is due every three seconds, one wake lasts eight, so
  two more attempts fall anywhere inside the readings; three nested calls fill the
  stack. A minute has two seconds, so every pair of readings can straddle one.
- `sleep_timer`: twelve bits, a factor of 40 and four digits of six kinds
  (octal, decimal, hexadecimal and no digit) give products below the word, above
  it, saturated, and equal to zero modulo it, as 1000 and 2^32 do.

- `eeprom`: regions of one to four bytes in the order of the source, with texts
  shorter than, as long as and longer than their region, and uids that end before,
  and exactly at, the end of what is cleared. One power failure between two
  commits (`MaxCuts`) is enough for each mixture of old and new bytes; there is
  no bound on wakes, requests and new owners.
- `smtp`: two recipients, so that one answer to `RCPT TO` can stand for the other;
  at most two odd answers (`MaxOdd`), since one shifts the lines and the second
  would have to shift them back.
- `button`: turns below, at and above the interval, each counted up to twice, and
  a counter that wraps around after a few turns of backlog.
- `water`: distances at both edges of the band, where the factor 0.0394 decides;
  the clock wraps after ten counts, so that every position of the timer occurs.

Deadlock is not checked where the program may stop: a device in its hotspot
waits for ever when nobody comes, a wake's clock ends with its call, and a mail
with its answer.

### Fairness

`FairSpec` of `DutyCycle` adds weak fairness of `DeviceStep`: the processor runs
and the wake-up timer fires. It does not make any call succeed. The environment
promises instead, with `calm`, that from some moment no call fails and nobody
edits; without that no property of convergence could hold, and `calm` is never
required to come about. A device in its hotspot is exempt, because its code
leaves only by provisioning or by a reset. `Wake` supposes that the sleep is not
zero, which is `SleepTimer`'s subject.

`ButtonNode` has weak fairness of `DeviceStep` for the same reason: the processor
runs, and every call returns, with or without success. `SmtpDialogue` has it for
the client, which never waits for ever, and for the server, which takes up every
command some time; only `PromptMeansSent` rests on the latter, and it supposes
besides that no wait ended first. `WaterLevel` has it for the device; its clock
counts only while the timer is not ready, as `loop()` asks thousands of times
within one millisecond.

## 4. What is proved

`DutyCycleProofs` proves for every value of the constants that the named
assumptions allow (`LevelsAssumption`, `EmailsAssumption`, `OnOffAssumption`,
`AbsentAssumption`, `IntervalsAssumption`, `AbsentIsNoValue`,
`CloudNotifyAssumption`, `ReadingsAssumption`, `RequestsAssumption`; TLC
evaluates them in every run):

| Theorem | Property | Inductive invariant, and why |
|---|---|---|
| `TypeCorrect` | `TypeOK` | itself; the conversions have type lemmas |
| `RootAlwaysPointsIntoHistory` | `RootPointsIntoHistory` | `RootInv`: at `saveRoot` the stamp in RAM is already in the history |
| `HistoryAlwaysKept` | `HistoryKept` | `SetupInv`: only with the setup mode committed does the program stand at registration |
| `WishIsKept` | `WishLostOnlyWithExcuse` | `WishInv`: while a write-back is pending, what it will write is the wish |
| `AlwaysWakesWithWhatItSlept` | `WakesWithWhatItSlept` | `PersistInv`: the fields before `step` are written |
| `CleanWakeAlwaysSyncs` | `CleanWakeSyncs` | `CleanInv` with `PersistInv`: how far a clean wake has come, in a cloud with or without a notification object |
| `MailAlwaysFollowsCloud` | `MailFollowsCloud` | `MailInv`: from `Sense` to the refresh, what was mailed is what the settings in RAM ask for, and they are the loaded EEPROM's |
| `FlashAlwaysFollowsStore` | `FlashFollowsStore` | type correctness; each action is a step of `SettingsStore` or leaves the EEPROM alone |
| `PushesOnlyFetchedHolds` | `PushesOnlyFetched` | type correctness; each action is a step of `IntervalSync` or leaves its variables alone |

`ButtonNodeProofs`, from `NodeAssumption`, for any requests, turns, interval and
width of the counter:

| Theorem | Property | Inductive invariant, and why |
|---|---|---|
| `TypeCorrect` | `TypeOK` | itself; `LongType`: a sum of two counts wraps around into the range |
| `HistoryIsDurable` | `DurableHistory` | `HistoryInv`: a device registers only in setup mode, and in that mode nothing durable was saved |
| `BlankIsAlwaysSilent` | `BlankIsSilent` | `BlankWaits`: without credentials a device gets no further than its hotspot |

`WaterLevelProofs`, from `TankAssumption`, for any distances, interval, word and
duration of a sample:

| Theorem | Property | Inductive invariant, and why |
|---|---|---|
| `TypeCorrect` | `TypeOK` | itself |
| `SilentSensorNeverMovesAnything` | `SilentSensorMovesNothing` | `ActedOn`: the flag agrees with the distance in the buffer, zeroes included |
| `SwitchesAlwaysSpanTheBand` | `SwitchesSpanTheBand` | `BandInv` with `ActedOn`: the observers include where the water is now |
| `IntegratedNodeNeverReleases` | `IntegratedNeverReleases` | `IntegratedInv`: before the one sample of a wake the flag is clear |

`TimeKeeperProofs`, from `LengthsAssumption`, for a wake, an interval, a minute, a
year and a stack of any length:

| Theorem | Property | Inductive invariant, and why |
|---|---|---|
| `TypeCorrect` | `TypeOK` | `ClockInv` and `CallsTypeOK`: the clock is right or counts from 1970, and the next attempt lies at most an interval ahead of it |
| `SyncsAreSpaced` | `SyncsSpaced` | `ClockInv`: on whichever of its two times the clock is, the next attempt lies an interval after the last one |
| `AlwaysReturnsWithClockSet` | `ReturnsWithClockSet` | `EpochInv`: what is handed out has passed the check of the year, which only a set clock passes |
| `EpochOnlyEverAcrossSync` | `EpochOnlyAcrossSync` | `EpochInv`: a year of 1970 in the stamp of a call means a clock not set yet, or an attempt since the call began |

`SleepTimerProofs`, from `WordAssumption`, `FactorAssumption`, `DefaultAssumption`
and `TextsAssumption`, for every text, word and factor:

| Theorem | Property | Inductive invariant, and why |
|---|---|---|
| `TypeCorrect` | `TypeOK` | `SleepInv`: what is slept is what `OrDefault` and `Microseconds` make of the text |
| `AlwaysSleepsAsWritten` | `SleepsAsWritten` | `SleepInv`, and that a number whose product fits is below where `strtol` saturates |
| `NoNumberAlwaysSleepsDefault` | `NoNumberSleepsDefault` | `SleepInv`, and that zeroes stand for zero in every base |

What `Numeral` computes is proved by induction over the digits: `LeastNumbers`
derives induction, in the form of a set that contains zero and every successor,
from the well-foundedness of the naturals.

`SmtpDialogueProofs`, from `DialogueAssumption`, for any number of recipients and
odd answers. `Inv` counts lines: `CommandsInv` says that what is under way to the
server are the last commands said, `LinesInv` that each command taken up has
brought a line at least and that no line came before its command, `MessageInv`
that the server speaks no more once it has asked for the message, `ChecksInv` what
a passed check tells, and `WaitsInv` how many waits can have been in vain before a
step:

| Theorem | Property | Why |
|---|---|---|
| `TypeCorrect` | `TypeOK` | part of `Inv` |
| `AlwaysSentMeansAccepted` | `SentMeansAccepted` | the farewell is a line that only `QUIT` brings, and one wait in vain leaves the client a line behind it |
| `MessageAlwaysAskedFor` | `MessageIsAskedFor` | only a server that waits for the message says so, and the client has then read every line before |
| `WaitsAlwaysBounded` | `WaitsBounded` | who waited in vain does not come past the checked password |

`EepromLayoutProofs`, from `LayoutAssumption`, `TextsAssumption` and the
assumptions on settings, for every layout with the source's order of regions and
for texts of every length:

| Theorem | Property | Inductive invariant, and why |
|---|---|---|
| `TypeCorrect` | `TypeOK` | `Sound` and `RamInv`: nothing is written beyond the end, and every text in RAM can be written |
| `AlwaysUnspoiledReadsBack` | `UnspoiledReadsBack` | `Kept`: byte by byte, a text stands in its region and the rest of the region is zero (of the address, the next byte); the mode besides holds a text as a whole, so that "burst" covers "setup" |
| `CommitsAlwaysHeal` | `CommitsHeal` | `HealInv`: what was committed before `step` stands, as a later commit starts above it, and the interval is the last |
| `NothingOfPreviousOwnerIsRead` | `NothingOfPreviousOwner` | `Parted`: what older owners left lies beyond what is cleared, and an address that was written since covers it |
| `BytesAlwaysFollowRecord` | `BytesFollowRecord` | `FollowInv`: while everything has fitted, each text in RAM is one that the firmware writes, and the interval's is that of an interval or what its region held when it was loaded and still holds when its turn comes |

That a region reads back as the text that stands in it is `ReadsAlike`, about the
first zero of a sequence. The last theorem maps each writer to steps of
`SettingsStore`: a request, stage by stage, changes the part of the record it is
for and leaves the others (`RequestFollows`); a commit keeps the field it is for
(`CommitKeeps`); the end of setup mode is `LeaveSetup` (`LeaveFollows`); everything else stutters. It also needs `ValuesAssumption`, which
says what a text stands for: different intervals have different texts, and no text
is erased flash (all are ASCII); the page asks for "setup" or for no mode; a uid
of the database is 28 characters, longer than two regions of ten, and no number;
and the cloud's values are not empty, its interval a known one or longer than its
region.

Each proof has the initial states, one step per action, and the temporal
conclusion. The strengthenings were checked with TLC on the runs' constants
before the proof.

Only model-checked: the properties of liveness and stability (`Settles`, both
`KeepsMeasuring`, `HeldButtonErases`, `CatchesUp`, `PromptMeansSent`,
`StopsOnlyAtTheEnd`, `FullTankReleases`), which with fairness and `ENABLED` are
beyond this prover.

## 5. Not modelled

- Voltage, LEDs, serial output, the scan page of the hotspot.
- Rounding of the interval through `float` when it is written back, and other
  JSON types than whole numbers.
- The scheduler that compares `millis()` with the last run (373-427 of the sketch,
  `sketch_apr23a_...`): defined in the newest sketch and never called. Its
  comparison of a signed interval with an unsigned difference is listed as a hazard.
- The territory scenario, an older form of the wake cycle, and the sketches that
  try out one feature.
- EHLO, AUTH PLAIN and attachments of the e-mail sender, which the firmware does
  not use; the wait's own wrap-around of `millis()` (it only ends a wait early).
- Vendored libraries but for what the firmware uses of them: most of `src/` is
  such code, displays, sensors and transports that no path of the node reaches.

## 6. Plan

- `Wake` with `TimeKeeper`: how stamps repeat or go backwards over several wakes,
  and what that does to the history.
- The hazards without a property: the dropped hotspot connection at line 331 and
  the reply with a zero timestamp first.
